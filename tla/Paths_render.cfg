SPECIFICATION Spec
CONSTANTS
    Xmax = 4
    Ymax = 3
    StrokesOf = 3
    Texts <- MCTexts
    Drawings <- MCDrawings
    PerMm = 1
    Tolerance = 2
    Doublings = 5
    MaxPoints = 4
    MaxMm = 3
    Margin = 1
    Workspaces <- MCWorkspaces
    Passes = {1, 2}
    Offset = 3
CHECK_DEADLOCK FALSE
INVARIANTS TwinsAgree CompressionSound OnlyPassesReject
PROPERTY StrokesSurvive
