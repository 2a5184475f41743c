CONSTANTS
    t1 = t1
    t2 = t2
    Task <- OneTask
    MaxTaskRetries = 1
    PopLimit = 1
    MaxSessions = 1
    Scenario <- OnlyDelay
SPECIFICATION Spec
PROPERTY RecordedEndIsFinal
CHECK_DEADLOCK FALSE
