CONSTANTS
    t1 = t1
    t2 = t2
    Task <- TwoTasks
    MaxTaskRetries = 1
    PopLimit = 2
    MaxSessions = 2
    Scenario <- OneUnderFaultsOrBatch
SPECIFICATION Spec
INVARIANTS
    Consistent
    NoTaskLost
PROPERTY LiveSessionStaysRegistered
SYMMETRY Symmetry
CHECK_DEADLOCK FALSE
