CONSTANTS
    t1 = t1
    t2 = t2
    Task <- OneTask
    MaxTaskRetries = 1
    PopLimit = 1
    MaxSessions = 2
    Scenario <- Returning
SPECIFICATION ServerFairSpec
PROPERTIES
    DeadSessionRemoved
    StuckTaskRecovered
CHECK_DEADLOCK FALSE
