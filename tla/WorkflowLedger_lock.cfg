SPECIFICATION FairSpec
CONSTANTS
    t1 = t1
    t2 = t2
    p1 = p1
    p2 = p2
    None = None
    Thread <- TwoThreads
    Proc <- TwoProcesses
    Scenario <- MCScenario
    MaxFaults = 1
    MaxLapses = 1
CHECK_DEADLOCK FALSE
INVARIANTS Consistent MutualExclusion TransitionsValid ReturnedMeansRecorded
PROPERTY OperationsEnd
