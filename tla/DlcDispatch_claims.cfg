SPECIFICATION FairSpec
CONSTANTS
    r1 = r1
    r2 = r2
    None = None
    Request <- TwoRequests
    MaxFaults = 2
    MaxExpiries = 1
    MaxCrashes = 1
CHECK_DEADLOCK FALSE
INVARIANTS Consistent DispatchedOnce FailureStaysRetryable
PROPERTIES OthersClaimKept RequestsAnswered
