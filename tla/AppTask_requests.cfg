CONSTANTS
    create = create
    a1 = a1
    a2 = a2
    Creator = create
    Handler <- AllHandlers
    Approver <- TwoApprovers
    RemovalFails = TRUE
    MaxFailures = 2
SPECIFICATION FairSpec
INVARIANTS
    NoGhostTask
    OnePushPerApproval
    LedgerAgreesWithRow
    EndIsRecorded
PROPERTIES
    RejectionIsFinal
    ApprovedIsDispatched
CHECK_DEADLOCK FALSE
