CONSTANTS
    create = create
    a1 = a1
    a2 = a2
    Creator = create
    Handler <- AllHandlers
    Approver <- TwoApprovers
    RemovalFails = FALSE
    MaxFailures = 0
SPECIFICATION Spec
INVARIANT GatedTaskStaysPending
CHECK_DEADLOCK FALSE
