SPECIFICATION FairSpec
CONSTANTS
    h1 = h1
    h2 = h2
    Handler <- TwoHandlers
    Settings <- MCSettings
    TTL = 2
    MaxTickets = 1
    Window = 2
    IdleTime = 1
    SessionTime = 2
    MaxIssues = 2
    MaxFaults = 1
    MaxTime = 2
CHECK_DEADLOCK FALSE
INVARIANTS Consistent OneSessionPerTicket BurstBounded RecognitionStopped
PROPERTIES TicketNotBurnt SlotFreed
