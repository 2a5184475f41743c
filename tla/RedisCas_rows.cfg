CONSTANTS
    w1 = w1
    w2 = w2
    Writer <- TwoWriters
    MaxRetries = 3
    MaxOps = 3
SPECIFICATION FairSpec
INVARIANTS
    NoLostUpdate
    SameVersionSameContent
    ExhaustedMeansOthersWrote
    ReturnedCountNotAhead
PROPERTIES
    ImplementsAtomicRow
    OperationsReturn
CHECK_DEADLOCK FALSE
