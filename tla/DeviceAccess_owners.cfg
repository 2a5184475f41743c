CONSTANTS
    admin = admin
    u = u
    v = v
    s1 = s1
    s2 = s2
    t1 = t1
    None = None
    Account <- ThreeAccounts
    Admin <- OneAdmin
    Share <- TwoShares
    Transfer <- OneTransfer
    MaxReading = 1
SPECIFICATION Spec
INVARIANTS OneOwner BindingsExplained
PROPERTY OwnerChangesByTransfer
SYMMETRY Symmetry
CHECK_DEADLOCK FALSE
