SPECIFICATION FairSpec
CONSTANTS
    u1 = u1
    u2 = u2
    k1 = k1
    k2 = k2
    p1 = p1
    p2 = p2
    None = None
    Users <- TwoUsers
    Keys <- TwoKeys
    Amounts <- CreditAndDebit
    Procs <- TwoProcs
    MaxInt = 3
    MaxIds = 2
INVARIANTS
    TypeOK
    LedgerChain
    IdOrderIsChainOrder
PROPERTIES
    RefinesAtomicLedger
    RequestsFinish
