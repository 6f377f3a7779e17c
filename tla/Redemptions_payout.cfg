SPECIFICATION FairSpec
CONSTANTS
    u1 = u1
    r1 = r1
    r2 = r2
    small = small
    big = big
    p1 = p1
    p2 = p2
    None = None
    Users <- OneUser
    Requests <- TwoRequests
    Skus <- OneSku
    Cost <- OneCost
    Small <- SmallSku
    Opening <- OneOpening
    Procs <- TwoProcs
    AutoAfter = 1
    Cooldown = 0
    MaxTime = 0
    MaxInt = 3
INVARIANTS
    TypeOK
    NoDoublePayout
    OnePending
PROPERTIES
    RefinesGiftCards
    HandlersFinish
