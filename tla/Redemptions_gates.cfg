SPECIFICATION Spec
CONSTANTS
    u1 = u1
    r1 = r1
    r2 = r2
    small = small
    big = big
    p1 = p1
    p2 = p2
    None = None
    Users <- OneUser
    Requests <- TwoRequests
    Skus <- TwoSkus
    Cost <- MCCost
    Small <- SmallSku
    Opening <- TightOpening
    Procs <- TwoProcs
    AutoAfter = 1
    Cooldown = 1
    MaxTime = 2
    MaxInt = 3
SYMMETRY Symmetric
INVARIANTS
    CooldownFromStart
    FirstOnesReviewed
