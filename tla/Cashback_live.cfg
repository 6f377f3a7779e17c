SPECIFICATION FairSpec
CONSTANTS
    u1 = u1  u2 = u2  t1 = t1  t2 = t2  h1 = h1  h2 = h2  j1 = j1  j2 = j2
    None = None
    Users <- OneUser
    Opening <- NothingYet
    Txs <- TwoTxs
    Sums <- ClampedSum
    Clamp = 2
    MaxInt = 4
    Window = 0
    Handlers <- TwoHandlers
    Runners <- TwoRunners
    MaxTime = 0
    MaxCrashes = 0
PROPERTIES DueCreditsSettle ProcessesFinish
