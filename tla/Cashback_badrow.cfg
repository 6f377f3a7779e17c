SPECIFICATION FairSpec
CONSTANTS
    u1 = u1  u2 = u2  t1 = t1  t2 = t2  h1 = h1  h2 = h2  j1 = j1  j2 = j2
    None = None
    Users <- TwoUsers
    Opening <- FirstIsFull
    Txs <- TwoTxs
    Sums <- OneSum
    Clamp = 2
    MaxInt = 2
    Window = 0
    Handlers <- OneHandler
    Runners <- OneRunner
    MaxTime = 0
    MaxCrashes = 0
PROPERTY BadRowNeverStalls
