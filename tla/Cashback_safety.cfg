SPECIFICATION Spec
CONSTANTS
    u1 = u1  u2 = u2  t1 = t1  t2 = t2  h1 = h1  h2 = h2  j1 = j1  j2 = j2
    None = None
    Users <- TwoUsers
    Opening <- NothingYet
    Txs <- TwoTxs
    Sums <- SmallAndClamped
    Clamp = 2
    MaxInt = 2
    Window = 1
    Handlers <- TwoHandlers
    Runners <- TwoRunners
    MaxTime = 1
    MaxCrashes = 1
SYMMETRY Symmetric
INVARIANTS PaidIffMatured ReturnsAccounted
PROPERTY FirstSaleWins
