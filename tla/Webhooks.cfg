SPECIFICATION Spec
CONSTANTS
    u1 = u1  u2 = u2  ad = ad  b1 = b1  b2 = b2  g1 = g1  ex = ex  p1 = p1  p2 = p2
    None = None
    Users <- TwoUsers
    Txs <- AllTxs
    Sort <- MCSort
    Expire = ex
    Calls <- MCCalls
    Length = 1
    Procs <- TwoProcs
    MaxTime = 1
    MaxCrashes = 1
INVARIANTS PaidByReceipt AckedIsGranted GoldIsLastWord
PROPERTY BoostStacks
