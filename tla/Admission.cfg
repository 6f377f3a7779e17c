SPECIFICATION Spec
CONSTANTS
    d1 = d1  v1 = v1  v2 = v2  addr = addr  p1 = p1  p2 = p2
    None = None
    Nobody = Nobody
    Devices <- OneDevice
    Users <- TwoUuids
    Address = addr
    Keys <- AllKeys
    Limit <- MCLimit
    Procs <- TwoProcs
    Window = 3
    Skew = 1
    Delay = 1
    FailOpen = TRUE
    MaxTime = 4
    MaxAsks = 3
    MaxFaults = 1
    MaxChanges = 2
SYMMETRY Symmetric
INVARIANTS WindowBound OneUserPerDevice StatusTrail OnlyCaughtFinish
PROPERTY RefusedAtLimit
