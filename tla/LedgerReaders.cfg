SPECIFICATION Spec
CONSTANTS
    u1 = u1  p1 = p1  p2 = p2
    None = None
    Users <- OneUser
    Procs <- TwoProcs
    Amounts <- InAndOut
    Limit = 2
    Wrong <- OffByOne
    MaxId = 4
    MaxTampers = 2
SYMMETRY Symmetric
INVARIANTS NothingMasked PagesStable
PROPERTIES NoFalseReport WritesNeitherBreakNorHeal
