SPECIFICATION Spec
CONSTANTS
    u1 = u1  u2 = u2  e1 = e1  e2 = e2  t1 = t1  t2 = t2  t3 = t3  p1 = p1  p2 = p2
    None = None
    Users <- TwoUsers
    Emails <- TwoEmails
    Tokens <- ThreeTokens
    Ttl = 1
    Procs <- TwoProcs
    MaxTime = 1
SYMMETRY Symmetric
INVARIANTS SingleUse AddressProven SharedOnlyByOverlap
PROPERTIES LatestRequestWins
