SPECIFICATION Spec
CONSTANTS
    u1 = u1  k1 = k1  k2 = k2  k3 = k3  p1 = p1  p2 = p2
    None = None
    Users <- OneUser
    Keys <- TwoKeys
    StaffKeys <- OneStaffKey
    Prizes <- OnePrize
    Adjusts <- MCAdjusts
    AdjustMax = 1
    CheckinRewards <- Rewards
    GameCap = 3
    TotalCap = 4
    MaxInt = 5
    Procs <- TwoProcs
    MaxDay = 3
SYMMETRY Symmetric
INVARIANTS FreshClaimsCapped StreakIsRun TrailMatchesLedger ClaimGrantedOnce
PROPERTIES PaidClaimsLeaveRoom RefinesAtomicLedger
