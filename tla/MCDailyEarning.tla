--------------------------- MODULE MCDailyEarning ---------------------------
(***************************************************************************)
(* Instance of DailyEarning for TLC.  One user is enough: every row and    *)
(* every key here is the user's own.                                       *)
(***************************************************************************)
EXTENDS DailyEarning, TLC

CONSTANTS u1, k1, k2, k3, p1, p2

OneUser == {u1}
TwoKeys == {k1, k2}
OneStaffKey == {k3}
TwoProcs == {p1, p2}

\* two of them meet the caps
OnePrize == {2}
\* the first two days pay the same: the total cap then meets a win
Rewards == <<1, 2>>
\* a debit, and an amount beyond the gate
MCAdjusts == {-1, 3}

Symmetric == Permutations(TwoKeys) \cup Permutations(TwoProcs)
=============================================================================
