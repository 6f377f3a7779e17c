---------------------------- MODULE MCRedemptions ---------------------------
(***************************************************************************)
(* Instances of Redemptions for TLC.  One user is enough for every race    *)
(* over a redemption row or over the user's own gates; a second user is    *)
(* only another set of rows.                                               *)
(***************************************************************************)
EXTENDS Redemptions, TLC

CONSTANTS u1, r1, r2, small, big, p1, p2

OneUser == {u1}
TwoRequests == {r1, r2}
OneSku == {small}
TwoSkus == {small, big}
TwoProcs == {p1, p2}

SmallSku == {small}
OneCost == [k \in OneSku |-> 1]
MCCost == [k \in TwoSkus |-> IF k = small THEN 1 ELSE 2]
OneOpening == [u \in OneUser |-> 3]
\* all of it on one big card, or on two small ones
TightOpening == [u \in OneUser |-> 2]

\* requests and handlers are interchangeable (the runs of a safety property)
Symmetric == Permutations(TwoRequests) \cup Permutations(TwoProcs)
=============================================================================
