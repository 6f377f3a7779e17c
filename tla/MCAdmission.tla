---------------------------- MODULE MCAdmission -----------------------------
(***************************************************************************)
(* An instance of Admission for TLC.                                       *)
(***************************************************************************)
EXTENDS Admission, TLC

CONSTANTS d1, v1, v2, addr, p1, p2

OneDevice == {d1}
TwoUuids == {v1, v2}
AllKeys == {v1, v2, addr}
MCLimit == [k \in AllKeys |-> IF k = addr THEN 2 ELSE 1]
TwoProcs == {p1, p2}

Symmetric == Permutations(TwoUuids) \cup Permutations(TwoProcs)
=============================================================================
