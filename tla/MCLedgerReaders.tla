-------------------------- MODULE MCLedgerReaders ---------------------------
(***************************************************************************)
(* An instance of LedgerReaders for TLC.                                   *)
(***************************************************************************)
EXTENDS LedgerReaders, TLC

CONSTANTS u1, p1, p2

OneUser == {u1}
TwoProcs == {p1, p2}

InAndOut == {1, -1}
OffByOne == {0, 1}

Symmetric == Permutations(TwoProcs)
=============================================================================
