----------------------------- MODULE MCCashback -----------------------------
(***************************************************************************)
(* Instances of Cashback for TLC.                                          *)
(***************************************************************************)
EXTENDS Cashback, TLC

CONSTANTS u1, u2, t1, t2, h1, h2, j1, j2

OneUser == {u1}
TwoUsers == {u1, u2}
OneTx == {t1}
TwoTxs == {t1, t2}
OneHandler == {h1}
TwoHandlers == {h1, h2}
OneRunner == {j1}
TwoRunners == {j1, j2}

OneSum == {1}
SmallAndClamped == {1, 3}
ClampedSum == {3}

NothingYet == [u \in Users |-> 0]
\* u1 has as many coins as the column holds
FirstIsFull == [u \in Users |-> IF u = u1 THEN MaxInt ELSE 0]

\* handlers, users, sales and runs of the job are interchangeable (safety only)
Symmetric == Permutations(TwoHandlers) \cup Permutations(TwoRunners)
                 \cup Permutations(TwoUsers) \cup Permutations(TwoTxs)
=============================================================================
