------------------------- MODULE MCEmailVerification ------------------------
(***************************************************************************)
(* Instance of EmailVerification for TLC.  Two users meet over an address, *)
(* and one of them over a second address and a third token.                *)
(***************************************************************************)
EXTENDS EmailVerification, TLC

CONSTANTS u1, u2, e1, e2, t1, t2, t3, p1, p2

TwoUsers == {u1, u2}
TwoEmails == {e1, e2}
ThreeTokens == {t1, t2, t3}
TwoProcs == {p1, p2}

Symmetric == Permutations(TwoUsers) \cup Permutations(TwoEmails)
                 \cup Permutations(ThreeTokens) \cup Permutations(TwoProcs)
=============================================================================
