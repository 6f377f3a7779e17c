---------------------------- MODULE MCWebhooks ------------------------------
(***************************************************************************)
(* An instance of Webhooks for TLC: a reward that is sent for two users,   *)
(* two boosts, a gold subscription and its expiration.                     *)
(***************************************************************************)
EXTENDS Webhooks, TLC

CONSTANTS u1, u2, ad, b1, b2, g1, ex, p1, p2

TwoUsers == {u1, u2}
AllTxs == {ad, b1, b2, g1}
MCSort == (ad :> "reward") @@ (b1 :> "boost") @@ (b2 :> "boost") @@ (g1 :> "gold")
Call(u, t) == [user |-> u, tx |-> t]
MCCalls == {Call(u1, ad), Call(u2, ad), Call(u1, b1), Call(u1, b2), Call(u1, g1), Call(u1, ex)}
TwoProcs == {p1, p2}
=============================================================================
