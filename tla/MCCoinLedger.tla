---------------------------- MODULE MCCoinLedger ----------------------------
(***************************************************************************)
(* Instance of CoinLedger for TLC: two users, and two keys that either may *)
(* use (a client key reused, a network's tx id posted for two users).  The *)
(* amounts reach an exact cover, an uncovered debit and an overflow.       *)
(***************************************************************************)
EXTENDS CoinLedger

CONSTANTS u1, u2, k1, k2, p1, p2

TwoUsers == {u1, u2}
TwoKeys == {k1, k2}
TwoProcs == {p1, p2}
CreditAndDebit == {-2, 2}
=============================================================================
