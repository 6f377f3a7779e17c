----------------------------- MODULE GiftCards ------------------------------
(***************************************************************************)
(* What a redemption promises, each promise kept in one step: the coins    *)
(* are taken when the card is requested; then they are given back once, or *)
(* the card is paid for once, never both; and a user has one undecided     *)
(* request at a time.  Redemptions implements it.                          *)
(***************************************************************************)
EXTENDS Integers

CONSTANTS
    Users,
    Requests,   \* ids a redemption may get
    Skus,       \* the catalog
    Cost,       \* [Skus -> coins]
    Opening,    \* [Users -> coins earned before]
    None        \* no owner or sku yet

VARIABLES
    balance,    \* [Users -> coins]
    card,       \* [Requests -> state]
    owner,      \* [Requests -> Users \cup {None}]
    sku         \* [Requests -> Skus \cup {None}]

vars == <<balance, card, owner, sku>>

States == {"none", "held", "returned", "committed", "paid"}

Init ==
    /\ balance = Opening
    /\ card = [r \in Requests |-> "none"]
    /\ owner = [r \in Requests |-> None]
    /\ sku = [r \in Requests |-> None]

Hold(u, r, k) ==
    /\ card[r] = "none"
    /\ \A x \in Requests : card[x] = "held" => owner[x] # u
    /\ balance[u] >= Cost[k]
    /\ balance' = [balance EXCEPT ![u] = @ - Cost[k]]
    /\ card' = [card EXCEPT ![r] = "held"]
    /\ owner' = [owner EXCEPT ![r] = u]
    /\ sku' = [sku EXCEPT ![r] = k]

Return(r) ==
    /\ card[r] = "held"
    /\ card' = [card EXCEPT ![r] = "returned"]
    /\ balance' = [balance EXCEPT ![owner[r]] = @ + Cost[sku[r]]]
    /\ UNCHANGED <<owner, sku>>

\* approved: from here on only the payment is left
Decide(r) ==
    /\ card[r] = "held"
    /\ card' = [card EXCEPT ![r] = "committed"]
    /\ UNCHANGED <<balance, owner, sku>>

Pay(r) ==
    /\ card[r] = "committed"
    /\ card' = [card EXCEPT ![r] = "paid"]
    /\ UNCHANGED <<balance, owner, sku>>

Next == \E r \in Requests :
            \/ \E u \in Users, k \in Skus : Hold(u, r, k)
            \/ Return(r)
            \/ Decide(r)
            \/ Pay(r)

Spec == Init /\ [][Next]_vars
=============================================================================
