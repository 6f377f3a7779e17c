---------------------------- MODULE AtomicLedger ----------------------------
(***************************************************************************)
(* What app/ledger.py promises its callers, with every transaction taken   *)
(* in one step: a coin movement happens once per idempotency key, never    *)
(* takes a balance below zero or above the 32-bit column, and the balance  *)
(* column moves together with the ledger row.  No locks, no sessions, no   *)
(* row ids: CoinLedger has those and implements this specification;        *)
(* Redemptions and Cashback move coins by its actions.                     *)
(***************************************************************************)
EXTENDS Integers

CONSTANTS
    Users,      \* rows of the users table
    Keys,       \* idempotency keys (the unique ledger.idem_key)
    Amounts,    \* amounts callers pass: credits > 0, debits < 0, capped claims 0
    MaxInt      \* largest value of users.balance, an INTEGER column

VARIABLES
    balance,    \* [Users -> 0..MaxInt]: users.balance
    applied     \* the ledger rows, as a set of [user, amount, key]

vars == <<balance, applied>>

Entry(u, a, k) == [user |-> u, amount |-> a, key |-> k]

\* find_by_idem_key() is not None
Known(k) == \E e \in applied : e.key = k

Fits(u, a) == balance[u] + a \in 0..MaxInt

\* apply(): one new ledger row and the balance update, in one transaction
Move(u, a, k) ==
    /\ ~Known(k)
    /\ Fits(u, a)
    /\ balance' = [balance EXCEPT ![u] = @ + a]
    /\ applied' = applied \cup {Entry(u, a, k)}

Init ==
    /\ balance = [u \in Users |-> 0]
    /\ applied = {}

Next == \E u \in Users, a \in Amounts, k \in Keys : Move(u, a, k)

Spec == Init /\ [][Next]_vars
=============================================================================
