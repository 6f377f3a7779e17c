----------------------------- MODULE CoinLedger -----------------------------
(***************************************************************************)
(* app/ledger.py as its callers run it: concurrent request handlers, each  *)
(* with one SQLAlchemy session and one READ COMMITTED transaction on       *)
(* PostgreSQL.  A handler loads the user (authentication), takes the row   *)
(* lock, looks the idempotency key up, inserts the ledger row together     *)
(* with the new balance, and commits; it may die at any point before that. *)
(*                                                                         *)
(* Uncommitted writes live in the handler's session and become visible in  *)
(* the tables at Commit, which is what READ COMMITTED gives.               *)
(***************************************************************************)
EXTENDS Integers, Sequences

CONSTANTS
    Users,      \* rows of the users table
    Keys,       \* idempotency keys
    Amounts,    \* amounts callers pass
    MaxInt,     \* largest INTEGER
    Procs,      \* request handlers and jobs running concurrently
    None,       \* no owner of a lock
    MaxIds      \* bound: an inserted row is rolled back only below this id

ASSUME AmountsAreInts == Amounts \subseteq Int
ASSUME MaxIntIsNat == MaxInt \in Nat
ASSUME MaxIdsIsNat == MaxIds \in Nat
ASSUME NoneIsNoProc == None \notin Procs

VARIABLES
    balance,    \* [Users -> 0..MaxInt]: the committed users.balance
    ledger,     \* [Users -> Seq(row)]: committed ledger rows, in commit order
    nextId,     \* the Identity() sequence of ledger.id
    userLock,   \* [Users -> Procs \cup {None}]: SELECT ... FOR UPDATE owner
    pc,         \* [Procs -> step of the handler]
    session     \* [Procs -> what the handler's session holds]

vars == <<balance, ledger, nextId, userLock, pc, session>>

tables == <<balance, ledger>>

-----------------------------------------------------------------------------
\* The handler's arguments, its in-memory User.balance and its row's id.
Sessions == [user : Users, amount : Amounts, key : Keys,
             balance : Int, id : Nat]

LedgerRows == [id : Nat, amount : Amounts, after : 0..MaxInt, key : Keys]

Idle == [user |-> None, amount |-> 0, key |-> None, balance |-> 0, id |-> 0]

Steps == {"idle", "loaded", "locked", "missing", "flushed"}

Holding == {"locked", "missing", "flushed"}

Row(s) == [id |-> s.id, amount |-> s.amount, after |-> s.balance + s.amount,
           key |-> s.key]

-----------------------------------------------------------------------------
\* Mutated forms, each a mistake this code could have made; no action uses
\* them.  They show that the properties below can fail.

RowFreeAlways(u) == TRUE                \* SELECT without FOR UPDATE
LockedBalanceStale(p) == session[p].balance         \* no populate_existing
CannotCoverNever(p) == FALSE            \* new_balance < 0 not tested
ReleaseNothing(p) == UNCHANGED userLock  \* transaction left open in the pool

-----------------------------------------------------------------------------
\* find_by_idem_key(): a READ COMMITTED select sees committed rows only
Committed(k) == \E u \in Users : \E i \in DOMAIN ledger[u] : ledger[u][i].key = k

\* another open transaction holds an uncommitted row with this key: the
\* unique index makes a second insert wait for that transaction to end
InsertedByOther(p) ==
    \E q \in Procs \ {p} : pc[q] = "flushed" /\ session[q].key = session[p].key

UniqueAllows(p) == ~Committed(session[p].key) /\ ~InsertedByOther(p)

\* SELECT ... FOR UPDATE returns once no other transaction has the row
RowFree(u) == userLock[u] = None

\* populate_existing overwrites the User that authentication loaded
LockedBalance(p) == balance[session[p].user]

\* new_balance < 0
CannotCover(p) == session[p].balance + session[p].amount < 0

Finish(p) ==
    /\ pc' = [pc EXCEPT ![p] = "idle"]
    /\ session' = [session EXCEPT ![p] = Idle]

Release(p) ==
    userLock' = [u \in Users |-> IF userLock[u] = p THEN None ELSE userLock[u]]

-----------------------------------------------------------------------------
Init ==
    /\ balance = [u \in Users |-> 0]
    /\ ledger = [u \in Users |-> <<>>]
    /\ nextId = 1
    /\ userLock = [u \in Users |-> None]
    /\ pc = [p \in Procs |-> "idle"]
    /\ session = [p \in Procs |-> Idle]

\* get_current_user(): the session loads the User, unlocked
Begin(p, u, a, k) ==
    /\ pc[p] = "idle"
    /\ pc' = [pc EXCEPT ![p] = "loaded"]
    /\ session' = [session EXCEPT ![p] = [user |-> u, amount |-> a, key |-> k,
                                          balance |-> balance[u], id |-> 0]]
    /\ UNCHANGED <<tables, nextId, userLock>>

\* lock_user(): waits for the row lock, then refreshes the in-memory copy
\* (populate_existing)
LockUser(p) ==
    LET u == session[p].user IN
    /\ pc[p] = "loaded"
    /\ RowFree(u)
    /\ userLock' = [userLock EXCEPT ![u] = p]
    /\ pc' = [pc EXCEPT ![p] = "locked"]
    /\ session' = [session EXCEPT ![p].balance = LockedBalance(p)]
    /\ UNCHANGED <<tables, nextId>>

\* apply(): the key is known; the transaction ends with nothing written
Replay(p) ==
    /\ pc[p] = "locked"
    /\ Committed(session[p].key)
    /\ Finish(p)
    /\ Release(p)
    /\ UNCHANGED <<tables, nextId>>

KeyMissing(p) ==
    /\ pc[p] = "locked"
    /\ ~Committed(session[p].key)
    /\ pc' = [pc EXCEPT ![p] = "missing"]
    /\ UNCHANGED <<tables, nextId, userLock, session>>

\* InsufficientBalance: the caller's DomainError rolls the transaction back
Insufficient(p) ==
    /\ pc[p] = "missing"
    /\ CannotCover(p)
    /\ Finish(p)
    /\ Release(p)
    /\ UNCHANGED <<tables, nextId>>

\* session.flush() cannot write: another transaction committed the key since
\* find_by_idem_key (IntegrityError), or the new balance does not fit the
\* column (DataError).  No caller catches either; the session rolls back.
FlushFails(p) ==
    /\ pc[p] = "missing"
    /\ ~CannotCover(p)
    /\ \/ Committed(session[p].key)
       \/ session[p].balance + session[p].amount > MaxInt
    /\ Finish(p)
    /\ Release(p)
    /\ UNCHANGED <<tables, nextId>>

\* session.flush(): INSERT ledger and UPDATE users inside the transaction;
\* the row takes its id from the sequence now, not at commit
Flush(p) ==
    /\ pc[p] = "missing"
    /\ ~CannotCover(p)
    /\ UniqueAllows(p)
    /\ session[p].balance + session[p].amount <= MaxInt
    /\ pc' = [pc EXCEPT ![p] = "flushed"]
    /\ session' = [session EXCEPT ![p].id = nextId]
    /\ nextId' = nextId + 1
    /\ UNCHANGED <<tables, userLock>>

\* the caller's session.commit(): row, balance and lock release at once
Commit(p) ==
    LET s == session[p] IN
    /\ pc[p] = "flushed"
    /\ balance' = [balance EXCEPT ![s.user] = s.balance + s.amount]
    /\ ledger' = [ledger EXCEPT ![s.user] = Append(@, Row(s))]
    /\ Finish(p)
    /\ Release(p)
    /\ UNCHANGED nextId

\* the handler dies or its connection drops: PostgreSQL rolls back and frees
\* the lock; an id the sequence gave out is lost
Abort(p) ==
    /\ pc[p] # "idle"
    /\ pc[p] = "flushed" => nextId <= MaxIds
    /\ Finish(p)
    /\ Release(p)
    /\ UNCHANGED <<tables, nextId>>

Step(p) == Replay(p) \/ KeyMissing(p) \/ Insufficient(p) \/ FlushFails(p)
           \/ Flush(p) \/ Commit(p)

Next ==
    \E p \in Procs :
        \/ \E u \in Users, a \in Amounts, k \in Keys : Begin(p, u, a, k)
        \/ LockUser(p)
        \/ Replay(p)
        \/ KeyMissing(p)
        \/ Insufficient(p)
        \/ FlushFails(p)
        \/ Flush(p)
        \/ Commit(p)
        \/ Abort(p)

Spec == Init /\ [][Next]_vars

\* A handler that can run does; PostgreSQL queues the waiters of a row lock,
\* so a waiter is served although other handlers keep asking for the row.
Fairness == \A p \in Procs : WF_vars(Step(p)) /\ SF_vars(LockUser(p))

FairSpec == Spec /\ Fairness

-----------------------------------------------------------------------------
\* Type invariant.
TypeOK ==
    /\ balance \in [Users -> 0..MaxInt]
    /\ ledger \in [Users -> Seq(LedgerRows)]
    /\ nextId \in Nat \ {0}
    /\ userLock \in [Users -> Procs \cup {None}]
    /\ pc \in [Procs -> Steps]
    /\ session \in [Procs -> Sessions \cup {Idle}]
    /\ \A p \in Procs : pc[p] # "idle" => session[p] \in Sessions

After(u, i) == IF i = 0 THEN 0 ELSE ledger[u][i].after

\* What audit_ledger (app/jobs.py) recomputes: in every reachable committed
\* state each row's balance_after is the previous row's plus its amount, and
\* users.balance is the last one.  Breaks when a handler computes from a balance another handler has moved.
LedgerChain ==
    \A u \in Users :
        /\ \A i \in DOMAIN ledger[u] :
              ledger[u][i].after = After(u, i - 1) + ledger[u][i].amount
        /\ balance[u] = After(u, Len(ledger[u]))

\* No idempotency key is on two committed rows, of one user or of two: the
\* lookup under one user's lock cannot see another user's open transaction,
\* the unique index must.
KeyAppliedOnce ==
    \A u, v \in Users : \A i \in DOMAIN ledger[u], j \in DOMAIN ledger[v] :
        ledger[u][i].key = ledger[v][j].key => u = v /\ i = j

\* "Per-user id order IS chain order" (app/jobs.py, audit_ledger), on which
\* the audit, the history cursor and the admin ledger's before_id rely: ids
\* come from a sequence at flush, rows become visible at commit.
IdOrderIsChainOrder ==
    \A u \in Users : \A i, j \in DOMAIN ledger[u] :
        i < j => ledger[u][i].id < ledger[u][j].id

\* Every handler step is a coin movement of AtomicLedger or changes nothing
\* a caller of another handler can see.
Applied ==
    {e \in [user : Users, amount : Amounts, key : Keys] :
        \E i \in DOMAIN ledger[e.user] :
            ledger[e.user][i].amount = e.amount /\ ledger[e.user][i].key = e.key}

Atomic == INSTANCE AtomicLedger WITH applied <- Applied

RefinesAtomicLedger == Atomic!Spec

\* Every request that has begun ends, answered or rolled back, whatever the
\* others do: neither the row lock nor the wait on the unique index strands it.
RequestsFinish == \A p \in Procs : pc[p] # "idle" ~> pc[p] = "idle"
=============================================================================
