---------------------------- MODULE LedgerReaders ---------------------------
(***************************************************************************)
(* Who reads the ledger while handlers write it: audit_ledger() of         *)
(* app/jobs.py, and the histories that are read page by page, GET          *)
(* /v1/me/ledger and GET /admin/users/{id}/ledger.                         *)
(*                                                                         *)
(* A writer is a handler of CoinLedger from its row lock on.  A SELECT is  *)
(* one step, for READ COMMITTED gives each statement its own snapshot.     *)
(* The audit exists for what no handler does: somebody changes a balance   *)
(* or a ledger row by hand (Tamper...).                                    *)
(***************************************************************************)
EXTENDS Integers, FiniteSets, FiniteSetsExt

CONSTANTS
    Users, None,
    Amounts,    \* of coin movements
    Limit,      \* rows of a page
    Procs,      \* writers, runs of the audit, clients that page
    Wrong,      \* what a hand may add to a number
    MaxId, MaxTampers

ASSUME LimitIsPositive == Limit \in Nat \ {0}
ASSUME NumbersAreInt == Amounts \subseteq Int /\ Wrong \subseteq Int
ASSUME BoundsAreNat == MaxId \in Nat /\ MaxTampers \in Nat
ASSUME NoneIsNew == None \notin Users \cup Procs

VARIABLES
    balance,    \* users.balance
    rows,       \* [Users -> SUBSET Rows]: the ledger
    nextId,     \* the identity sequence of ledger.id
    userLock,   \* [Users -> Procs \cup {None}]
    pc, session,
    reported,   \* users with a ledger_integrity_mismatch in fraud_events
    tampers     \* history: changes made by hand so far

vars == <<balance, rows, nextId, userLock, pc, session, reported, tampers>>
books == <<balance, rows>>

Rows == [id : Nat, amount : Int, after : Int]

\* w_*: a writer, a_*: a run of the audit, p_*: a client that pages
Steps == {"idle", "w_flushed", "a_sums", "a_users", "a_locked", "p_more", "p_end"}

\* row: flushed by a writer; balance, todo, found: of a run; bad: history, the
\* books that were broken when it began; cursor, seen: of a client; twice,
\* start: history, the ids it saw again and those there were at its first page
Sessions == [user : Users \cup {None}, row : Rows, balance : Int,
             todo : SUBSET Users, found : SUBSET Users, bad : SUBSET Users,
             cursor : Nat, seen : SUBSET Nat, twice : SUBSET Nat, start : SUBSET Nat]

NoRow == [id |-> 0, amount |-> 0, after |-> 0]

Idle == [user |-> None, row |-> NoRow, balance |-> 0, todo |-> {}, found |-> {},
         bad |-> {}, cursor |-> 0, seen |-> {}, twice |-> {}, start |-> {}]

-----------------------------------------------------------------------------
\* Mutated forms, each a mistake this code could have made; no action uses
\* them.  They show that the properties below can fail.

UserFreeAlways(u) == TRUE                        \* re-check without the lock
MismatchAlways(p) == TRUE                        \* a candidate is not checked again
OlderOrEqual(ids, c) == {i \in ids : i <= c}     \* id <= before_id

-----------------------------------------------------------------------------
UserFree(u) == userLock[u] = None

Release(p) ==
    userLock' = [u \in Users |-> IF userLock[u] = p THEN None ELSE userLock[u]]

Goto(p, step) == pc' = [pc EXCEPT ![p] = step]

Finish(p) == Goto(p, "idle") /\ session' = [session EXCEPT ![p] = Idle]

\* b # coalesce(sum(amount), 0)
SumsDiffer(u, b) == b # MapThenSumSet(LAMBDA r : r.amount, rows[u])

\* lag(balance_after) OVER (ORDER BY id), coalesced to 0
PrevAfter(rs, r) ==
    LET before == {q \in rs : q.id < r.id}
    IN  IF before = {} THEN 0
        ELSE (CHOOSE q \in before : \A s \in before : s.id <= q.id).after

ChainBroken(rs) == \E r \in rs : r.after - r.amount # PrevAfter(rs, r)

\* a mutated form: the second scan replaces what the first found
OnlyChains(p) == {u \in Users : ChainBroken(rows[u])}

Suspects(p) == session[p].todo \cup {u \in Users : ChainBroken(rows[u])}

Broken(u) == SumsDiffer(u, balance[u]) \/ ChainBroken(rows[u])

Ids(u) == {r.id : r \in rows[u]}

Older(ids, c) == {i \in ids : i < c}

\* ORDER BY id DESC LIMIT
IsPage(page, ids) ==
    /\ page \subseteq ids
    /\ \A i \in page, j \in ids \ page : j < i
    /\ Cardinality(page) <= Limit
    /\ Cardinality(page) < Limit => page = ids

Init ==
    /\ balance = [u \in Users |-> 0]
    /\ rows = [u \in Users |-> {}]
    /\ nextId = 1
    /\ userLock = [u \in Users |-> None]
    /\ pc = [p \in Procs |-> "idle"]
    /\ session = [p \in Procs |-> Idle]
    /\ reported = {}
    /\ tampers = 0

-----------------------------------------------------------------------------
\* lock_user() and apply(): the row has its id, nothing is visible yet
Write(p, u, a) ==
    /\ pc[p] = "idle"
    /\ nextId <= MaxId
    /\ UserFree(u)
    /\ balance[u] + a >= 0
    /\ userLock' = [userLock EXCEPT ![u] = p]
    /\ session' = [session EXCEPT ![p] = [Idle EXCEPT !.user = u,
           !.row = [id |-> nextId, amount |-> a, after |-> balance[u] + a]]]
    /\ nextId' = nextId + 1
    /\ Goto(p, "w_flushed")
    /\ UNCHANGED <<books, reported, tampers>>

WriteCommit(p) ==
    LET u == session[p].user IN
    /\ pc[p] = "w_flushed"
    /\ balance' = [balance EXCEPT ![u] = session[p].row.after]
    /\ rows' = [rows EXCEPT ![u] = @ \cup {session[p].row}]
    /\ Finish(p)
    /\ Release(p)
    /\ UNCHANGED <<nextId, reported, tampers>>

-----------------------------------------------------------------------------
\* pass 1, first scan
ScanSums(p) ==
    /\ pc[p] = "idle"
    /\ session' = [session EXCEPT ![p] = [Idle EXCEPT
           !.todo = {u \in Users : SumsDiffer(u, balance[u])},
           !.bad = {u \in Users : Broken(u)}]]
    /\ Goto(p, "a_sums")
    /\ UNCHANGED <<books, nextId, userLock, reported, tampers>>

\* pass 1, second scan, by a later snapshot
ScanChains(p) ==
    /\ pc[p] = "a_sums"
    /\ session' = [session EXCEPT ![p].todo = Suspects(p)]
    /\ Goto(p, "a_users")
    /\ UNCHANGED <<books, nextId, userLock, reported, tampers>>

AuditLock(p, u) ==
    /\ pc[p] = "a_users"
    /\ u \in session[p].todo
    /\ UserFree(u)
    /\ userLock' = [userLock EXCEPT ![u] = p]
    /\ session' = [session EXCEPT ![p].user = u, ![p].balance = balance[u],
                                  ![p].todo = @ \ {u}]
    /\ Goto(p, "a_locked")
    /\ UNCHANGED <<books, nextId, reported, tampers>>

\* the rows are read by a second statement, under the lock
Mismatch(p) ==
    LET s == session[p] IN SumsDiffer(s.user, s.balance) \/ ChainBroken(rows[s.user])

AuditClear(p) ==
    /\ pc[p] = "a_locked"
    /\ ~Mismatch(p)
    /\ Goto(p, "a_users")
    /\ Release(p)
    /\ UNCHANGED <<books, nextId, session, reported, tampers>>

AuditReport(p) ==
    /\ pc[p] = "a_locked"
    /\ Mismatch(p)
    /\ reported' = reported \cup {session[p].user}
    /\ session' = [session EXCEPT ![p].found = @ \cup {session[p].user}]
    /\ Goto(p, "a_users")
    /\ Release(p)
    /\ UNCHANGED <<books, nextId, tampers>>

AuditEnd(p) ==
    /\ pc[p] = "a_users"
    /\ session[p].todo = {}
    /\ Finish(p)
    /\ UNCHANGED <<books, nextId, userLock, reported, tampers>>

-----------------------------------------------------------------------------
\* the rows that the SELECT finds are added to what the client has
Got(s, page) == [s EXCEPT !.seen = @ \cup page, !.twice = @ \cup (s.seen \cap page)]

\* next_cursor is the last id of a full page
Page(p, s, ids) ==
    \E page \in SUBSET ids :
        /\ IsPage(page, ids)
        /\ \/ \E c \in page :
                 /\ Cardinality(page) = Limit
                 /\ \A i \in page : c <= i
                 /\ session' = [session EXCEPT ![p] = [Got(s, page) EXCEPT !.cursor = c]]
                 /\ Goto(p, "p_more")
           \/ /\ Cardinality(page) < Limit
              /\ session' = [session EXCEPT ![p] = [Got(s, page) EXCEPT !.cursor = 0]]
              /\ Goto(p, "p_end")
        /\ UNCHANGED <<books, nextId, userLock, reported, tampers>>

FirstPage(p, u) ==
    /\ pc[p] = "idle"
    /\ Page(p, [Idle EXCEPT !.user = u, !.start = Ids(u)], Ids(u))

NextPage(p) ==
    /\ pc[p] = "p_more"
    /\ Page(p, session[p], Older(Ids(session[p].user), session[p].cursor))

\* the client has the last page, or stops before
Leave(p) ==
    /\ pc[p] \in {"p_more", "p_end"}
    /\ Finish(p)
    /\ UNCHANGED <<books, nextId, userLock, reported, tampers>>

-----------------------------------------------------------------------------
\* an UPDATE by hand; one of users waits for the row lock
Tamper(u) ==
    /\ tampers < MaxTampers
    /\ tampers' = tampers + 1
    /\ session' = [p \in Procs |-> [session[p] EXCEPT !.bad = @ \ {u}]]
    /\ UNCHANGED <<nextId, userLock, pc, reported>>

TamperBalance(u, d) ==
    /\ UserFree(u)
    /\ balance' = [balance EXCEPT ![u] = @ + d]
    /\ UNCHANGED rows
    /\ Tamper(u)

TamperRow(u, r, a, d) ==
    /\ <<a, d>> # <<0, 0>>
    /\ rows' = [rows EXCEPT ![u] = (@ \ {r}) \cup {[r EXCEPT !.amount = @ + a, !.after = @ + d]}]
    /\ UNCHANGED balance
    /\ Tamper(u)

\* a transaction rolls back, its process dies; what a run reported stays
Abort(p) ==
    /\ pc[p] \in {"w_flushed", "a_sums", "a_users", "a_locked"}
    /\ Finish(p)
    /\ Release(p)
    /\ UNCHANGED <<books, nextId, reported, tampers>>

Next ==
    \/ \E p \in Procs :
          \/ \E u \in Users, a \in Amounts : Write(p, u, a)
          \/ WriteCommit(p)
          \/ ScanSums(p)
          \/ ScanChains(p)
          \/ \E u \in Users : AuditLock(p, u)
          \/ AuditClear(p)
          \/ AuditReport(p)
          \/ AuditEnd(p)
          \/ \E u \in Users : FirstPage(p, u)
          \/ NextPage(p)
          \/ Leave(p)
          \/ Abort(p)
    \/ \E u \in Users, d \in Wrong \ {0} : TamperBalance(u, d)
    \/ \E u \in Users : \E r \in rows[u], a, d \in Wrong : TamperRow(u, r, a, d)

Spec == Init /\ [][Next]_vars

-----------------------------------------------------------------------------
\* Type invariant.
TypeOK ==
    /\ balance \in [Users -> Int]
    /\ rows \in [Users -> SUBSET Rows]
    /\ nextId \in Nat \ {0}
    /\ userLock \in [Users -> Procs \cup {None}]
    /\ pc \in [Procs -> Steps]
    /\ session \in [Procs -> Sessions]
    /\ \A p \in Procs : pc[p] = "idle" => session[p] = Idle
    /\ reported \subseteq Users
    /\ tampers \in Nat

\* "a claim landing mid-scan can throw false positives; every candidate is
\* re-checked under the user row lock before being reported" (audit_ledger):
\* whoever a run reports has books that disagree at that moment.  Books that only
\* an older snapshot had wrong, or a write came between, are not reported.
NoFalseReport ==
    [][\A p \in Procs, u \in Users :
          u \in (session'[p].found \ session[p].found) \cup (reported' \ reported)
              => Broken(u)]_vars

\* "nothing a concurrent writer does can mask corruption from the next run":
\* books that were broken when a run began, and that no hand has touched
\* since, are reported or on the way to be.
NothingMasked ==
    \A p \in Procs :
        /\ pc[p] = "a_users" => session[p].bad \subseteq session[p].todo \cup session[p].found
        /\ pc[p] = "a_locked" =>
              session[p].bad \subseteq
                  session[p].todo \cup session[p].found \cup {session[p].user}
        /\ pc[p] = "a_locked" /\ session[p].user \in session[p].bad => Mismatch(p)

\* "a legitimate write can neither create nor heal a violation": no step but
\* one by hand changes whether the books of a user agree.
WritesNeitherBreakNorHeal ==
    [][tampers' = tampers => \A u \in Users : Broken(u)' <=> Broken(u)]_vars

\* "The cursor keeps pages stable while new entries land on top" (my_ledger):
\* what a client has seen is the newest part, down to its cursor, of what
\* there was at its first page: nothing skipped, repeated or slipped in.
PagesStable ==
    \A p \in Procs :
        pc[p] \in {"p_more", "p_end"} =>
            /\ session[p].seen = {i \in session[p].start : i >= session[p].cursor}
            /\ session[p].twice = {}
=============================================================================
