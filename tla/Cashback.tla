------------------------------ MODULE Cashback ------------------------------
(***************************************************************************)
(* Affiliate cashback: the postbacks of GET /v1/webhooks/affiliate (sale   *)
(* and reversal), create_cashback() and reverse_cashback() of              *)
(* app/services.py, and the maturation job of app/jobs.py, whose runs      *)
(* overlap each other and the postbacks.                                   *)
(*                                                                         *)
(* Handlers and job runs are concurrent, each step between two waits or    *)
(* commits one action; any of them may die.  The coins move by the actions *)
(* of AtomicLedger, which CoinLedger implements.  A postback with a bad    *)
(* signature, a malformed or unknown user or no coins writes none of these *)
(* tables and is left out.                                                 *)
(***************************************************************************)
EXTENDS Integers, FiniteSets

CONSTANTS
    Users, Opening, None,
    Txs,        \* network:tx_id of the sales
    Sums,       \* coins a postback asks for
    Clamp,      \* max_cashback_coins_per_postback
    MaxInt,     \* largest INTEGER
    Window,     \* cashback_maturation_days
    Handlers,   \* request handlers
    Runners,    \* runs of the job: cron, POST /admin/jobs/mature-cashback
    MaxTime,    \* bound on the clock
    MaxCrashes  \* bound on the processes that die

Procs == Handlers \cup Runners

ASSUME SumsArePositive == Sums \subseteq Nat \ {0} /\ Clamp \in Nat \ {0}
ASSUME OpeningFits == MaxInt \in Nat /\ Opening \in [Users -> 0..MaxInt]
ASSUME BoundsAreNat == Window \in Nat /\ MaxTime \in Nat /\ MaxCrashes \in Nat
ASSUME NoneIsNew == None \notin Users \cup Txs \cup Procs
ASSUME RunnersServeNone == Handlers \cap Runners = {}

VARIABLES
    balance,    \* users.balance
    applied,    \* ledger rows of cashback: [user, amount, key]
    status,     \* [Txs -> cashback_credits.status, "none" before the insert]
    owner,      \* cashback_credits.user_id
    coins,      \* cashback_credits.coins
    maturesAt,  \* cashback_credits.matures_at
    flagged,    \* fraud_events: cashback_reversal_after_maturity
    userLock,   \* [Users -> Procs \cup {None}], FOR UPDATE
    userShare,  \* [Users -> SUBSET Procs], FOR KEY SHARE of a foreign key
    rowLock,    \* [Txs -> Procs \cup {None}]
    pc, session,
    now,        \* the clock
    crashes,
    returned    \* history: sales whose reversal was answered 200 and found them

ledgerVars == <<balance, applied>>
rowVars == <<status, owner, coins, maturesAt, flagged>>
locks == <<userLock, userShare, rowLock>>
vars == <<ledgerVars, rowVars, locks, pc, session, now, crashes, returned>>

-----------------------------------------------------------------------------
Money == INSTANCE AtomicLedger WITH
             Keys <- Txs, Amounts <- {c \in Sums : c <= Clamp} \cup {Clamp}

Statuses == {"none", "pending", "matured", "reversed"}

\* s_*: sale, r_*: reversal, j_*: the job
Steps == {"idle", "s_flag", "s_start", "s_locked", "s_new",
          "r_start", "r_locked", "j_batch", "j_row", "j_both"}

\* user, tx and coins of the postback or row at hand, the status read under
\* the row lock, and the ids the job has yet to visit
Sessions == [user : Users \cup {None}, tx : Txs \cup {None}, coins : Nat,
             seen : Statuses, todo : SUBSET Txs]

Idle == [user |-> None, tx |-> None, coins |-> 0, seen |-> "none", todo |-> {}]

\* int(...) of the commission, cut to the clamp
Clamped(c) == IF c > Clamp THEN Clamp ELSE c

-----------------------------------------------------------------------------
\* Mutated forms, each a mistake this code could have made; no action uses
\* them.  They show that the properties below can fail.

RowFreeAlways(t) == TRUE                \* credit read without FOR UPDATE
StillPendingAlways(t) == TRUE           \* job re-reads by id alone
NewTxAlways(t) == TRUE                  \* tx_id not unique
RowFreeWithUser(t) ==                   \* job skips a row for its user's lock
    /\ rowLock[t] = None
    /\ \A u \in {owner[t]} \ {None} : userLock[u] = None /\ userShare[u] = {}
JobSkipAgain(p, t) ==                   \* job tries a row until it gets it
    /\ pc[p] = "j_batch"
    /\ t \in session[p].todo
    /\ rowLock[t] # None \/ status[t] # "pending"
    /\ UNCHANGED vars

-----------------------------------------------------------------------------
\* FOR UPDATE waits for every other transaction on the row, FOR KEY SHARE
\* for those that have it FOR UPDATE
UserFree(u, p) == userLock[u] = None /\ userShare[u] \subseteq {p}
RowFree(t) == rowLock[t] = None

Release(p) ==
    /\ userLock' = [u \in Users |-> IF userLock[u] = p THEN None ELSE userLock[u]]
    /\ userShare' = [u \in Users |-> userShare[u] \ {p}]
    /\ rowLock' = [t \in Txs |-> IF rowLock[t] = p THEN None ELSE rowLock[t]]

Goto(p, step) == pc' = [pc EXCEPT ![p] = step]

Finish(p) == Goto(p, "idle") /\ session' = [session EXCEPT ![p] = Idle]

\* ends without having written any of the tables
Quit(p) ==
    /\ Finish(p)
    /\ Release(p)
    /\ UNCHANGED <<ledgerVars, rowVars, now, returned>>

Init ==
    /\ balance = Opening
    /\ applied = {}
    /\ status = [t \in Txs |-> "none"]
    /\ owner = [t \in Txs |-> None]
    /\ coins = [t \in Txs |-> 0]
    /\ maturesAt = [t \in Txs |-> 0]
    /\ flagged = {}
    /\ userLock = [u \in Users |-> None]
    /\ userShare = [u \in Users |-> {}]
    /\ rowLock = [t \in Txs |-> None]
    /\ pc = [p \in Procs |-> "idle"]
    /\ session = [p \in Procs |-> Idle]
    /\ now = 0
    /\ crashes = 0
    /\ returned = {}

-----------------------------------------------------------------------------
(* event=sale                                                              *)

SaleBegin(p, u, t, c) ==
    /\ pc[p] = "idle" /\ p \in Handlers
    /\ Goto(p, IF c > Clamp THEN "s_flag" ELSE "s_start")
    /\ session' = [session EXCEPT ![p] =
                      [Idle EXCEPT !.user = u, !.tx = t, !.coins = Clamped(c)]]
    /\ UNCHANGED <<ledgerVars, rowVars, locks, now, crashes, returned>>

\* cashback_amount_clamped is added first and flushed by the query of
\* lock_user(): its foreign key shares the user's row before the row is locked
SaleFlag(p) ==
    LET u == session[p].user IN
    /\ pc[p] = "s_flag"
    /\ userLock[u] = None
    /\ userShare' = [userShare EXCEPT ![u] = @ \cup {p}]
    /\ Goto(p, "s_start")
    /\ UNCHANGED <<ledgerVars, rowVars, userLock, rowLock, session, now, crashes, returned>>

SaleLockUser(p) ==
    LET u == session[p].user IN
    /\ pc[p] = "s_start"
    /\ UserFree(u, p)
    /\ userLock' = [userLock EXCEPT ![u] = p]
    /\ Goto(p, "s_locked")
    /\ UNCHANGED <<ledgerVars, rowVars, userShare, rowLock, session, now, crashes, returned>>

NewTx(t) == status[t] = "none"

SaleReplay(p) ==
    /\ pc[p] = "s_locked"
    /\ ~NewTx(session[p].tx)
    /\ Quit(p)
    /\ UNCHANGED crashes

SaleIsNew(p) ==
    /\ pc[p] = "s_locked"
    /\ NewTx(session[p].tx)
    /\ Goto(p, "s_new")
    /\ UNCHANGED <<ledgerVars, rowVars, locks, session, now, crashes, returned>>

\* the insert and the route's commit
SaleRecord(p) ==
    LET s == session[p] IN
    /\ pc[p] = "s_new"
    /\ NewTx(s.tx)
    /\ status' = [status EXCEPT ![s.tx] = "pending"]
    /\ owner' = [owner EXCEPT ![s.tx] = s.user]
    /\ coins' = [coins EXCEPT ![s.tx] = s.coins]
    /\ maturesAt' = [maturesAt EXCEPT ![s.tx] = now + Window]
    /\ Finish(p)
    /\ Release(p)
    /\ UNCHANGED <<ledgerVars, flagged, now, crashes, returned>>

\* the same tx_id came for another user, whose lock is another: the unique
\* index answers, an IntegrityError
SaleTaken(p) ==
    /\ pc[p] = "s_new"
    /\ ~NewTx(session[p].tx)
    /\ Quit(p)
    /\ UNCHANGED crashes

-----------------------------------------------------------------------------
(* event=reversal                                                          *)

\* unknown_tx is answered at once
RevBegin(p, t) ==
    /\ pc[p] = "idle" /\ p \in Handlers
    /\ status[t] # "none"
    /\ Goto(p, "r_start")
    /\ session' = [session EXCEPT ![p] = [Idle EXCEPT !.tx = t]]
    /\ UNCHANGED <<ledgerVars, rowVars, locks, now, crashes, returned>>

RevLock(p) ==
    LET t == session[p].tx IN
    /\ pc[p] = "r_start"
    /\ RowFree(t)
    /\ rowLock' = [rowLock EXCEPT ![t] = p]
    /\ Goto(p, "r_locked")
    /\ session' = [session EXCEPT ![p].seen = status[t]]
    /\ UNCHANGED <<ledgerVars, rowVars, userLock, userShare, now, crashes, returned>>

\* the 200 of a reversal that found the credit
Answer(p) ==
    /\ Finish(p)
    /\ Release(p)
    /\ returned' = returned \cup {session[p].tx}
    /\ UNCHANGED <<ledgerVars, owner, coins, maturesAt, now, crashes>>

RevCancel(p) ==
    /\ pc[p] = "r_locked"
    /\ session[p].seen = "pending"
    /\ status' = [status EXCEPT ![session[p].tx] = "reversed"]
    /\ UNCHANGED flagged
    /\ Answer(p)

\* the fraud event's foreign key waits for the user's row
RevFlag(p) ==
    LET t == session[p].tx IN
    /\ pc[p] = "r_locked"
    /\ session[p].seen = "matured"
    /\ userLock[owner[t]] = None
    /\ flagged' = flagged \cup {t}
    /\ UNCHANGED status
    /\ Answer(p)

RevAgain(p) ==
    /\ pc[p] = "r_locked"
    /\ session[p].seen = "reversed"
    /\ UNCHANGED <<status, flagged>>
    /\ Answer(p)

-----------------------------------------------------------------------------
(* mature_cashback()                                                       *)

Due(t) == status[t] = "pending" /\ maturesAt[t] <= now

\* due_ids, read in a transaction of its own; an empty batch is no run
JobBegin(p) ==
    LET due == {t \in Txs : Due(t)} IN
    /\ pc[p] = "idle" /\ p \in Runners
    /\ due # {}
    /\ Goto(p, "j_batch")
    /\ session' = [session EXCEPT ![p] = [Idle EXCEPT !.todo = due]]
    /\ UNCHANGED <<ledgerVars, rowVars, locks, now, crashes, returned>>

StillPending(t) == status[t] = "pending"

\* the next id, in no stated order; a row another transaction has is skipped
JobSkip(p, t) ==
    /\ pc[p] = "j_batch"
    /\ t \in session[p].todo
    /\ ~(RowFree(t) /\ StillPending(t))
    /\ session' = [session EXCEPT ![p].todo = @ \ {t}]
    /\ UNCHANGED <<ledgerVars, rowVars, locks, pc, now, crashes, returned>>

JobTake(p, t) ==
    /\ pc[p] = "j_batch"
    /\ t \in session[p].todo
    /\ RowFree(t) /\ StillPending(t)
    /\ rowLock' = [rowLock EXCEPT ![t] = p]
    /\ Goto(p, "j_row")
    /\ session' = [session EXCEPT ![p].tx = t, ![p].todo = session[p].todo \ {t}]
    /\ UNCHANGED <<ledgerVars, rowVars, userLock, userShare, now, crashes, returned>>

JobLockUser(p) ==
    LET u == owner[session[p].tx] IN
    /\ pc[p] = "j_row"
    /\ UserFree(u, p)
    /\ userLock' = [userLock EXCEPT ![u] = p]
    /\ Goto(p, "j_both")
    /\ UNCHANGED <<ledgerVars, rowVars, userShare, rowLock, session, now, crashes, returned>>

\* ledger.apply(): a known key moves nothing
Apply(u, a, k) == IF Money!Known(k) THEN UNCHANGED ledgerVars ELSE Money!Move(u, a, k)

\* ledger.apply(), the status and the commit of one credit
JobCredit(p) ==
    LET t == session[p].tx IN
    /\ pc[p] = "j_both"
    /\ Apply(owner[t], coins[t], t)
    /\ status' = [status EXCEPT ![t] = "matured"]
    /\ Goto(p, "j_batch")
    /\ session' = [session EXCEPT ![p].tx = None]
    /\ Release(p)
    /\ UNCHANGED <<owner, coins, maturesAt, flagged, now, crashes, returned>>

\* the column overflows: the error leaves the loop and the run
JobFails(p) ==
    LET t == session[p].tx IN
    /\ pc[p] = "j_both"
    /\ ~Money!Known(t) /\ ~Money!Fits(owner[t], coins[t])
    /\ Quit(p)
    /\ UNCHANGED crashes

JobDone(p) ==
    /\ pc[p] = "j_batch"
    /\ session[p].todo = {}
    /\ Quit(p)
    /\ UNCHANGED crashes

-----------------------------------------------------------------------------
(* PostgreSQL, the clock, and processes that die                           *)

\* two clamped sales share the user's row and each waits to lock it: the
\* deadlock detector rolls one back
Victim(p) ==
    LET u == session[p].user IN
    /\ pc[p] = "s_start"
    /\ p \in userShare[u]
    /\ \E q \in userShare[u] \ {p} : pc[q] = "s_start"
    /\ Quit(p)
    /\ UNCHANGED crashes

Tick ==
    /\ now < MaxTime
    /\ now' = now + 1
    /\ UNCHANGED <<ledgerVars, rowVars, locks, pc, session, crashes, returned>>

Abort(p) ==
    /\ pc[p] # "idle"
    /\ crashes < MaxCrashes
    /\ crashes' = crashes + 1
    /\ Quit(p)

-----------------------------------------------------------------------------
Waits(p) == SaleFlag(p) \/ SaleLockUser(p) \/ RevLock(p) \/ RevFlag(p) \/ JobLockUser(p)

Runs(p) ==
    \/ SaleReplay(p) \/ SaleIsNew(p) \/ SaleRecord(p) \/ SaleTaken(p)
    \/ RevCancel(p) \/ RevAgain(p)
    \/ \E t \in Txs : JobSkip(p, t) \/ JobTake(p, t)
    \/ JobCredit(p) \/ JobFails(p) \/ JobDone(p)

Next ==
    \/ \E p \in Procs :
          \/ \E u \in Users, t \in Txs, c \in Sums : SaleBegin(p, u, t, c)
          \/ SaleFlag(p)
          \/ SaleLockUser(p)
          \/ SaleReplay(p)
          \/ SaleIsNew(p)
          \/ SaleRecord(p)
          \/ SaleTaken(p)
          \/ \E t \in Txs : RevBegin(p, t)
          \/ RevLock(p)
          \/ RevCancel(p)
          \/ RevFlag(p)
          \/ RevAgain(p)
          \/ JobBegin(p)
          \/ \E t \in Txs : JobSkip(p, t)
          \/ \E t \in Txs : JobTake(p, t)
          \/ JobLockUser(p)
          \/ JobCredit(p)
          \/ JobFails(p)
          \/ JobDone(p)
          \/ Victim(p)
          \/ Abort(p)
    \/ Tick

Spec == Init /\ [][Next]_vars

\* A process that can run does, waiters of a row are served in turn, the
\* deadlock detector works, and cron starts the job again and again.
Fairness ==
    \A p \in Procs :
        /\ WF_vars(Runs(p) \/ JobBegin(p) \/ Victim(p))
        /\ SF_vars(Waits(p))

FairSpec == Spec /\ Fairness

-----------------------------------------------------------------------------
\* Type invariant; an idle worker keeps nothing of the request it served.
TypeOK ==
    /\ balance \in [Users -> 0..MaxInt]
    /\ applied \subseteq [user : Users, amount : Nat, key : Txs]
    /\ status \in [Txs -> Statuses]
    /\ owner \in [Txs -> Users \cup {None}]
    /\ coins \in [Txs -> Nat]
    /\ maturesAt \in [Txs -> 0..(MaxTime + Window)]
    /\ flagged \subseteq Txs
    /\ userLock \in [Users -> Procs \cup {None}]
    /\ userShare \in [Users -> SUBSET Procs]
    /\ rowLock \in [Txs -> Procs \cup {None}]
    /\ pc \in [Procs -> Steps]
    /\ session \in [Procs -> Sessions]
    /\ \A p \in Procs : pc[p] = "idle" => session[p] = Idle
    /\ now \in 0..MaxTime
    /\ crashes \in 0..MaxCrashes
    /\ returned \subseteq Txs

\* The credits that reached the ledger are exactly the matured ones, each
\* once, to its user and for its coins, whatever runs of the job, crashes
\* and postbacks overlapped (mature_cashback: "concurrent runs safe").
PaidIffMatured ==
    applied = {[user |-> owner[t], amount |-> coins[t], key |-> t] :
                  t \in {x \in Txs : status[x] = "matured"}}

\* A reversal that was answered is accounted for: the credit never reaches
\* the ledger, or the return of a matured one is flagged for staff
\* (reverse_cashback).
ReturnsAccounted ==
    \A t \in returned :
        \/ status[t] = "reversed" /\ ~Money!Known(t)
        \/ status[t] = "matured" /\ t \in flagged

\* The first sale of a tx_id fixes who gets how much and when; neither a
\* replay nor a postback for another user changes it.
FirstSaleWins ==
    [][\A t \in Txs : status[t] # "none" =>
          /\ status'[t] # "none"
          /\ UNCHANGED <<owner[t], coins[t], maturesAt[t]>>]_vars

Fitting(t) == Money!Fits(owner[t], coins[t])

\* Not for ever does one deadlock follow another: else the sales that share
\* a user's row could keep the job from it.
DeadlocksStop == <>[][\A p \in Procs : ~Victim(p)]_vars

\* Every credit past its window is settled, although overlapping runs work
\* from stale lists and skip each other's rows (and those a reversal has), as
\* long as no credit that is due overflows: again and again none is left.  A
\* settled credit stays so, and there are finitely many.
DueCreditsSettle ==
    DeadlocksStop /\ [](\A t \in Txs : Due(t) => Fitting(t))
        => []<>(\A t \in Txs : ~Due(t))

\* What mature_cashback says: "Each credit commits individually so one bad
\* row can't stall the batch".  A credit that is due and fits is settled,
\* whatever other rows do.  The code does not ensure this: the error of a
\* row that overflows ends the run, and the next run may meet it first again.
BadRowNeverStalls ==
    \A t \in Txs : Due(t) /\ Fitting(t) ~> status[t] # "pending" \/ ~Fitting(t)

\* Every postback and every run ends, although two clamped sales of a user
\* deadlock, and the job and a late reversal take a credit, then its user.
ProcessesFinish == DeadlocksStop => \A p \in Procs : pc[p] # "idle" ~> pc[p] = "idle"
=============================================================================
