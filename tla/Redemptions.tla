---------------------------- MODULE Redemptions -----------------------------
(***************************************************************************)
(* Gift-card redemptions: POST /v1/redemptions with its auto-approval      *)
(* (app/routes/redemptions.py), the admin's approve and deny               *)
(* (app/admin/routes.py), the three operations of app/services.py they     *)
(* call, and the fulfillment provider behind app/fulfillment.py.           *)
(*                                                                         *)
(* Handlers run concurrently, each step between two waits or commits one   *)
(* action; any handler may die at any point.  The coins move by the        *)
(* actions of AtomicLedger, which CoinLedger implements.  The gates on     *)
(* e-mail, account age and ad receipts are a choice here: nothing else in  *)
(* this module depends on them.                                            *)
(***************************************************************************)
EXTENDS Integers, FiniteSets

CONSTANTS
    Users, Requests, Skus, Cost, Opening, None,
    Small,      \* skus below auto_approve_max_usd
    AutoAfter,  \* auto_approve_after_n_approved
    Cooldown,   \* redemption_cooldown_seconds (0 turns the gate off)
    MaxInt,     \* largest INTEGER
    Procs,      \* request handlers
    MaxTime     \* bound on the clock

ASSUME CostIsPositive == Cost \in [Skus -> Nat \ {0}]
ASSUME OpeningFits == MaxInt \in Nat /\ Opening \in [Users -> 0..MaxInt]
ASSUME SettingsAreNat == AutoAfter \in Nat /\ Cooldown \in Nat /\ MaxTime \in Nat
ASSUME NoneIsNew == None \notin Users \cup Requests \cup Skus \cup Procs

VARIABLES
    balance,    \* users.balance
    applied,    \* ledger rows of redemptions: [user, amount, key]
    status,     \* [Requests -> redemptions.status, "none" before the insert]
    owner,      \* redemptions.user_id
    sku,        \* redemptions.sku
    createdAt,  \* redemptions.created_at: now() of the inserting transaction
    sentAt,     \* redemptions.sent_at
    userLock,   \* [Users -> Procs \cup {None}]
    rowLock,    \* [Requests -> Procs \cup {None}]
    pc, session,
    inflight,   \* order requests on their way to the provider, by external_id
    orders,     \* orders the provider has taken, by external_id
    now,        \* the clock
    auto,       \* history: requests approved without a reviewer
    heldAt      \* history: when the hold was committed

ledgerVars == <<balance, applied>>
rowVars == <<status, owner, sku, createdAt, sentAt>>
locks == <<userLock, rowLock>>
provider == <<inflight, orders>>
history == <<auto, heldAt>>
vars == <<ledgerVars, rowVars, locks, pc, session, provider, now, history>>

-----------------------------------------------------------------------------
Hold(r) == <<"redemption_hold", r>>
Refund(r) == <<"redemption_refund", r>>

Money == INSTANCE AtomicLedger WITH
             Keys <- {Hold(r) : r \in Requests} \cup {Refund(r) : r \in Requests},
             Amounts <- {Cost[k] : k \in Skus} \cup {-Cost[k] : k \in Skus}

Statuses == {"none", "pending", "approved", "sent", "denied"}

\* c_*: create, a_*: approve, d_*: deny
Steps == {"idle", "c_loaded", "c_locked", "c_gated", "c_held",
          "a_loaded", "a_locked", "a_approved", "a_waiting", "a_placed",
          "d_loaded", "d_locked", "d_both"}

\* user and sku of the request, redemption worked on, transaction start, the
\* status read under the row lock, and whether this is an auto-approval
Sessions == [user : Users \cup {None}, sku : Skus \cup {None},
             req : Requests \cup {None}, start : 0..MaxTime,
             seen : Statuses, auto : BOOLEAN]

Idle == [user |-> None, sku |-> None, req |-> None, start |-> 0,
         seen |-> "none", auto |-> FALSE]

OwnedBy(u) == {r \in Requests : owner[r] = u}

-----------------------------------------------------------------------------
\* Mutated forms, each a mistake this code could have made; no action uses
\* them.  They show that the properties below can fail.

UserFreeAlways(u) == TRUE               \* user read without FOR UPDATE
CooledDownAlways(u) == TRUE             \* no cooldown gate
DeniableTooWide(st) == st \in {"pending", "approved"}
EnoughApprovedAlways(u, r) == TRUE      \* auto_approve_after_n_approved not read
RefundTwice(r) == 2 * Cost[sku[r]]
FinishKeepsSession(p) ==                \* one session shared by two requests
    pc' = [pc EXCEPT ![p] = "idle"] /\ UNCHANGED session
ReleaseUserOnly(p) ==                   \* transaction on the row left open
    /\ userLock' = [u \in Users |-> IF userLock[u] = p THEN None ELSE userLock[u]]
    /\ UNCHANGED rowLock

-----------------------------------------------------------------------------
\* SELECT ... FOR UPDATE returns once no other transaction has the row
UserFree(u) == userLock[u] = None
RowFree(r) == rowLock[r] = None

Release(p) ==
    /\ userLock' = [u \in Users |-> IF userLock[u] = p THEN None ELSE userLock[u]]
    /\ rowLock' = [r \in Requests |-> IF rowLock[r] = p THEN None ELSE rowLock[r]]

Goto(p, step) == pc' = [pc EXCEPT ![p] = step]

Finish(p) == Goto(p, "idle") /\ session' = [session EXCEPT ![p] = Idle]

\* the handler answers or dies with its open transaction rolled back
Rollback(p) ==
    /\ Finish(p)
    /\ Release(p)
    /\ UNCHANGED <<ledgerVars, rowVars, provider, now, history>>

Init ==
    /\ balance = Opening
    /\ applied = {}
    /\ status = [r \in Requests |-> "none"]
    /\ owner = [r \in Requests |-> None]
    /\ sku = [r \in Requests |-> None]
    /\ createdAt = [r \in Requests |-> 0]
    /\ sentAt = [r \in Requests |-> 0]
    /\ userLock = [u \in Users |-> None]
    /\ rowLock = [r \in Requests |-> None]
    /\ pc = [p \in Procs |-> "idle"]
    /\ session = [p \in Procs |-> Idle]
    /\ inflight = {}
    /\ orders = {}
    /\ now = 0
    /\ auto = {}
    /\ heldAt = [r \in Requests |-> 0]

-----------------------------------------------------------------------------
(* POST /v1/redemptions                                                    *)

\* get_current_user(): the request's transaction starts here, and with it
\* the now() that the row's created_at will get
CreateBegin(p, u, k) ==
    /\ pc[p] = "idle"
    /\ Goto(p, "c_loaded")
    /\ session' = [session EXCEPT ![p] = [Idle EXCEPT !.user = u, !.sku = k, !.start = now]]
    /\ UNCHANGED <<ledgerVars, rowVars, locks, provider, now, history>>

CreateLockUser(p) ==
    LET u == session[p].user IN
    /\ pc[p] = "c_loaded"
    /\ UserFree(u)
    /\ userLock' = [userLock EXCEPT ![u] = p]
    /\ Goto(p, "c_locked")
    /\ UNCHANGED <<ledgerVars, rowVars, rowLock, session, provider, now, history>>

NothingPending(u) == \A r \in OwnedBy(u) : status[r] # "pending"

\* the cooldown gate compares the clock with the latest created_at
CooledDown(u) == \A r \in OwnedBy(u) : now - createdAt[r] >= Cooldown

\* a DomainError of one of the gates; those on e-mail, age and ad receipts
\* can refuse any request
CreateRefused(p) == pc[p] = "c_locked" /\ Rollback(p)

\* the gates pass and the row gets its uuid; Requests bounds how many are
\* ever created, so a request without an id left is refused instead
PassGates(p, r) ==
    LET s == session[p] IN
    /\ pc[p] = "c_locked"
    /\ NothingPending(s.user)
    /\ CooledDown(s.user)
    /\ balance[s.user] >= Cost[s.sku]
    /\ status[r] = "none" /\ \A q \in Procs : session[q].req # r
    /\ Goto(p, "c_gated")
    /\ session' = [session EXCEPT ![p].req = r]
    /\ UNCHANGED <<ledgerVars, rowVars, locks, provider, now, history>>

\* the insert, the hold and the route's commit
HoldCoins(p) ==
    LET s == session[p]
        r == s.req
    IN
    /\ pc[p] = "c_gated"
    /\ Money!Move(s.user, -Cost[s.sku], Hold(r))
    /\ status' = [status EXCEPT ![r] = "pending"]
    /\ owner' = [owner EXCEPT ![r] = s.user]
    /\ sku' = [sku EXCEPT ![r] = s.sku]
    /\ createdAt' = [createdAt EXCEPT ![r] = s.start]
    /\ heldAt' = [heldAt EXCEPT ![r] = now]
    /\ Release(p)
    /\ Goto(p, "c_held")
    /\ UNCHANGED <<sentAt, session, provider, now, auto>>

EnoughApproved(u, r) ==
    Cardinality({x \in OwnedBy(u) \ {r} : status[x] \in {"approved", "sent"}}) >= AutoAfter

\* auto_approvable(), without a lock; then approve_redemption() in the same
\* handler.  The user's risk_score may always say no.
AutoApprove(p) ==
    LET r == session[p].req IN
    /\ pc[p] = "c_held"
    /\ sku[r] \in Small
    /\ EnoughApproved(owner[r], r)
    /\ Goto(p, "a_loaded")
    /\ session' = [session EXCEPT ![p].auto = TRUE]
    /\ UNCHANGED <<ledgerVars, rowVars, locks, provider, now, history>>

LeaveToReview(p) == pc[p] = "c_held" /\ Rollback(p)

-----------------------------------------------------------------------------
(* POST /admin/redemptions/{id}/approve                                    *)

\* _load(): reads the row unlocked; any status may be sent here
ApproveBegin(p, r) ==
    /\ pc[p] = "idle"
    /\ status[r] # "none"
    /\ Goto(p, "a_loaded")
    /\ session' = [session EXCEPT ![p] = [Idle EXCEPT !.req = r]]
    /\ UNCHANGED <<ledgerVars, rowVars, locks, provider, now, history>>

\* _lock_redemption(): waits for the row, then re-reads it
LockRow(p, from, to) ==
    LET r == session[p].req IN
    /\ pc[p] = from
    /\ RowFree(r)
    /\ rowLock' = [rowLock EXCEPT ![r] = p]
    /\ Goto(p, to)
    /\ session' = [session EXCEPT ![p].seen = status[r]]
    /\ UNCHANGED <<ledgerVars, rowVars, userLock, provider, now, history>>

ApproveLock(p) == LockRow(p, "a_loaded", "a_locked")

Approvable(st) == st \in {"pending", "approved"}

NotApprovable(p) ==
    /\ pc[p] = "a_locked"
    /\ ~Approvable(session[p].seen)
    /\ Rollback(p)

\* commits 'approved' and lets go of the row before the external call
ApproveCommit(p) ==
    LET s == session[p] IN
    /\ pc[p] = "a_locked"
    /\ Approvable(s.seen)
    /\ IF s.seen = "pending"
         THEN /\ status' = [status EXCEPT ![s.req] = "approved"]
              /\ auto' = IF s.auto THEN auto \cup {s.req} ELSE auto
         ELSE UNCHANGED <<status, auto>>
    /\ Release(p)
    /\ Goto(p, "a_approved")
    /\ UNCHANGED <<ledgerVars, owner, sku, createdAt, sentAt, session, provider, now, heldAt>>

\* create_order(): POST /orders with the redemption's id as external_id
SendOrder(p) ==
    /\ pc[p] = "a_approved"
    /\ inflight' = inflight \cup {session[p].req}
    /\ Goto(p, "a_waiting")
    /\ UNCHANGED <<ledgerVars, rowVars, locks, session, orders, now, history>>

\* 201, or 409 and the look-up of the earlier order
Answered(r) == r \in orders

OrderAnswered(p) ==
    /\ pc[p] = "a_waiting"
    /\ Answered(session[p].req)
    /\ Goto(p, "a_placed")
    /\ UNCHANGED <<ledgerVars, rowVars, locks, session, provider, now, history>>

\* FulfillmentError (30 s timeout, other status) or an httpx error in the
\* look-up.  The request may still be on its way.
OrderFails(p) == pc[p] = "a_waiting" /\ Rollback(p)

\* locks the row again and writes without looking at the status; nothing
\* waits between the lock and the commit
RecordSent(p) ==
    LET r == session[p].req IN
    /\ pc[p] = "a_placed"
    /\ RowFree(r)
    /\ status' = [status EXCEPT ![r] = "sent"]
    /\ sentAt' = [sentAt EXCEPT ![r] = now]
    /\ Finish(p)
    /\ UNCHANGED <<ledgerVars, owner, sku, createdAt, locks, provider, now, history>>

-----------------------------------------------------------------------------
(* POST /admin/redemptions/{id}/deny                                       *)

DenyBegin(p, r) ==
    /\ pc[p] = "idle"
    /\ status[r] # "none"
    /\ Goto(p, "d_loaded")
    /\ session' = [session EXCEPT ![p] = [Idle EXCEPT !.req = r]]
    /\ UNCHANGED <<ledgerVars, rowVars, locks, provider, now, history>>

DenyLock(p) == LockRow(p, "d_loaded", "d_locked")

Deniable(st) == st = "pending"

NotDeniable(p) ==
    /\ pc[p] = "d_locked"
    /\ ~Deniable(session[p].seen)
    /\ Rollback(p)

\* lock order: redemption, then user
DenyLockUser(p) ==
    LET u == owner[session[p].req] IN
    /\ pc[p] = "d_locked"
    /\ Deniable(session[p].seen)
    /\ UserFree(u)
    /\ userLock' = [userLock EXCEPT ![u] = p]
    /\ Goto(p, "d_both")
    /\ UNCHANGED <<ledgerVars, rowVars, rowLock, session, provider, now, history>>

RefundAmount(r) == Cost[sku[r]]

\* the refund, the status and the commit.  The balance never exceeds what
\* was held, so the refund fits.
DenyCommit(p) ==
    LET r == session[p].req IN
    /\ pc[p] = "d_both"
    /\ Money!Move(owner[r], RefundAmount(r), Refund(r))
    /\ status' = [status EXCEPT ![r] = "denied"]
    /\ Finish(p)
    /\ Release(p)
    /\ UNCHANGED <<owner, sku, createdAt, sentAt, provider, now, history>>

-----------------------------------------------------------------------------
(* The provider, the clock, and handlers that die                          *)

\* the provider takes one order per external_id, however often it is asked
Deliver(r) ==
    /\ r \in inflight
    /\ inflight' = inflight \ {r}
    /\ orders' = orders \cup {r}
    /\ UNCHANGED <<ledgerVars, rowVars, locks, pc, session, now, history>>

Lose(r) ==
    /\ r \in inflight
    /\ inflight' = inflight \ {r}
    /\ UNCHANGED <<ledgerVars, rowVars, locks, pc, session, orders, now, history>>

Tick ==
    /\ now < MaxTime
    /\ now' = now + 1
    /\ UNCHANGED <<ledgerVars, rowVars, locks, pc, session, provider, history>>

Abort(p) == pc[p] # "idle" /\ Rollback(p)

-----------------------------------------------------------------------------
Waits(p) == CreateLockUser(p) \/ ApproveLock(p) \/ RecordSent(p)
            \/ DenyLock(p) \/ DenyLockUser(p)

Runs(p) ==
    \/ CreateRefused(p) \/ HoldCoins(p) \/ AutoApprove(p) \/ LeaveToReview(p)
    \/ \E r \in Requests : PassGates(p, r)
    \/ NotApprovable(p) \/ ApproveCommit(p) \/ SendOrder(p)
    \/ OrderAnswered(p) \/ OrderFails(p)
    \/ NotDeniable(p) \/ DenyCommit(p)

Next ==
    \/ \E p \in Procs :
          \/ \E u \in Users, k \in Skus : CreateBegin(p, u, k)
          \/ \E r \in Requests : ApproveBegin(p, r)
          \/ \E r \in Requests : DenyBegin(p, r)
          \/ \E r \in Requests : PassGates(p, r)
          \/ CreateLockUser(p)
          \/ CreateRefused(p)
          \/ HoldCoins(p)
          \/ AutoApprove(p)
          \/ LeaveToReview(p)
          \/ ApproveLock(p)
          \/ NotApprovable(p)
          \/ ApproveCommit(p)
          \/ SendOrder(p)
          \/ OrderAnswered(p)
          \/ OrderFails(p)
          \/ RecordSent(p)
          \/ DenyLock(p)
          \/ NotDeniable(p)
          \/ DenyLockUser(p)
          \/ DenyCommit(p)
          \/ Abort(p)
    \/ \E r \in Requests : Deliver(r) \/ Lose(r)
    \/ Tick

Spec == Init /\ [][Next]_vars

\* A handler that can run does; create_order() has a timeout; PostgreSQL
\* serves the waiters of a row lock in turn.
Fairness == \A p \in Procs : WF_vars(Runs(p)) /\ SF_vars(Waits(p))

FairSpec == Spec /\ Fairness

-----------------------------------------------------------------------------
\* Type invariant; an idle worker keeps nothing of the request it served.
TypeOK ==
    /\ balance \in [Users -> 0..MaxInt]
    /\ applied \subseteq [user : Users, amount : Int,
                          key : {Hold(r) : r \in Requests} \cup {Refund(r) : r \in Requests}]
    /\ status \in [Requests -> Statuses]
    /\ owner \in [Requests -> Users \cup {None}]
    /\ sku \in [Requests -> Skus \cup {None}]
    /\ createdAt \in [Requests -> 0..MaxTime]
    /\ sentAt \in [Requests -> 0..MaxTime]
    /\ userLock \in [Users -> Procs \cup {None}]
    /\ rowLock \in [Requests -> Procs \cup {None}]
    /\ pc \in [Procs -> Steps]
    /\ session \in [Procs -> Sessions]
    /\ \A p \in Procs : pc[p] = "idle" => session[p] = Idle
    /\ inflight \subseteq Requests
    /\ orders \subseteq Requests
    /\ now \in 0..MaxTime
    /\ auto \subseteq Requests
    /\ heldAt \in [Requests -> 0..MaxTime]

\* No gift card for coins that were given back: once an order is placed or
\* on its way the redemption is approved or sent and its refund is not in
\* the ledger, whatever approve, deny, retries and crashes overlapped
\* (services.py, deny_redemption: "can never race an approve into refunding
\* a fulfilled redemption").
NoDoublePayout ==
    \A r \in orders \cup inflight :
        /\ status[r] \in {"approved", "sent"}
        /\ \A e \in applied : e.key # Refund(r)

\* A redemption marked sent has an order; the row is never ahead of the
\* provider (approve_redemption writes 'sent' only after create_order).
SentHasOrder == \A r \in Requests : status[r] = "sent" => r \in orders

\* One undecided redemption per user, although the gate counts rows it has
\* not locked and the insert comes later.
OnePending ==
    \A r, x \in Requests :
        status[r] = "pending" /\ status[x] = "pending" /\ owner[r] = owner[x] => r = x

\* "First N redemptions per user are always manual" (auto_approvable): if
\* one of a user's redemptions was approved without a reviewer, a reviewer
\* has approved at least AutoAfter of the others.
FirstOnesReviewed ==
    \A r \in auto :
        Cardinality({x \in OwnedBy(owner[r]) \ auto : status[x] \in {"approved", "sent"}})
            >= AutoAfter

\* What the cooldown gives: of two redemptions of a user, the later hold
\* comes at least Cooldown after the earlier request started.  The holds
\* themselves may lie closer: a request that stalls between authentication
\* and its hold leaves a created_at that is already old.
CooldownFromStart ==
    \A r, x \in Requests :
        r # x /\ owner[r] = owner[x] /\ owner[r] # None =>
            \/ heldAt[x] - createdAt[r] >= Cooldown
            \/ heldAt[r] - createdAt[x] >= Cooldown

\* Every request ends, although deny takes two locks and create, approve
\* and deny wait for each other.
HandlersFinish == \A p \in Procs : pc[p] # "idle" ~> pc[p] = "idle"

\* Holds, approvals, orders and refunds add up to GiftCards.
Card(r) ==
    CASE status[r] = "none" -> "none"
      [] status[r] = "pending" -> "held"
      [] status[r] = "denied" -> "returned"
      [] status[r] \in {"approved", "sent"} -> IF r \in orders THEN "paid" ELSE "committed"

Promise == INSTANCE GiftCards WITH card <- [r \in Requests |-> Card(r)]

RefinesGiftCards == Promise!Spec
=============================================================================
