----------------------------- MODULE Admission ------------------------------
(***************************************************************************)
(* Who is let in: POST /v1/auth/device (routes/auth.py), which gets or     *)
(* creates the user of a device, get_current_user() of app/auth.py with    *)
(* rate_limit_user_writes(), which stand before every coin-writing         *)
(* handler, and POST /admin/users/{id}/status, which bans and unbans.      *)
(*                                                                         *)
(* Both doors ask RateLimiter: the first by the client's address, the      *)
(* second by the user.  Requests refused for their token touch nothing     *)
(* but fraud_events and are left out.                                      *)
(***************************************************************************)
EXTENDS RateLimiter, Sequences

CONSTANTS
    Devices, Users,     \* Users: the uuids there may be
    Address,            \* the counter of a client's address
    None,
    MaxAsks, MaxFaults, MaxChanges

ASSUME KeysAre == Keys = Users \cup {Address}
ASSUME NoneIsNew == None \notin Devices \cup Users \cup Procs
ASSUME BoundsAreNat == MaxAsks \in Nat /\ MaxFaults \in Nat /\ MaxChanges \in Nat

VARIABLES
    device,     \* [Users -> Devices \cup {None}]: users.device_id, None: no row
    status,     \* users.status
    trail,      \* [Users -> Seq]: the admin_status_change rows of fraud_events
    tokens,     \* the tokens given out, as what they answered: [device, user]
    userLock, pc, session,
    asks, faults        \* history

vars == <<limiter, device, status, trail, tokens, userLock, pc, session, asks, faults>>
accounts == <<device, status, trail, tokens>>

-----------------------------------------------------------------------------
\* d_*: device_auth, w_*: a coin-writing request, s_*: set_user_status
Steps == {"idle", "d_asked", "d_passed", "d_missing", "d_inserted", "d_conflict",
          "d_answer", "w_asked", "w_passed", "s_locked"}

\* previous: the status as read.  Of a coin-writing request, as history: the
\* device its token was given to, and whether a ban caught it at work.
Sessions == [device : Devices \cup {None}, user : Users \cup {None},
             previous : {"active", "banned"}, caught : BOOLEAN]

Changes == [from : {"active", "banned"}, to : {"active", "banned"}]

Idle == [device |-> None, user |-> None, previous |-> "active", caught |-> FALSE]

-----------------------------------------------------------------------------
\* Mutated forms, each a mistake this code could have made; no action uses
\* them.  They show that the properties below can fail.

UserFreeAlways(u) == TRUE                       \* status without the row lock
UniqueAllowsAll(p) == TRUE                      \* device_id not unique

-----------------------------------------------------------------------------
UserFree(u) == userLock[u] = None

Owners(d) == {u \in Users : device[u] = d}

\* an id that nobody has or is about to have
Fresh(u) == device[u] = None /\ \A q \in Procs : session[q].user # u

\* the unique index makes an insert wait for an open one with the same key
UniqueAllows(p) ==
    /\ Owners(session[p].device) = {}
    /\ ~\E q \in Procs \ {p} : pc[q] = "d_inserted" /\ session[q].device = session[p].device

Winner(p) == CHOOSE u \in Users : device[u] = session[p].device

Active(u) == status[u] = "active"

Goto(p, step) == pc' = [pc EXCEPT ![p] = step]

Finish(p) == Goto(p, "idle") /\ session' = [session EXCEPT ![p] = Idle]

\* past the look at the status, and not finished
AtWork(p) == pc[p] \in {"w_asked", "w_passed"}

Release(p) ==
    userLock' = [u \in Users |-> IF userLock[u] = p THEN None ELSE userLock[u]]

Init ==
    /\ LimiterInit
    /\ device = [u \in Users |-> None]
    /\ status = [u \in Users |-> "active"]
    /\ trail = [u \in Users |-> <<>>]
    /\ tokens = {}
    /\ userLock = [u \in Users |-> None]
    /\ pc = [p \in Procs |-> "idle"]
    /\ session = [p \in Procs |-> Idle]
    /\ asks = 0
    /\ faults = 0

-----------------------------------------------------------------------------
\* the dependency runs before the handler, in either door
AskAt(p, k, step) ==
    /\ asks < MaxAsks
    /\ asks' = asks + 1
    /\ Ask(p, k)
    /\ Goto(p, step)
    /\ UNCHANGED <<accounts, userLock, faults>>

DeviceArrives(p, d) ==
    /\ pc[p] = "idle"
    /\ session' = [session EXCEPT ![p].device = d]
    /\ AskAt(p, Address, "d_asked")

\* get_current_user: the user of a token, if not banned
WriteArrives(p, t) ==
    /\ pc[p] = "idle"
    /\ Active(t.user)
    /\ session' = [session EXCEPT ![p] = [Idle EXCEPT !.device = t.device, !.user = t.user]]
    /\ AskAt(p, t.user, "w_asked")

Pass(p) ==
    /\ \/ pc[p] = "d_asked" /\ Goto(p, "d_passed")
       \/ pc[p] = "w_asked" /\ Goto(p, "w_passed")
    /\ UNCHANGED <<accounts, userLock, session, asks>>

\* 429
TurnAway(p) ==
    /\ pc[p] \in {"d_asked", "w_asked"}
    /\ Finish(p)
    /\ UNCHANGED <<accounts, userLock, asks>>

LimiterAllows(p) == Allow(p) /\ Pass(p) /\ UNCHANGED faults
LimiterRefuses(p) == Refuse(p) /\ TurnAway(p) /\ UNCHANGED faults

Fault == faults < MaxFaults /\ faults' = faults + 1

LimiterFails(p) ==
    /\ RedisFails(p)
    /\ IF FailOpen THEN Pass(p) ELSE TurnAway(p)
    /\ Fault

RedisRestarts ==
    /\ LoseCounters
    /\ Fault
    /\ UNCHANGED <<accounts, userLock, pc, session, asks>>

-----------------------------------------------------------------------------
DeviceKnown(p) ==
    /\ pc[p] = "d_passed"
    /\ Owners(session[p].device) # {}
    /\ session' = [session EXCEPT ![p].user = Winner(p)]
    /\ Goto(p, "d_answer")
    /\ UNCHANGED <<limiter, accounts, userLock, asks, faults>>

DeviceNew(p, u) ==
    /\ pc[p] = "d_passed"
    /\ Owners(session[p].device) = {}
    /\ Fresh(u)
    /\ session' = [session EXCEPT ![p].user = u]
    /\ Goto(p, "d_missing")
    /\ UNCHANGED <<limiter, accounts, userLock, asks, faults>>

\* db.commit() flushes the INSERT first
DeviceInsert(p) ==
    /\ pc[p] = "d_missing"
    /\ UniqueAllows(p)
    /\ Goto(p, "d_inserted")
    /\ UNCHANGED <<limiter, accounts, userLock, session, asks, faults>>

\* IntegrityError: roll back
DeviceTaken(p) ==
    /\ pc[p] = "d_missing"
    /\ Owners(session[p].device) # {}
    /\ Goto(p, "d_conflict")
    /\ UNCHANGED <<limiter, accounts, userLock, session, asks, faults>>

\* and take the winner
DeviceReread(p) ==
    /\ pc[p] = "d_conflict"
    /\ session' = [session EXCEPT ![p].user = Winner(p)]
    /\ Goto(p, "d_answer")
    /\ UNCHANGED <<limiter, accounts, userLock, asks, faults>>

DeviceCommit(p) ==
    /\ pc[p] = "d_inserted"
    /\ device' = [device EXCEPT ![session[p].user] = session[p].device]
    /\ Goto(p, "d_answer")
    /\ UNCHANGED <<limiter, status, trail, tokens, userLock, session, asks, faults>>

\* the token names the user; nobody looks at the status here
DeviceAnswer(p) ==
    /\ pc[p] = "d_answer"
    /\ tokens' = tokens \cup {[device |-> session[p].device, user |-> session[p].user]}
    /\ Finish(p)
    /\ UNCHANGED <<limiter, device, status, trail, userLock, asks, faults>>

\* what a coin-writing handler does is in the other modules
WriteDone(p) ==
    /\ pc[p] = "w_passed"
    /\ Finish(p)
    /\ UNCHANGED <<limiter, accounts, userLock, asks, faults>>

-----------------------------------------------------------------------------
StatusLock(p, u) ==
    /\ pc[p] = "idle"
    /\ device[u] # None
    /\ UserFree(u)
    /\ userLock' = [userLock EXCEPT ![u] = p]
    /\ session' = [session EXCEPT ![p] = [Idle EXCEPT !.user = u, !.previous = status[u]]]
    /\ Goto(p, "s_locked")
    /\ UNCHANGED <<limiter, accounts, asks, faults>>

StatusCommit(p, new) ==
    LET u == session[p].user IN
    /\ pc[p] = "s_locked"
    /\ Len(trail[u]) < MaxChanges
    /\ status' = [status EXCEPT ![u] = new]
    /\ trail' = [trail EXCEPT ![u] = Append(@, [from |-> session[p].previous, to |-> new])]
    /\ Goto(p, "idle")
    /\ session' = [q \in Procs |->
          IF q = p THEN Idle
          ELSE IF AtWork(q) /\ session[q].user = u
               THEN [session[q] EXCEPT !.caught = (new = "banned")]
          ELSE session[q]]
    /\ Release(p)
    /\ UNCHANGED <<limiter, device, tokens, asks, faults>>

\* the commit fails
StatusRollback(p) ==
    /\ pc[p] = "s_locked"
    /\ Finish(p)
    /\ Release(p)
    /\ UNCHANGED <<limiter, accounts, asks, faults>>

Abort(p) ==
    /\ pc[p] \notin {"idle", "s_locked"}
    /\ Fault
    /\ Forget(p)
    /\ Finish(p)
    /\ Release(p)
    /\ UNCHANGED <<accounts, asks>>

Tick ==
    /\ TimePasses
    /\ UNCHANGED <<accounts, userLock, pc, session, asks, faults>>

Next ==
    \/ \E p \in Procs :
          \/ \E d \in Devices : DeviceArrives(p, d)
          \/ \E t \in tokens : WriteArrives(p, t)
          \/ LimiterAllows(p)
          \/ LimiterRefuses(p)
          \/ LimiterFails(p)
          \/ DeviceKnown(p)
          \/ \E u \in Users : DeviceNew(p, u)
          \/ DeviceInsert(p)
          \/ DeviceTaken(p)
          \/ DeviceReread(p)
          \/ DeviceCommit(p)
          \/ DeviceAnswer(p)
          \/ WriteDone(p)
          \/ \E u \in Users : StatusLock(p, u)
          \/ \E new \in {"active", "banned"} : StatusCommit(p, new)
          \/ StatusRollback(p)
          \/ Abort(p)
    \/ RedisRestarts
    \/ Tick

Spec == Init /\ [][Next]_vars

-----------------------------------------------------------------------------
AccountsTypeOK ==
    /\ device \in [Users -> Devices \cup {None}]
    /\ status \in [Users -> {"active", "banned"}]
    /\ trail \in [Users -> Seq(Changes)]
    /\ tokens \subseteq [device : Devices, user : Users]
    /\ userLock \in [Users -> Procs \cup {None}]
    /\ pc \in [Procs -> Steps]
    /\ session \in [Procs -> Sessions]
    /\ \A p \in Procs : pc[p] = "idle" => session[p] = Idle
    /\ asks \in 0..MaxAsks
    /\ faults \in 0..MaxFaults

\* Type invariant.
TypeOK == LimiterTypeOK /\ AccountsTypeOK

\* "get-or-create the user for this device_id ... Concurrent first-auth from
\* the same device; take the winner" (device_auth): however first
\* authentications race, fail or are given up, all tokens a device has been
\* given name the one user that has it.
OneUserPerDevice ==
    /\ \A t \in tokens : device[t.user] = t.device
    /\ \A u, v \in Users : device[u] = device[v] /\ device[u] # None => u = v

\* set_user_status records each change with what it replaced: the rows of a
\* user form one chain that ends in the status of now, with admins at once.
StatusTrail ==
    \A u \in Users :
        LET t == trail[u] IN
        /\ \A i \in 1..Len(t) : t[i].from = IF i = 1 THEN "active" ELSE t[i - 1].to
        /\ status[u] = IF t = <<>> THEN "active" ELSE t[Len(t)].to

\* A ban shuts the device out: while the user of a device is banned, the
\* requests at work for any token the device was ever given are those the ban
\* caught between get_current_user's look at the status and their end, the
\* wait for the limiter included.  What comes later finds no way in, neither
\* with another of its tokens nor with one of a first authentication that
\* raced, lost and reread the winner.
OnlyCaughtFinish ==
    \A u \in Users, p \in Procs :
        status[u] = "banned" /\ AtWork(p) /\ session[p].device = device[u]
            => session[p].caught
=============================================================================
