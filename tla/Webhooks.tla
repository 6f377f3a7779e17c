------------------------------ MODULE Webhooks ------------------------------
(***************************************************************************)
(* What third parties grant: rewards for ads and offers                    *)
(* (webhooks/admob.py, webhooks/tapjoy.py, credit_verified_reward() of     *)
(* app/services.py) and purchases (webhooks/revenuecat.py,                 *)
(* webhooks/stripe.py, apply_entitlement_purchase(), expire_gold()).       *)
(*                                                                         *)
(* A call is sent again until it is answered 200, and copies of it may     *)
(* arrive at any time.  All four handlers have one shape: lock the user,   *)
(* look the transaction id up, insert a row that a unique index guards,    *)
(* commit.  Calls that are refused (signature, malformed or unknown user,  *)
(* event of no interest) write none of these tables and are left out.  So  *)
(* is the share of the user's row that a clamped offer takes before it     *)
(* locks that row, as the clamped sale of Cashback does: it delays or      *)
(* aborts handlers, and the properties here are of safety.                 *)
(***************************************************************************)
EXTENDS Integers

CONSTANTS
    Users, None,
    Txs,        \* network:tx_id, store:tx_id
    Sort,       \* [Txs -> {"reward", "gold", "boost"}]
    Expire,     \* the transaction of an EXPIRATION event: it has none
    Calls,      \* what is sent: [user, tx]
    Length,     \* of a boost
    Procs, MaxTime, MaxCrashes

ASSUME SortsGiven == Sort \in [Txs -> {"reward", "gold", "boost"}] /\ Expire \notin Txs
ASSUME CallsGiven == Calls \subseteq [user : Users, tx : Txs \cup {Expire}]
ASSUME TimesAreNat == Length \in Nat \ {0} /\ MaxTime \in Nat /\ MaxCrashes \in Nat
ASSUME NoneIsNew == None \notin Users \cup Procs \cup Calls

VARIABLES
    owner,      \* [Txs -> Users \cup {None}]: user_id of ad_receipts, purchases
    paid,       \* [Txs -> [Users -> Nat]]: ledger rows of a reward
    expired,    \* purchases whose status is 'expired'
    boostUntil, \* [Users -> Nat]: users.boost_until, 0 for NULL
    userLock, pc, session,
    now, crashes,
    acked,      \* history: calls whose sender has seen the 200
    gold        \* history: [Users -> BOOLEAN], by the last event that counted

vars == <<owner, paid, expired, boostUntil, userLock, pc, session, now, crashes,
          acked, gold>>
tables == <<owner, paid, expired, boostUntil>>

-----------------------------------------------------------------------------
\* g_*: a grant, e_*: an expiration
Steps == {"idle", "start", "g_locked", "g_missing", "g_inserted", "e_locked", "e_read",
          "answer"}

\* until: boost_until as the handler computed it; rows: the purchases it expires
Sessions == [call : Calls \cup {None}, base : Nat, until : Nat, rows : SUBSET Txs]

Idle == [call |-> None, base |-> 0, until |-> 0, rows |-> {}]

User(p) == session[p].call.user
Tx(p) == session[p].call.tx

-----------------------------------------------------------------------------
\* Mutated forms, each a mistake this code could have made; no action uses
\* them.  They show that the properties below can fail.

UniqueAllowsAll(p) == TRUE                      \* tx_id not unique
BoostFromNow(base) == now + Length              \* does not stack
UserFreeAlways(u) == TRUE                       \* without the row lock
KnownById(p) == \E t \in Txs : owner[t] # None /\ Sort[t] = Sort[Tx(p)]
                                                \* network or store left out

-----------------------------------------------------------------------------
UserFree(u) == userLock[u] = None

\* a READ COMMITTED select sees committed rows only
Known(p) == owner[Tx(p)] # None

\* the unique index makes an insert wait for an open one with the same key
UniqueAllows(p) ==
    /\ ~Known(p)
    /\ ~\E q \in Procs \ {p} : pc[q] = "g_inserted" /\ Tx(q) = Tx(p)

\* boost_until runs on from what is left of it
BoostFrom(base) == (IF base > now THEN base ELSE now) + Length

ActiveGold(u) == {t \in Txs : owner[t] = u /\ Sort[t] = "gold" /\ t \notin expired}

Release(p) ==
    userLock' = [u \in Users |-> IF userLock[u] = p THEN None ELSE userLock[u]]

Goto(p, step) == pc' = [pc EXCEPT ![p] = step]

Finish(p) == Goto(p, "idle") /\ session' = [session EXCEPT ![p] = Idle]

Init ==
    /\ owner = [t \in Txs |-> None]
    /\ paid = [t \in Txs |-> [u \in Users |-> 0]]
    /\ expired = {}
    /\ boostUntil = [u \in Users |-> 0]
    /\ userLock = [u \in Users |-> None]
    /\ pc = [p \in Procs |-> "idle"]
    /\ session = [p \in Procs |-> Idle]
    /\ now = 0
    /\ crashes = 0
    /\ acked = {}
    /\ gold = [u \in Users |-> FALSE]

-----------------------------------------------------------------------------
\* the first sending, a retry or a copy
Receive(p, c) ==
    /\ pc[p] = "idle"
    /\ session' = [session EXCEPT ![p] = [Idle EXCEPT !.call = c]]
    /\ Goto(p, "start")
    /\ UNCHANGED <<tables, userLock, now, crashes, acked, gold>>

Lock(p) ==
    /\ pc[p] = "start"
    /\ UserFree(User(p))
    /\ userLock' = [userLock EXCEPT ![User(p)] = p]
    /\ session' = [session EXCEPT ![p].base = boostUntil[User(p)]]
    /\ Goto(p, IF Tx(p) = Expire THEN "e_locked" ELSE "g_locked")
    /\ UNCHANGED <<tables, now, crashes, acked, gold>>

\* answered as a replay; the commit ends the transaction
Replay(p) ==
    /\ pc[p] = "g_locked"
    /\ Known(p)
    /\ Goto(p, "answer")
    /\ Release(p)
    /\ UNCHANGED <<tables, session, now, crashes, acked, gold>>

\* not seen before; the clock is read for a boost
Missing(p) ==
    /\ pc[p] = "g_locked"
    /\ ~Known(p)
    /\ session' = [session EXCEPT ![p].until =
           IF Sort[Tx(p)] = "boost" THEN BoostFrom(session[p].base) ELSE @]
    /\ Goto(p, "g_missing")
    /\ UNCHANGED <<tables, userLock, now, crashes, acked, gold>>

\* the flush of the receipt and the ledger row, or of the purchase
Insert(p) ==
    /\ pc[p] = "g_missing"
    /\ UniqueAllows(p)
    /\ Goto(p, "g_inserted")
    /\ UNCHANGED <<tables, userLock, session, now, crashes, acked, gold>>

\* IntegrityError, which nobody catches: 500
InsertFails(p) ==
    /\ pc[p] = "g_missing"
    /\ Known(p)
    /\ Finish(p)
    /\ Release(p)
    /\ UNCHANGED <<tables, now, crashes, acked, gold>>

GrantCommit(p) ==
    LET u == User(p)
        t == Tx(p)
    IN  /\ pc[p] = "g_inserted"
        /\ owner' = [owner EXCEPT ![t] = u]
        /\ paid' = IF Sort[t] = "reward" THEN [paid EXCEPT ![t][u] = @ + 1] ELSE paid
        /\ boostUntil' = IF Sort[t] = "boost"
                         THEN [boostUntil EXCEPT ![u] = session[p].until] ELSE boostUntil
        /\ gold' = IF Sort[t] = "gold" THEN [gold EXCEPT ![u] = TRUE] ELSE gold
        /\ Goto(p, "answer")
        /\ Release(p)
        /\ UNCHANGED <<expired, session, now, crashes, acked>>

ExpireRead(p) ==
    /\ pc[p] = "e_locked"
    /\ session' = [session EXCEPT ![p].rows = ActiveGold(User(p))]
    /\ Goto(p, "e_read")
    /\ UNCHANGED <<tables, userLock, now, crashes, acked, gold>>

ExpireCommit(p) ==
    /\ pc[p] = "e_read"
    /\ expired' = expired \cup session[p].rows
    /\ gold' = [gold EXCEPT ![User(p)] = FALSE]
    /\ Goto(p, "answer")
    /\ Release(p)
    /\ UNCHANGED <<owner, paid, boostUntil, session, now, crashes, acked>>

\* 200
Answer(p) ==
    /\ pc[p] = "answer"
    /\ acked' = acked \cup {session[p].call}
    /\ Finish(p)
    /\ UNCHANGED <<tables, userLock, now, crashes, gold>>

\* the process dies, an error rolls back, or the answer is lost
Abort(p) ==
    /\ pc[p] # "idle"
    /\ crashes < MaxCrashes
    /\ crashes' = crashes + 1
    /\ Finish(p)
    /\ Release(p)
    /\ UNCHANGED <<tables, now, acked, gold>>

Tick ==
    /\ now < MaxTime
    /\ now' = now + 1
    /\ UNCHANGED <<tables, userLock, pc, session, crashes, acked, gold>>

Next ==
    \/ \E p \in Procs :
          \/ \E c \in Calls : Receive(p, c)
          \/ Lock(p)
          \/ Replay(p)
          \/ Missing(p)
          \/ Insert(p)
          \/ InsertFails(p)
          \/ GrantCommit(p)
          \/ ExpireRead(p)
          \/ ExpireCommit(p)
          \/ Answer(p)
          \/ Abort(p)
    \/ Tick

Spec == Init /\ [][Next]_vars

-----------------------------------------------------------------------------
\* Type invariant.
TypeOK ==
    /\ owner \in [Txs -> Users \cup {None}]
    /\ paid \in [Txs -> [Users -> Nat]]
    /\ expired \subseteq Txs
    /\ boostUntil \in [Users -> Nat]
    /\ userLock \in [Users -> Procs \cup {None}]
    /\ pc \in [Procs -> Steps]
    /\ session \in [Procs -> Sessions]
    /\ \A p \in Procs : IF pc[p] = "idle" THEN session[p] = Idle ELSE session[p].call \in Calls
    /\ now \in 0..MaxTime
    /\ crashes \in 0..MaxCrashes
    /\ acked \subseteq Calls
    /\ gold \in [Users -> BOOLEAN]

\* "Record the receipt and move the coins, idempotent on (network, tx_id)"
\* (credit_verified_reward): a reward is paid once, to the user of its receipt
\* and to nobody else, although the lock of one user does not keep the same
\* transaction of another one out.
PaidByReceipt ==
    \A t \in Txs, u \in Users :
        paid[t][u] = IF Sort[t] = "reward" /\ owner[t] = u THEN 1 ELSE 0

\* A 200 ends the retries, so it is given only for what is on file: once the
\* sender of a grant has seen one, the grant is there, whoever else sent it.
AckedIsGranted == \A c \in acked : c.tx # Expire => owner[c.tx] # None

\* Gold is what the last event of the user that counted says: a purchase that
\* commits while an expiration is at work is neither missed nor swept away.
\* The order is that of delivery; a late EXPIRATION does end a renewal.
GoldIsLastWord == \A u \in Users : gold[u] <=> ActiveGold(u) # {}

\* "The user row lock serializes boost_until math" (apply_entitlement_purchase):
\* each boost bought adds its whole length once to what the user still had, or to
\* the time of a clock read before the commit, and nothing else moves the end.
BoostStacks ==
    [][\A u \in Users :
          LET bought == {t \in Txs : Sort[t] = "boost" /\ owner[t] = None /\ owner'[t] = u}
          IN  IF bought = {} THEN boostUntil'[u] = boostUntil[u]
              ELSE /\ boostUntil'[u] >= boostUntil[u] + Length
                   /\ boostUntil'[u] <= (IF boostUntil[u] > now THEN boostUntil[u] ELSE now)
                                            + Length]_vars
=============================================================================
