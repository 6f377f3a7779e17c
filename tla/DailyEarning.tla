---------------------------- MODULE DailyEarning ----------------------------
(***************************************************************************)
(* What a user earns by the day and what staff correct: claim_game_win(),  *)
(* do_checkin() and adjust_balance() of app/services.py, run by concurrent *)
(* request handlers.                                                       *)
(*                                                                         *)
(* Two clocks disagree around midnight.  The rules read app.clock while    *)
(* they run, after the wait for the user's row; ledger.created_at defaults *)
(* to now(), the start of the transaction, which authentication opened.    *)
(* `today` is the day of both; session.start is the day a transaction      *)
(* began.  Multipliers are part of the prize.  Every key here is scoped to *)
(* its user, so its uniqueness needs no more than the user's row lock.     *)
(* Of the eight EARNING_KINDS of ledger.py only game_win and checkin are   *)
(* here: the total cap counts the others too, by the same query.           *)
(***************************************************************************)
EXTENDS Integers, Sequences, FiniteSetsExt

CONSTANTS
    Users, None,
    Keys,           \* idem_key that clients choose
    StaffKeys,      \* idem_key that staff choose
    Prizes,         \* coins of a win after its multipliers
    Adjusts,        \* amounts staff enter
    AdjustMax,      \* admin_adjust_max_coins
    CheckinRewards, \* coins by streak day; the last one is paid from then on
    GameCap,        \* daily_game_win_cap
    TotalCap,       \* daily_total_credit_cap
    MaxInt,         \* largest INTEGER
    Procs,          \* request handlers
    MaxDay          \* bound on the clock

ASSUME PrizesArePositive == Prizes \subseteq Nat \ {0}
ASSUME AdjustsAreInts == Adjusts \subseteq Int /\ AdjustMax \in Nat
ASSUME RewardsAreNat == CheckinRewards \in Seq(Nat \ {0}) /\ CheckinRewards # <<>>
ASSUME CapsAreNat == GameCap \in Nat /\ TotalCap \in Nat
ASSUME BoundsAreNat == MaxInt \in Nat /\ MaxDay \in Nat \ {0}
ASSUME NoneIsNoProc == None \notin Procs

VARIABLES
    users,      \* [Users -> [balance, risk_score, streak, last]]: users
    ledger,     \* the committed rows of these kinds
    events,     \* [Users -> [cap_hit, adjust]]: how many fraud_events of a kind
    userLock,   \* [Users -> Procs \cup {None}]
    pc, session,
    today,      \* the day of the clock
    granted     \* history: [Users -> [Keys -> how many claims of the key were
                \* answered as new ones]]

vars == <<users, ledger, events, userLock, pc, session, today, granted>>

tables == <<users, ledger, events>>

-----------------------------------------------------------------------------
Days == 1..MaxDay

NoDay == -1         \* last_checkin_date IS NULL: the day before no day

Kinds == {"game_win", "checkin", "admin_adjust"}

\* one ledger row; kind, user and id make its idem_key.  day is that of
\* created_at.  History: asked, the coins before any cap, and decided, the
\* day on which the handler computed the row.
Row(kind, u, id, a, asked, day) ==
    [kind |-> kind, user |-> u, id |-> id, amount |-> a, asked |-> asked, day |-> day,
     decided |-> today]

Rows == [kind : Kinds, user : Users, id : Keys \cup StaffKeys \cup Days, amount : Int,
         asked : Int, day : Days, decided : Days]

ASSUME NoneIsNoRow == None \notin Rows

UserRows == [balance : 0..MaxInt, risk_score : Nat, streak : Nat, last : Days \cup {NoDay}]

Steps == {"idle", "begun", "locked", "flushed"}

\* found is the User object of the session, as refreshed by the lock and then
\* changed; row is the inserted ledger row
Sessions == [op : Kinds, user : Users, id : Keys \cup StaffKeys \cup {None}, amount : Int, start : Days,
             found : UserRows \cup {None}, row : Rows \cup {None}]

-----------------------------------------------------------------------------
\* Mutated forms, each a mistake this code could have made; no action uses
\* them.  They show that the properties below can fail.

UserFreeAlways(u) == TRUE                   \* SELECT without FOR UPDATE
EarningKindsGame == {"game_win"}            \* check-ins take no room
StreakKept(user) == user.streak + 1         \* a missed day does not reset it
CappedToZero(prize, awarded) == awarded = 0 \* a part of the prize is no cut
NewRowsNonzero(p) == {r \in {session[p].row} \ {None} : r.amount # 0}
                                            \* a capped claim leaves no row

-----------------------------------------------------------------------------
\* find_by_idem_key() is not None
Known(kind, u, id) ==
    \E r \in ledger : r.kind = kind /\ r.user = u /\ r.id = id

UserFree(u) == userLock[u] = None

Coins(r) == r.amount

\* credited_since(): positive rows from the start of day d on
CreditedSince(u, d, kinds) ==
    MapThenSumSet(Coins, {r \in ledger : /\ r.user = u
                                         /\ r.kind \in kinds
                                         /\ r.amount > 0
                                         /\ r.day >= d})

EarningKinds == {"game_win", "checkin"}

MinOf(a, b) == IF a <= b THEN a ELSE b
Room(cap, credited) == IF credited < cap THEN cap - credited ELSE 0

\* the prize, cut to what both caps leave of the day
Awarded(u, prize) ==
    MinOf(MinOf(prize, Room(GameCap, CreditedSince(u, today, {"game_win"}))),
          Room(TotalCap, CreditedSince(u, today, EarningKinds)))

\* either cap cut the prize
Capped(prize, awarded) == awarded < prize

CheckedInToday(user) == user.last = today

NextStreak(user) == IF user.last = today - 1 THEN user.streak + 1 ELSE 1

checkin_reward(streak) ==
    CheckinRewards[MinOf(streak, Len(CheckinRewards))]

\* a debit leaves the balance at zero or above
Covers(p) == session[p].found.balance + session[p].amount >= 0

Release(p) ==
    userLock' = [u \in Users |-> IF userLock[u] = p THEN None ELSE userLock[u]]

Idle == [op |-> None, user |-> None, id |-> None, amount |-> 0, start |-> 1,
         found |-> None, row |-> None]

\* the transaction ends, its writes committed by the action or lost
Finish(p) ==
    /\ pc' = [pc EXCEPT ![p] = "idle"]
    /\ session' = [session EXCEPT ![p] = Idle]
    /\ Release(p)

-----------------------------------------------------------------------------
Init ==
    /\ users = [u \in Users |-> [balance |-> 0, risk_score |-> 0, streak |-> 0,
                                 last |-> NoDay]]
    /\ ledger = {}
    /\ events = [u \in Users |-> [cap_hit |-> 0, adjust |-> 0]]
    /\ userLock = [u \in Users |-> None]
    /\ pc = [p \in Procs |-> "idle"]
    /\ session = [p \in Procs |-> Idle]
    /\ today = 1
    /\ granted = [u \in Users |-> [k \in Keys |-> 0]]

\* the transaction starts: created_at of what it will insert is now
Begin(p, op, u, id, a) ==
    /\ pc[p] = "idle"
    /\ pc' = [pc EXCEPT ![p] = "begun"]
    /\ session' = [session EXCEPT ![p] =
           [op |-> op, user |-> u, id |-> id, amount |-> a, start |-> today,
            found |-> None, row |-> None]]
    /\ UNCHANGED <<tables, userLock, today, granted>>

\* POST /v1/game/claim of a known game and event, authenticated
ClaimBegin(p, u, k, prize) == Begin(p, "game_win", u, k, prize)

\* POST /v1/checkin, authenticated
CheckinBegin(p, u) == Begin(p, "checkin", u, None, 0)

\* POST /admin/users/{id}/adjust, past its two gates on the amount
AdjustBegin(p, u, k, a) ==
    /\ a # 0 /\ a \in -AdjustMax..AdjustMax
    /\ Begin(p, "admin_adjust", u, k, a)

\* populate_existing: what the lock returns replaces what authentication loaded
LockUser(p) ==
    LET u == session[p].user IN
    /\ pc[p] = "begun"
    /\ UserFree(u)
    /\ userLock' = [userLock EXCEPT ![u] = p]
    /\ session' = [session EXCEPT ![p].found = users[u]]
    /\ pc' = [pc EXCEPT ![p] = "locked"]
    /\ UNCHANGED <<tables, today, granted>>

\* ledger.apply() has flushed; a balance above the column fails here instead,
\* and the session rolls back (Abort)
Flushed(p, user, row) ==
    /\ user.balance <= MaxInt
    /\ session' = [session EXCEPT ![p].found = user, ![p].row = row]
    /\ pc' = [pc EXCEPT ![p] = "flushed"]
    /\ UNCHANGED <<tables, userLock, today, granted>>

Working(p, op) == pc[p] = "locked" /\ session[p].op = op

Claim(p) ==
    LET s == session[p] IN
    \E awarded \in 0..s.amount :
        /\ Working(p, "game_win")
        /\ ~Known("game_win", s.user, s.id)
        /\ awarded = Awarded(s.user, s.amount)
        /\ Flushed(p, [s.found EXCEPT !.balance = @ + awarded,
                                      !.risk_score = IF Capped(s.amount, awarded) THEN @ + 1 ELSE @],
                   Row("game_win", s.user, s.id, awarded, s.amount, s.start))

\* the key of a claim or of an adjustment is known: nothing is written
Replay(p) ==
    LET s == session[p] IN
    /\ Working(p, "game_win") \/ Working(p, "admin_adjust")
    /\ Known(s.op, s.user, s.id)
    /\ Finish(p)
    /\ UNCHANGED <<tables, today, granted>>

\* a known key of this day would leave the streak moved and no row
Checkin(p) ==
    LET s == session[p]
        streak == NextStreak(s.found)
        amount == IF Known("checkin", s.user, today) THEN 0 ELSE checkin_reward(streak)
    IN  /\ Working(p, "checkin")
        /\ ~CheckedInToday(s.found)
        /\ Flushed(p, [s.found EXCEPT !.balance = @ + amount, !.streak = streak,
                                      !.last = today],
                   IF Known("checkin", s.user, today) THEN None
                   ELSE Row("checkin", s.user, today, amount, amount, s.start))

AlreadyCheckedIn(p) ==
    /\ Working(p, "checkin")
    /\ CheckedInToday(session[p].found)
    /\ Finish(p)
    /\ UNCHANGED <<tables, today, granted>>

Adjust(p) ==
    LET s == session[p] IN
    /\ Working(p, "admin_adjust")
    /\ ~Known("admin_adjust", s.user, s.id)
    /\ Covers(p)
    /\ Flushed(p, [s.found EXCEPT !.balance = @ + s.amount],
               Row("admin_adjust", s.user, s.id, s.amount, s.amount, s.start))

\* InsufficientBalance, answered 400 after a rollback
AdjustRefused(p) ==
    /\ Working(p, "admin_adjust")
    /\ ~Known("admin_adjust", session[p].user, session[p].id)
    /\ ~Covers(p)
    /\ Finish(p)
    /\ UNCHANGED <<tables, today, granted>>

NewRows(p) == {session[p].row} \ {None}

\* log_fraud_event(): daily_cap_hit of a cut claim, admin_adjust
CapHits(s) == IF s.op = "game_win" /\ Capped(s.amount, s.row.amount) THEN 1 ELSE 0
Adjustments(s) == IF s.op = "admin_adjust" THEN 1 ELSE 0

Commit(p) ==
    LET s == session[p] IN
    /\ pc[p] = "flushed"
    /\ users' = [users EXCEPT ![s.user] = s.found]
    /\ ledger' = ledger \cup NewRows(p)
    /\ events' = [events EXCEPT ![s.user] = [cap_hit |-> @.cap_hit + CapHits(s),
                                             adjust |-> @.adjust + Adjustments(s)]]
    /\ granted' = [granted EXCEPT ![s.user] =
           [k \in Keys |-> @[k] + IF s.op = "game_win" /\ k = s.id THEN 1 ELSE 0]]
    /\ Finish(p)
    /\ UNCHANGED today

\* the process dies, or an error leaves the handler: all of it is rolled back
Abort(p) ==
    /\ pc[p] # "idle"
    /\ Finish(p)
    /\ UNCHANGED <<tables, today, granted>>

Midnight ==
    /\ today < MaxDay
    /\ today' = today + 1
    /\ UNCHANGED <<tables, userLock, pc, session, granted>>

Next ==
    \/ \E p \in Procs :
          \/ \E u \in Users, k \in Keys, a \in Prizes : ClaimBegin(p, u, k, a)
          \/ \E u \in Users : CheckinBegin(p, u)
          \/ \E u \in Users, k \in StaffKeys, a \in Adjusts : AdjustBegin(p, u, k, a)
          \/ LockUser(p)
          \/ Claim(p)
          \/ Replay(p)
          \/ Checkin(p)
          \/ AlreadyCheckedIn(p)
          \/ Adjust(p)
          \/ AdjustRefused(p)
          \/ Commit(p)
          \/ Abort(p)
    \/ Midnight

Spec == Init /\ [][Next]_vars

-----------------------------------------------------------------------------
\* Type invariant; a balance never leaves the column's range.
TypeOK ==
    /\ users \in [Users -> UserRows]
    /\ ledger \subseteq Rows
    /\ events \in [Users -> [cap_hit : Nat, adjust : Nat]]
    /\ userLock \in [Users -> Procs \cup {None}]
    /\ pc \in [Procs -> Steps]
    /\ session \in [Procs -> Sessions \cup {Idle}]
    /\ \A p \in Procs : IF pc[p] = "idle" THEN session[p] = Idle ELSE session[p] \in Sessions
    /\ today \in Days
    /\ granted \in [Users -> [Keys -> Nat]]

\* What the game cap gives (claim_game_win): the claims of a user that began
\* and were decided on one day are together within daily_game_win_cap,
\* however they overlap each other.  A claim that waits over midnight is
\* measured against the new day and recorded in the old one, whose wins, by
\* the day its rows carry, may then exceed the cap.
FreshClaimsCapped ==
    \A u \in Users, d \in Days :
        MapThenSumSet(Coins, {r \in ledger : /\ r.user = u /\ r.kind = "game_win"
                                             /\ r.day = d /\ r.decided = d}) <= GameCap

\* A claim is paid only out of what the day still holds: when it commits with
\* coins, all the user earned since the start of the day it was decided on,
\* check-ins included, is within daily_total_credit_cap.
PaidClaimsLeaveRoom ==
    [][\A r \in ledger' \ ledger :
          r.kind = "game_win" /\ r.amount > 0
              => CreditedSince(r.user, r.decided, {"game_win", "checkin"})' <= TotalCap]_vars

\* The columns of do_checkin() agree with its ledger rows: checkin_streak is
\* the length of the unbroken run of days that ends at last_checkin_date, no
\* later day has a row, and that day was paid by the streak.
StreakIsRun ==
    \A u \in Users :
        LET last == users[u].last
            streak == users[u].streak
        IN  IF last = NoDay
            THEN streak = 0 /\ \A d \in Days : ~Known("checkin", u, d)
            ELSE /\ streak \in 1..last
                 /\ \A d \in Days : Known("checkin", u, d) => d <= last
                 /\ \A d \in (last - streak + 1)..last : Known("checkin", u, d)
                 /\ ~Known("checkin", u, last - streak)
                 /\ \A r \in ledger : r.kind = "checkin" /\ r.user = u /\ r.id = last
                                          => r.amount = checkin_reward(streak)

\* The audit trail agrees with the rows: each claim whose row pays less than
\* its prize, cut by either cap or by both, has one daily_cap_hit event and one
\* point of risk_score, each adjustment that moved coins one admin_adjust
\* event; replays, full prizes and what was rolled back have none.
TrailMatchesLedger ==
    \A u \in Users :
        /\ events[u].cap_hit =
               Cardinality({r \in ledger : /\ r.kind = "game_win" /\ r.user = u
                                           /\ r.amount < r.asked})
        /\ users[u].risk_score = events[u].cap_hit
        /\ events[u].adjust =
               Cardinality({r \in ledger : r.kind = "admin_adjust" /\ r.user = u})

\* "A zero-amount entry still burns the idem_key, so a capped claim can't be
\* replayed for coins after midnight" (claim_game_win): no key of a user is
\* granted twice, on this day or on a later one.
ClaimGrantedOnce == \A u \in Users, k \in Keys : granted[u][k] <= 1

\* The three operations move coins as AtomicLedger promises.
Money == INSTANCE AtomicLedger WITH
             balance <- [u \in Users |-> users[u].balance],
             applied <- {[user |-> r.user, amount |-> r.amount,
                          key |-> <<r.kind, r.user, r.id>>] : r \in ledger},
             Keys <- ({"game_win"} \X Users \X Keys)
                         \cup ({"checkin"} \X Users \X Days)
                         \cup ({"admin_adjust"} \X Users \X StaffKeys),
             Amounts <- -AdjustMax..MaxInt

RefinesAtomicLedger == Money!Spec
=============================================================================
