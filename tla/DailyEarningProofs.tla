------------------------- MODULE DailyEarningProofs -------------------------
(***************************************************************************)
(* Theorems about DailyEarning, for every set of users, keys and handlers, *)
(* every prize, reward table and cap.  IInv says what a handler has in its *)
(* session while the user's row is its own: the row as it is committed     *)
(* when it starts to work, that row changed by one ledger entry when it    *)
(* has flushed.  The caps need sums: CapInv adds that a claim which has    *)
(* flushed coins still finds the room it was given, for nobody else can    *)
(* add to what its user earned.                                            *)
(***************************************************************************)
EXTENDS DailyEarning, FiniteSetTheorems, WellFoundedInduction, TLAPS

\* What the request asked for.
Asked(s) ==
    /\ s.op = "game_win" => s.id \in Keys /\ s.amount \in Nat
    /\ s.op = "admin_adjust" => s.id \in StaffKeys /\ s.amount >= -AdjustMax

\* The flushed row r turns the user's columns from old to new.
Changes(s, r, old, new) ==
    /\ new.balance = old.balance + r.amount
    /\ r.amount >= -AdjustMax
    /\ r.user = s.user /\ r.kind = s.op
    /\ s.op # "checkin" => r.id = s.id /\ new.streak = old.streak /\ new.last = old.last
    /\ s.op # "game_win" => new.risk_score = old.risk_score
    /\ s.op = "game_win" => r.asked = s.amount
    /\ s.op = "game_win" =>
          new.risk_score = IF r.amount < s.amount THEN old.risk_score + 1 ELSE old.risk_score
    /\ s.op = "checkin" =>
          /\ r.id = new.last /\ new.last \in Days /\ new.last <= today
          /\ old.last < new.last
          /\ new.streak = IF old.last = new.last - 1 THEN old.streak + 1 ELSE 1
          /\ r.amount = checkin_reward(new.streak)

\* Who works on a user has its row; it starts from the columns as they are
\* committed, and has flushed one new entry of theirs.
Knows(p) ==
    LET s == session[p] IN
    /\ pc[p] # "idle" => Asked(s)
    /\ pc[p] \in {"locked", "flushed"} => userLock[s.user] = p
    /\ pc[p] = "locked" => s.found = users[s.user]
    /\ pc[p] = "flushed" =>
          /\ s.found \in UserRows /\ s.row \in Rows
          /\ Changes(s, s.row, users[s.user], s.found)
          /\ ~Known(s.row.kind, s.row.user, s.row.id)

LastNotAhead == \A u \in Users : users[u].last <= today

CheckinsOnDays == \A r \in ledger : r.kind = "checkin" => r.id \in Days

GrantedIfKnown ==
    \A u \in Users, k \in Keys : granted[u][k] = IF Known("game_win", u, k) THEN 1 ELSE 0

\* What the tables and the history say, of which no handler's session is part.
Books ==
    /\ IsFiniteSet(ledger)
    /\ LastNotAhead
    /\ CheckinsOnDays
    /\ GrantedIfKnown
    /\ StreakIsRun
    /\ TrailMatchesLedger

IInv ==
    /\ TypeOK
    /\ \A p \in Procs : Knows(p)
    /\ Books

-----------------------------------------------------------------------------
LEMMA BooksUnwritten ==
    ASSUME IInv, UNCHANGED <<tables, granted, today>>
    PROVE  Books'
<1>1. UNCHANGED <<users, ledger, events, granted, today>>
  BY DEF tables
<1>2. TrailMatchesLedger'
  BY <1>1 DEF IInv, Books, TrailMatchesLedger
<1>3. QED
  BY <1>1, <1>2 DEF IInv, Books, LastNotAhead, CheckinsOnDays, GrantedIfKnown, StreakIsRun,
                    Known, checkin_reward, MinOf

\* While the tables are not written, a handler whose session and lock are
\* left alone knows what it knew.
LEMMA Untouched ==
    ASSUME IInv, UNCHANGED <<tables, today>>, NEW q \in Procs,
           pc'[q] = pc[q], session'[q] = session[q],
           \A u \in Users : userLock[u] = q => userLock'[u] = q
    PROVE  Knows(q)'
<1>1. Knows(q)
  BY DEF IInv
<1>2. pc[q] # "idle" => session[q].user \in Users
  BY DEF IInv, TypeOK, Sessions
<1>3. UNCHANGED <<users, ledger, today>>
  BY DEF tables
<1>4. QED
  BY <1>1, <1>2, <1>3 DEF Knows, Asked, Changes, Known, checkin_reward, MinOf

LEMMA FinishInv ==
    ASSUME IInv, NEW p \in Procs, Finish(p), UNCHANGED <<tables, today, granted>>
    PROVE  IInv'
<1>1. \A q \in Procs \ {p} : pc'[q] = pc[q] /\ session'[q] = session[q]
  BY DEF IInv, TypeOK, Finish
<1>2. pc'[p] = "idle" /\ session'[p] = Idle
  BY DEF IInv, TypeOK, Finish
<1>3. TypeOK'
  BY DEF IInv, TypeOK, Finish, Release, Steps, tables
<1>4. \A q \in Procs \ {p}, u \in Users : userLock[u] = q => userLock'[u] = q
  BY DEF Finish, Release
<1>5. \A q \in Procs : Knows(q)'
  BY <1>1, <1>2, <1>4, Untouched DEF Knows
<1>6. QED
  BY <1>3, <1>5, BooksUnwritten DEF IInv

LEMMA BeginInv ==
    ASSUME IInv, NEW p \in Procs, NEW op \in Kinds, NEW u \in Users,
           NEW id \in Keys \cup StaffKeys \cup {None}, NEW a \in Int,
           op = "game_win" => id \in Keys /\ a \in Nat,
           op = "admin_adjust" => id \in StaffKeys /\ a >= -AdjustMax,
           Begin(p, op, u, id, a)
    PROVE  IInv'
<1>1. \A q \in Procs \ {p} : pc'[q] = pc[q] /\ session'[q] = session[q]
  BY DEF IInv, TypeOK, Begin
<1>2. PICK s : s = [op |-> op, user |-> u, id |-> id, amount |-> a, start |-> today,
                    found |-> None, row |-> None]
  OBVIOUS
<1>3. pc'[p] = "begun" /\ session'[p] = s
  BY <1>2 DEF IInv, TypeOK, Begin
<1>4. s \in Sessions /\ Asked(s)
  BY <1>2 DEF IInv, TypeOK, Sessions, Asked
<1>5. TypeOK'
  BY <1>1, <1>3, <1>4 DEF IInv, TypeOK, Begin, Steps, tables
<1>6. Knows(p)'
  BY <1>3, <1>4 DEF Knows, Asked
<1>7. \A q \in Procs : Knows(q)'
  BY <1>1, <1>6, Untouched DEF Begin
<1>8. QED
  BY <1>5, <1>7, BooksUnwritten DEF IInv, Begin

LEMMA LockUserInv ==
    ASSUME IInv, NEW p \in Procs, LockUser(p)
    PROVE  IInv'
<1>1. \A q \in Procs \ {p} : pc'[q] = pc[q] /\ session'[q] = session[q]
  BY DEF IInv, TypeOK, LockUser
<1>2. PICK u \in Users : u = session[p].user /\ session[p] \in Sessions /\ Asked(session[p])
  BY DEF IInv, TypeOK, LockUser, Knows, Sessions
<1>3. UserFree(u) /\ userLock' = [userLock EXCEPT ![u] = p] /\ UNCHANGED <<tables, today, granted>>
  BY <1>2 DEF LockUser
<1>4. PICK s : s = [session[p] EXCEPT !.found = users[u]]
  OBVIOUS
<1>5. s \in Sessions /\ Asked(s) /\ s.user = u /\ s.found = users[u]
  BY <1>2, <1>4 DEF IInv, TypeOK, Sessions, Asked
<1>6. pc'[p] = "locked" /\ session'[p] = s
  BY <1>2, <1>4 DEF IInv, TypeOK, LockUser
<1>7. TypeOK'
  <2>1. session' \in [Procs -> Sessions \cup {Idle}] /\ pc' \in [Procs -> Steps]
    BY <1>4, <1>2, <1>5 DEF IInv, TypeOK, LockUser, Steps
  <2>2. userLock' \in [Users -> Procs \cup {None}]
    BY <1>3 DEF IInv, TypeOK
  <2>3. QED
    BY <1>1, <1>3, <1>5, <1>6, <2>1, <2>2 DEF IInv, TypeOK, tables
<1>8. Knows(p)'
  BY <1>3, <1>5, <1>6 DEF Knows, Asked, IInv, TypeOK, tables
<1>9. \A q \in Procs \ {p}, v \in Users : userLock[v] = q => userLock'[v] = q
  BY <1>3, NoneIsNoProc DEF UserFree, IInv, TypeOK
<1>10. \A q \in Procs : Knows(q)'
  BY <1>1, <1>3, <1>8, <1>9, Untouched
<1>11. QED
  BY <1>3, <1>7, <1>10, BooksUnwritten DEF IInv

\* A flush that changes the user's columns by one new entry.
LEMMA FlushedInv ==
    ASSUME IInv, NEW p \in Procs, pc[p] = "locked", NEW user \in UserRows, NEW row \in Rows,
           Changes(session[p], row, users[session[p].user], user),
           ~Known(row.kind, row.user, row.id),
           Flushed(p, user, row)
    PROVE  IInv'
<1>1. \A q \in Procs \ {p} : pc'[q] = pc[q] /\ session'[q] = session[q]
  BY DEF IInv, TypeOK, Flushed
<1>2. session[p] \in Sessions /\ Asked(session[p]) /\ userLock[session[p].user] = p
  BY DEF IInv, TypeOK, Knows
<1>3. PICK s : s = [session[p] EXCEPT !.found = user, !.row = row]
  OBVIOUS
<1>4. /\ s \in Sessions /\ s.op = session[p].op /\ s.user = session[p].user
      /\ s.id = session[p].id /\ s.amount = session[p].amount /\ s.found = user /\ s.row = row
  BY <1>2, <1>3 DEF Sessions
<1>5. pc'[p] = "flushed" /\ session'[p] = s /\ UNCHANGED <<tables, userLock, today, granted>>
  BY <1>3 DEF IInv, TypeOK, Flushed
<1>6. TypeOK'
  <2>1. session' = [session EXCEPT ![p] = s] /\ pc' = [pc EXCEPT ![p] = "flushed"]
    BY <1>3 DEF Flushed, IInv, TypeOK
  <2>2. session' \in [Procs -> Sessions \cup {Idle}] /\ pc' \in [Procs -> Steps]
    BY <1>4, <2>1 DEF IInv, TypeOK, Steps
  <2>3. QED
    BY <1>1, <1>4, <1>5, <2>2 DEF IInv, TypeOK, tables
<1>7. Knows(p)'
  BY <1>2, <1>4, <1>5 DEF Knows, Asked, Changes, Known, tables, checkin_reward, MinOf
<1>8. \A q \in Procs : Knows(q)'
  BY <1>1, <1>5, <1>7, Untouched
<1>9. QED
  BY <1>5, <1>6, <1>8, BooksUnwritten DEF IInv

-----------------------------------------------------------------------------
LEMMA RewardIsPositive ==
    ASSUME NEW n \in Nat \ {0}
    PROVE  checkin_reward(n) \in Nat \ {0}
<1>1. Len(CheckinRewards) \in Nat \ {0}
  BY RewardsAreNat
<1>2. MinOf(n, Len(CheckinRewards)) \in 1..Len(CheckinRewards)
  BY <1>1 DEF MinOf
<1>3. QED
  BY <1>2, RewardsAreNat DEF checkin_reward

\* What a handler that works has at hand.
LEMMA AtWork ==
    ASSUME IInv, NEW p \in Procs, NEW op \in Kinds, Working(p, op)
    PROVE  /\ pc[p] = "locked" /\ session[p].op = op /\ session[p] \in Sessions
           /\ Asked(session[p]) /\ session[p].user \in Users
           /\ session[p].found = users[session[p].user]
           /\ users[session[p].user] \in UserRows
           /\ session[p].start \in Days /\ session[p].amount \in Int /\ today \in Days
<1>1. QED
  BY DEF IInv, TypeOK, Knows, Working, Sessions

LEMMA ClaimInv ==
    ASSUME IInv, NEW p \in Procs, Claim(p)
    PROVE  IInv'
<1>1. PICK a \in 0..session[p].amount :
          /\ Working(p, "game_win")
          /\ ~Known("game_win", session[p].user, session[p].id)
          /\ Flushed(p, [session[p].found EXCEPT
                             !.balance = session[p].found.balance + a,
                             !.risk_score = IF a < session[p].amount
                                            THEN session[p].found.risk_score + 1
                                            ELSE session[p].found.risk_score],
                     Row("game_win", session[p].user, session[p].id, a, session[p].amount,
                         session[p].start))
  BY DEF Claim, Capped
<1>2. PICK old \in UserRows : old = users[session[p].user] /\ old = session[p].found
  BY <1>1, AtWork DEF Kinds
<1>3. PICK user : user = [old EXCEPT !.balance = old.balance + a,
                                     !.risk_score = IF a < session[p].amount
                                                    THEN old.risk_score + 1
                                                    ELSE old.risk_score]
  OBVIOUS
<1>4. PICK row : row = Row("game_win", session[p].user, session[p].id, a, session[p].amount,
                         session[p].start)
  OBVIOUS
<1>5. /\ session[p].op = "game_win" /\ session[p].amount \in Nat /\ session[p].id \in Keys
      /\ session[p].user \in Users /\ session[p].start \in Days /\ today \in Days
      /\ pc[p] = "locked"
  BY <1>1, AtWork DEF Kinds, Asked
<1>6. Flushed(p, user, row)
  BY <1>1, <1>2, <1>3, <1>4
<1>7. user.balance <= MaxInt
  BY <1>6 DEF Flushed
<1>8. a \in Nat
  BY <1>5
<1>9. /\ user \in UserRows /\ user.balance = old.balance + a
      /\ user.risk_score = (IF a < session[p].amount THEN old.risk_score + 1 ELSE old.risk_score)
      /\ user.streak = old.streak /\ user.last = old.last
  <2>1. PICK risk \in Nat :
            risk = IF a < session[p].amount THEN old.risk_score + 1 ELSE old.risk_score
    BY DEF UserRows
  <2>2. user = [balance |-> old.balance + a, risk_score |-> risk, streak |-> old.streak,
                last |-> old.last]
    BY <1>3, <2>1 DEF UserRows
  <2>3. old.balance + a \in 0..MaxInt
    BY <1>7, <1>8, <2>2, BoundsAreNat DEF UserRows
  <2>4. QED
    BY <2>1, <2>2, <2>3 DEF UserRows
<1>10. /\ row \in Rows /\ row.amount = a /\ row.user = session[p].user
       /\ row.kind = "game_win" /\ row.id = session[p].id /\ row.asked = session[p].amount
  BY <1>4, <1>5, <1>8 DEF Row, Rows, Kinds
<1>11. Changes(session[p], row, users[session[p].user], user)
  BY <1>2, <1>5, <1>8, <1>9, <1>10, AdjustsAreInts DEF Changes
<1>12. QED
  BY <1>1, <1>5, <1>6, <1>9, <1>10, <1>11, FlushedInv

LEMMA AdjustInv ==
    ASSUME IInv, NEW p \in Procs, Adjust(p)
    PROVE  IInv'
<1>1. PICK a : a = session[p].amount
  OBVIOUS
<1>2. /\ Working(p, "admin_adjust")
      /\ ~Known("admin_adjust", session[p].user, session[p].id)
      /\ session[p].found.balance + a >= 0
      /\ Flushed(p, [session[p].found EXCEPT !.balance = session[p].found.balance + a],
                 Row("admin_adjust", session[p].user, session[p].id, a, a, session[p].start))
  BY <1>1 DEF Adjust, Covers
<1>3. PICK old \in UserRows : old = users[session[p].user] /\ old = session[p].found
  BY <1>2, AtWork DEF Kinds
<1>4. PICK user : user = [old EXCEPT !.balance = old.balance + a]
  OBVIOUS
<1>5. PICK row : row = Row("admin_adjust", session[p].user, session[p].id, a, a, session[p].start)
  OBVIOUS
<1>6. /\ session[p].op = "admin_adjust" /\ a \in Int /\ a >= -AdjustMax
      /\ session[p].id \in StaffKeys
      /\ session[p].user \in Users /\ session[p].start \in Days /\ today \in Days
      /\ pc[p] = "locked"
  BY <1>1, <1>2, AtWork DEF Kinds, Asked
<1>7. Flushed(p, user, row)
  BY <1>2, <1>3, <1>4, <1>5
<1>8. user.balance <= MaxInt
  BY <1>7 DEF Flushed
<1>9. /\ user \in UserRows /\ user.balance = old.balance + a
      /\ user.risk_score = old.risk_score /\ user.streak = old.streak /\ user.last = old.last
  BY <1>2, <1>3, <1>4, <1>6, <1>8, BoundsAreNat DEF UserRows
<1>10. /\ row \in Rows /\ row.amount = a /\ row.user = session[p].user
       /\ row.kind = "admin_adjust" /\ row.id = session[p].id
  BY <1>5, <1>6 DEF Row, Rows, Kinds
<1>11. Changes(session[p], row, users[session[p].user], user)
  BY <1>3, <1>6, <1>9, <1>10 DEF Changes
<1>12. QED
  BY <1>2, <1>6, <1>7, <1>9, <1>10, <1>11, FlushedInv

\* The day's key is new because last_checkin_date is not today.
LEMMA CheckinInv ==
    ASSUME IInv, NEW p \in Procs, Checkin(p)
    PROVE  IInv'
<1>1. PICK n : n = NextStreak(session[p].found)
  OBVIOUS
<1>2. Working(p, "checkin") /\ session[p].found.last # today
  BY DEF Checkin, CheckedInToday
<1>3. PICK old \in UserRows : old = users[session[p].user] /\ old = session[p].found
  BY <1>2, AtWork DEF Kinds
<1>4. /\ session[p].op = "checkin" /\ session[p].user \in Users
      /\ session[p].start \in Days /\ today \in Days /\ pc[p] = "locked"
  BY <1>2, AtWork DEF Kinds
<1>5. old.last \in Days \cup {NoDay} /\ old.last < today
  <2>1. old.last \in Days \cup {NoDay}
    BY DEF UserRows
  <2>2. old.last <= today
    BY <1>3, <1>4 DEF IInv, Books, LastNotAhead
  <2>3. today \in Int /\ old.last \in Int
    BY <1>4, <2>1, BoundsAreNat DEF Days, NoDay
  <2>4. QED
    BY <1>2, <1>3, <2>1, <2>2, <2>3
<1>6. ~Known("checkin", session[p].user, today)
  <2>1. PICK u \in Users : u = session[p].user
    BY <1>4
  <2>2. CASE old.last = NoDay
    BY <1>3, <1>4, <2>1, <2>2 DEF IInv, Books, StreakIsRun
  <2>3. CASE old.last # NoDay
    <3>1. Known("checkin", u, today) => today <= old.last
      BY <1>3, <1>4, <2>1, <2>3 DEF IInv, Books, StreakIsRun
    <3>2. ~(today <= old.last)
      BY <1>4, <1>5, BoundsAreNat DEF Days, NoDay
    <3>3. QED
      BY <2>1, <3>1, <3>2
  <2>4. QED
    BY <2>2, <2>3
<1>7. n \in Nat \ {0} /\ n = IF old.last = today - 1 THEN old.streak + 1 ELSE 1
  BY <1>1, <1>3 DEF NextStreak, UserRows
<1>8. PICK a \in Nat \ {0} : a = checkin_reward(n)
  BY <1>7, RewardIsPositive
<1>9. PICK user : user = [old EXCEPT !.balance = old.balance + a, !.streak = n, !.last = today]
  OBVIOUS
<1>10. PICK row : row = Row("checkin", session[p].user, today, a, a, session[p].start)
  OBVIOUS
<1>11. Flushed(p, user, row)
  BY <1>1, <1>3, <1>6, <1>8, <1>9, <1>10 DEF Checkin
<1>12. user.balance <= MaxInt
  BY <1>11 DEF Flushed
<1>13. /\ user \in UserRows /\ user.balance = old.balance + a
       /\ user.risk_score = old.risk_score /\ user.streak = n /\ user.last = today
  <2>1. user = [balance |-> old.balance + a, risk_score |-> old.risk_score, streak |-> n,
                last |-> today]
    BY <1>9 DEF UserRows
  <2>2. old.balance + a \in 0..MaxInt
    BY <1>12, <2>1, BoundsAreNat DEF UserRows
  <2>3. QED
    BY <1>4, <1>7, <2>1, <2>2 DEF UserRows
<1>14. /\ row \in Rows /\ row.amount = a /\ row.user = session[p].user
       /\ row.kind = "checkin" /\ row.id = today
  BY <1>4, <1>10 DEF Row, Rows, Kinds
<1>15. today <= today
  BY <1>4 DEF Days
<1>16. Changes(session[p], row, users[session[p].user], user)
  BY <1>3, <1>4, <1>5, <1>7, <1>8, <1>13, <1>14, <1>15, AdjustsAreInts DEF Changes
<1>17. QED
  BY <1>4, <1>6, <1>11, <1>13, <1>14, <1>16, FlushedInv

-----------------------------------------------------------------------------
\* What a commit of session s writes.
Writes(p, u, r, new, s) ==
    /\ s = session[p] /\ pc[p] = "flushed" /\ u = s.user /\ userLock[u] = p
    /\ Asked(s) /\ Changes(s, r, users[u], new)
    /\ ~Known(r.kind, u, r.id) /\ r \notin ledger
    /\ users' = [users EXCEPT ![u] = new]
    /\ ledger' = ledger \cup {r}
    /\ events' = [events EXCEPT ![u] =
           [cap_hit |-> events[u].cap_hit
               + (IF s.op = "game_win" /\ r.amount < s.amount THEN 1 ELSE 0),
            adjust |-> events[u].adjust + (IF s.op = "admin_adjust" THEN 1 ELSE 0)]]
    /\ granted' = [granted EXCEPT ![u] =
           [k \in Keys |-> granted[u][k]
               + (IF s.op = "game_win" /\ k = s.id THEN 1 ELSE 0)]]

\* A commit writes one row and the user it was computed for.
LEMMA CommitWrites ==
    ASSUME IInv, NEW p \in Procs, Commit(p)
    PROVE  \E u \in Users, r \in Rows, new \in UserRows, s \in Sessions :
              Writes(p, u, r, new, s)
<1>1. pc[p] = "flushed"
  BY DEF Commit
<1>2. PICK s \in Sessions : s = session[p]
  BY <1>1 DEF IInv, TypeOK
<1>3. s.user \in Users
  BY <1>2 DEF Sessions
<1>4. PICK u \in Users : u = s.user
  BY <1>3
<1>5. PICK r \in Rows : r = s.row
  BY <1>1, <1>2 DEF IInv, Knows
<1>6. PICK new \in UserRows : new = s.found
  BY <1>1, <1>2 DEF IInv, Knows
<1>7. /\ userLock[u] = p /\ Asked(s) /\ Changes(s, r, users[u], new)
      /\ ~Known(r.kind, r.user, r.id)
  BY <1>1, <1>2, <1>4, <1>5, <1>6 DEF IInv, Knows
<1>8. r.user = u
  BY <1>4, <1>7 DEF Changes
<1>9. r \notin ledger
  BY <1>7 DEF Known
<1>10. NewRows(p) = {r}
  BY <1>2, <1>5, NoneIsNoRow DEF NewRows
<1>11. users' = [users EXCEPT ![u] = new] /\ ledger' = ledger \cup {r}
  BY <1>2, <1>4, <1>6, <1>10 DEF Commit
<1>12. events' = [events EXCEPT ![u] =
                     [cap_hit |-> events[u].cap_hit
                         + (IF s.op = "game_win" /\ r.amount < s.amount THEN 1 ELSE 0),
                      adjust |-> events[u].adjust + (IF s.op = "admin_adjust" THEN 1 ELSE 0)]]
  BY <1>2, <1>4, <1>5 DEF Commit, CapHits, Capped, Adjustments
<1>13. granted' = [granted EXCEPT ![u] =
                     [k \in Keys |-> granted[u][k]
                         + (IF s.op = "game_win" /\ k = s.id THEN 1 ELSE 0)]]
  BY <1>2, <1>4 DEF Commit
<1>14. Writes(p, u, r, new, s)
  BY <1>1, <1>2, <1>4, <1>7, <1>8, <1>9, <1>11, <1>12, <1>13 DEF Writes
<1>15. QED
  BY <1>14

\* The entry that a commit adds is the only key it adds.
LEMMA KnownAfter ==
    ASSUME NEW r \in Rows, ledger' = ledger \cup {r}, NEW kind, NEW u, NEW id
    PROVE  Known(kind, u, id)' <=> \/ Known(kind, u, id)
                                   \/ r.kind = kind /\ r.user = u /\ r.id = id
<1>1. QED
  BY DEF Known

\* StreakIsRun for one user.
RunOf(u, last, streak) ==
    IF last = NoDay
    THEN streak = 0 /\ \A d \in Days : ~Known("checkin", u, d)
    ELSE /\ streak \in 1..last
         /\ \A d \in Days : Known("checkin", u, d) => d <= last
         /\ \A d \in (last - streak + 1)..last : Known("checkin", u, d)
         /\ ~Known("checkin", u, last - streak)
         /\ \A r \in ledger : r.kind = "checkin" /\ r.user = u /\ r.id = last
                                  => r.amount = checkin_reward(streak)

\* One new entry leaves the streaks right.
LEMMA StreakKeptByEntry ==
    ASSUME IInv, NEW u \in Users, NEW r \in Rows, NEW new \in UserRows, NEW s,
           Changes(s, r, users[u], new), r.user = u, r.kind = s.op, s.op \in Kinds,
           ~Known(r.kind, u, r.id),
           users' = [users EXCEPT ![u] = new], ledger' = ledger \cup {r}
    PROVE  StreakIsRun'
<1>1. ASSUME NEW v \in Users
      PROVE  \E last, streak : /\ last = users'[v].last /\ streak = users'[v].streak
                               /\ RunOf(v, last, streak)'
  <2>1. PICK last, streak : last = users[v].last /\ streak = users[v].streak
    OBVIOUS
  <2>2. /\ last \in Days \cup {NoDay} /\ streak \in Nat
        /\ RunOf(v, last, streak)
    BY <2>1 DEF IInv, Books, StreakIsRun, RunOf, TypeOK, UserRows
  <2>3. \A d : Known("checkin", v, d)' <=>
                  Known("checkin", v, d) \/ (s.op = "checkin" /\ u = v /\ r.id = d)
    BY KnownAfter
  <2>4. CASE v # u \/ s.op # "checkin"
    <3>1. users'[v].last = last /\ users'[v].streak = streak
      BY <2>1, <2>4 DEF Changes, IInv, TypeOK
    <3>2. \A d : Known("checkin", v, d)' <=> Known("checkin", v, d)
      BY <2>3, <2>4
    <3>3. \A e \in ledger' : e.kind = "checkin" /\ e.user = v => e \in ledger
      BY <2>4
    <3>4. RunOf(v, last, streak)'
      BY <2>2, <3>2, <3>3 DEF RunOf
    <3>5. QED
      BY <3>1, <3>4
  <2>5. CASE v = u /\ s.op = "checkin"
    <3>1. PICK d0 \in Days, n \in Nat : d0 = new.last /\ n = new.streak /\ d0 = r.id
      BY <2>5 DEF Changes, UserRows
    <3>2. users'[v].last = d0 /\ users'[v].streak = n
      BY <2>5, <3>1 DEF IInv, TypeOK
    <3>3. /\ last < d0 /\ n = IF last = d0 - 1 THEN streak + 1 ELSE 1
          /\ r.amount = checkin_reward(n)
      BY <2>1, <2>5, <3>1 DEF Changes
    <3>4. d0 \in Int /\ d0 >= 1 /\ d0 # NoDay
      BY <3>1, BoundsAreNat DEF Days, NoDay
    <3>5. \A d : Known("checkin", v, d) => d \in Days
      BY DEF Known, IInv, Books, CheckinsOnDays
    <3>6. \A d \in Days : Known("checkin", v, d) => d <= last
      BY <2>2 DEF RunOf
    <3>7. \A d \in Days : d \in Int /\ d >= 1
      BY BoundsAreNat DEF Days
    <3>8. \A d : Known("checkin", v, d)' <=> Known("checkin", v, d) \/ d = d0
      BY <2>3, <2>5, <3>1
    <3>9. last \in Int /\ (last = NoDay => last < d0 - 1)
      BY <2>2, <3>4, <3>7 DEF NoDay
    <3>10. n \in 1..d0
      BY <2>2, <3>3, <3>4, <3>9 DEF RunOf
    <3>11. \A d \in Days : Known("checkin", v, d)' => d <= d0
      BY <3>3, <3>4, <3>6, <3>7, <3>8, <3>9
    <3>12. \A d \in (d0 - n + 1)..d0 : Known("checkin", v, d)'
      <4>1. CASE last = d0 - 1
        <5>1. \A d \in (last - streak + 1)..last : Known("checkin", v, d)
          BY <2>2, <3>4, <3>9, <4>1 DEF RunOf
        <5>2. \A d \in (d0 - n + 1)..d0 : d = d0 \/ d \in (last - streak + 1)..last
          BY <2>2, <3>3, <3>4, <3>9, <4>1
        <5>3. QED
          BY <3>8, <5>1, <5>2
      <4>2. CASE last # d0 - 1
        <5>1. \A d \in (d0 - n + 1)..d0 : d = d0
          BY <3>3, <3>4, <4>2
        <5>2. QED
          BY <3>8, <5>1
      <4>3. QED
        BY <4>1, <4>2
    <3>13. ~Known("checkin", v, d0 - n)'
      <4>1. d0 - n # d0
        BY <3>4, <3>10
      <4>2. CASE last = d0 - 1
        <5>1. d0 - n = last - streak /\ last # NoDay
          BY <2>2, <3>3, <3>4, <3>9, <4>2
        <5>2. QED
          BY <2>2, <3>8, <4>1, <5>1 DEF RunOf
      <4>3. CASE last # d0 - 1
        <5>1. d0 - n > last
          BY <3>3, <3>4, <3>9, <4>3
        <5>2. ~Known("checkin", v, d0 - n)
          BY <3>4, <3>5, <3>6, <3>9, <3>10, <5>1
        <5>3. QED
          BY <3>8, <4>1, <5>2
      <4>4. QED
        BY <4>2, <4>3
    <3>14. \A e \in ledger' : e.kind = "checkin" /\ e.user = v /\ e.id = d0
                                 => e.amount = checkin_reward(n)
      <4>1. \A e \in ledger : ~(e.kind = "checkin" /\ e.user = v /\ e.id = d0)
        BY <2>5, <3>1 DEF Known
      <4>2. QED
        BY <3>3, <4>1
    <3>15. RunOf(v, d0, n)'
      BY <3>4, <3>10, <3>11, <3>12, <3>13, <3>14 DEF RunOf
    <3>16. QED
      BY <3>2, <3>15
  <2>6. QED
    BY <2>4, <2>5
<1>2. QED
  BY <1>1 DEF StreakIsRun, RunOf

\* The rows that TrailMatchesLedger counts.
CutClaims(L, u) ==
    {e \in L : e.kind = "game_win" /\ e.user = u /\ e.amount < e.asked}
AdjustRows(L, u) == {e \in L : e.kind = "admin_adjust" /\ e.user = u}

LEMMA CommitInv ==
    ASSUME IInv, NEW p \in Procs, Commit(p)
    PROVE  IInv'
<1>1. PICK u \in Users, r \in Rows, new \in UserRows, s \in Sessions :
              Writes(p, u, r, new, s)
  BY CommitWrites
<1> USE DEF Writes
<1>2. Finish(p) /\ UNCHANGED today
  BY DEF Commit
<1>3. /\ \A q \in Procs \ {p} : pc'[q] = pc[q] /\ session'[q] = session[q]
      /\ pc'[p] = "idle" /\ session'[p] = Idle
  BY <1>2 DEF IInv, TypeOK, Finish
<1>4. PICK old \in UserRows : old = users[u]
  BY DEF IInv, TypeOK
<1>5. r.user = u /\ r.kind = s.op /\ s.op \in Kinds
  BY <1>1 DEF Changes, Sessions
<1>6. TypeOK'
  <2>1. users' \in [Users -> UserRows] /\ ledger' \subseteq Rows
    BY <1>1 DEF IInv, TypeOK
  <2>2. events' \in [Users -> [cap_hit : Nat, adjust : Nat]]
    <3>1. events[u].cap_hit \in Nat /\ events[u].adjust \in Nat
      BY DEF IInv, TypeOK
    <3>2. PICK c, d : /\ events' = [events EXCEPT ![u] = [cap_hit |-> c, adjust |-> d]]
                      /\ c = events[u].cap_hit
                             + (IF s.op = "game_win" /\ r.amount < s.amount THEN 1 ELSE 0)
                      /\ d = events[u].adjust + (IF s.op = "admin_adjust" THEN 1 ELSE 0)
      BY <1>1
    <3>3. c \in Nat /\ d \in Nat
      BY <3>1, <3>2
    <3>4. QED
      BY <3>2, <3>3 DEF IInv, TypeOK
  <2>3. granted' \in [Users -> [Keys -> Nat]]
    <3>1. \A k \in Keys : granted[u][k] \in Nat
      BY DEF IInv, TypeOK
    <3>2. [k \in Keys |-> granted[u][k] + (IF s.op = "game_win" /\ k = s.id THEN 1 ELSE 0)]
              \in [Keys -> Nat]
      BY <3>1
    <3>3. QED
      BY <1>1, <3>2 DEF IInv, TypeOK
  <2>4. session' \in [Procs -> Sessions \cup {Idle}] /\ pc' \in [Procs -> Steps]
        /\ userLock' \in [Users -> Procs \cup {None}]
    BY <1>2 DEF IInv, TypeOK, Finish, Release, Steps
  <2>5. QED
    BY <1>2, <1>3, <2>1, <2>2, <2>3, <2>4 DEF IInv, TypeOK
<1>7. ASSUME NEW q \in Procs PROVE Knows(q)'
  <2>1. CASE q = p
    BY <1>3, <2>1 DEF Knows
  <2>2. CASE q # p
    <3>1. pc'[q] = pc[q] /\ session'[q] = session[q] /\ Knows(q)
      BY <1>3, <2>2 DEF IInv
    <3>2. CASE pc[q] \notin {"locked", "flushed"}
      BY <3>1, <3>2 DEF Knows, Asked
    <3>3. CASE pc[q] \in {"locked", "flushed"}
      <4>1. PICK v \in Users : v = session[q].user
        BY <3>3 DEF IInv, TypeOK, Sessions
      <4>2. userLock[v] = q
        BY <3>1, <3>3, <4>1 DEF Knows
      <4>3. v # u
        BY <1>1, <2>2, <4>2
      <4>4. users'[v] = users[v] /\ userLock'[v] = q
        BY <1>1, <1>2, <2>2, <4>2, <4>3 DEF Finish, Release, IInv, TypeOK
      <4>5. pc[q] = "flushed" => session[q].row.user = v /\ session[q].row \in Rows
        BY <3>1, <4>1 DEF Knows, Changes
      <4>6. pc[q] = "flushed" =>
                ~Known(session[q].row.kind, session[q].row.user, session[q].row.id)'
        BY <1>1, <1>5, <3>1, <4>3, <4>5 DEF Knows, Known
      <4>7. QED
        BY <1>2, <3>1, <4>1, <4>2, <4>4, <4>6 DEF Knows, Asked, Changes, checkin_reward, MinOf
    <3>4. QED
      BY <3>2, <3>3
  <2>3. QED
    BY <2>1, <2>2
<1>8. IsFiniteSet(ledger)'
  BY <1>1, FS_AddElement DEF IInv, Books
<1>9. LastNotAhead'
  BY <1>1, <1>2, <1>4, <1>5 DEF IInv, TypeOK, Books, LastNotAhead, Changes
<1>10. GrantedIfKnown'
  <2>1. SUFFICES ASSUME NEW v \in Users, NEW k \in Keys
                 PROVE  granted'[v][k] = IF Known("game_win", v, k)' THEN 1 ELSE 0
    BY DEF GrantedIfKnown
  <2>2. Known("game_win", v, k)' <=>
            \/ Known("game_win", v, k)
            \/ s.op = "game_win" /\ u = v /\ s.id = k
    BY <1>1, <1>5, KnownAfter DEF Changes
  <2>3. granted[v][k] = IF Known("game_win", v, k) THEN 1 ELSE 0
    BY DEF IInv, Books, GrantedIfKnown
  <2>4. CASE s.op = "game_win" /\ u = v /\ s.id = k
    <3>1. ~Known("game_win", v, k)
      BY <1>1, <1>5, <2>4 DEF Changes
    <3>2. granted'[v][k] = granted[v][k] + 1
      BY <1>1, <2>4 DEF IInv, TypeOK
    <3>3. QED
      BY <2>2, <2>3, <2>4, <3>1, <3>2
  <2>5. CASE ~(s.op = "game_win" /\ u = v /\ s.id = k)
    <3>1. granted[v][k] \in Nat
      BY DEF IInv, TypeOK
    <3>2. granted'[v][k] = granted[v][k]
      BY <1>1, <2>5, <3>1 DEF IInv, TypeOK
    <3>3. QED
      BY <2>2, <2>3, <2>5, <3>2
  <2>6. QED
    BY <2>4, <2>5
<1>11. CheckinsOnDays'
  BY <1>1, <1>5 DEF IInv, Books, CheckinsOnDays, Changes
<1>12. StreakIsRun'
  BY <1>1, <1>5, StreakKeptByEntry
<1>13. TrailMatchesLedger'
  <2>1. SUFFICES ASSUME NEW v \in Users
                 PROVE  /\ events'[v].cap_hit = Cardinality(CutClaims(ledger', v))
                        /\ users'[v].risk_score = events'[v].cap_hit
                        /\ events'[v].adjust = Cardinality(AdjustRows(ledger', v))
    BY DEF TrailMatchesLedger, CutClaims, AdjustRows
  <2>2. /\ events[v].cap_hit = Cardinality(CutClaims(ledger, v))
        /\ users[v].risk_score = events[v].cap_hit
        /\ events[v].adjust = Cardinality(AdjustRows(ledger, v))
    BY DEF IInv, Books, TrailMatchesLedger, CutClaims, AdjustRows
  <2>3. /\ AdjustRows(ledger', v) =
              IF s.op = "admin_adjust" /\ u = v THEN AdjustRows(ledger, v) \cup {r}
              ELSE AdjustRows(ledger, v)
        /\ CutClaims(ledger', v) =
              IF s.op = "game_win" /\ r.amount < s.amount /\ u = v
              THEN CutClaims(ledger, v) \cup {r} ELSE CutClaims(ledger, v)
    BY <1>1, <1>5 DEF AdjustRows, CutClaims, Changes
  <2>4. /\ Cardinality(AdjustRows(ledger, v) \cup {r}) = Cardinality(AdjustRows(ledger, v)) + 1
        /\ Cardinality(CutClaims(ledger, v) \cup {r}) = Cardinality(CutClaims(ledger, v)) + 1
    <3>1. /\ IsFiniteSet(AdjustRows(ledger, v)) /\ IsFiniteSet(CutClaims(ledger, v))
          /\ r \notin AdjustRows(ledger, v) /\ r \notin CutClaims(ledger, v)
      BY <1>1, FS_Subset DEF IInv, Books, AdjustRows, CutClaims
    <3>2. QED
      BY <3>1, FS_AddElement
  <2>5. events[v].cap_hit \in Nat /\ events[v].adjust \in Nat
    BY DEF IInv, TypeOK
  <2>6. CASE v # u
    <3>1. users'[v] = users[v] /\ events'[v] = events[v]
      BY <1>1, <2>6 DEF IInv, TypeOK
    <3>2. QED
      BY <2>2, <2>3, <2>6, <3>1
  <2>7. CASE v = u
    <3>1. users'[v] = new
      BY <1>1, <2>7 DEF IInv, TypeOK
    <3>2. PICK c, d : /\ events'[v] = [cap_hit |-> c, adjust |-> d]
                      /\ c = events[v].cap_hit
                             + (IF s.op = "game_win" /\ r.amount < s.amount THEN 1 ELSE 0)
                      /\ d = events[v].adjust + (IF s.op = "admin_adjust" THEN 1 ELSE 0)
      BY <1>1, <2>7 DEF IInv, TypeOK
    <3>3. d = Cardinality(AdjustRows(ledger', v)) /\ c = Cardinality(CutClaims(ledger', v))
      BY <2>2, <2>3, <2>4, <2>5, <2>7, <3>2
    <3>4. new.risk_score = c
      BY <1>1, <2>2, <2>5, <2>7, <3>2 DEF Changes
    <3>5. QED
      BY <3>1, <3>2, <3>3, <3>4
  <2>8. QED
    BY <2>6, <2>7
<1>14. QED
  BY <1>6, <1>7, <1>8, <1>9, <1>10, <1>11, <1>12, <1>13 DEF IInv, Books

-----------------------------------------------------------------------------
LEMMA MidnightInv ==
    ASSUME IInv, Midnight
    PROVE  IInv'
<1>1. today' \in Days /\ today' = today + 1 /\ today \in Int
  BY BoundsAreNat DEF IInv, TypeOK, Midnight, Days
<1>2. UNCHANGED <<users, ledger, events, userLock, pc, session, granted>>
  BY DEF Midnight, tables
<1>3. TypeOK'
  BY <1>1, <1>2 DEF IInv, TypeOK
<1>4. ASSUME NEW q \in Procs PROVE Knows(q)'
  <2>1. pc[q] = "flushed" => Changes(session[q], session[q].row, users[session[q].user],
                                     session[q].found)
    BY DEF IInv, Knows
  <2>2. pc[q] = "flushed" => Changes(session[q], session[q].row, users[session[q].user],
                                     session[q].found)'
    BY <1>1, <1>2, <2>1, BoundsAreNat DEF Changes, checkin_reward, MinOf, Days
  <2>3. QED
    BY <1>2, <2>2 DEF IInv, Knows, Asked, Known
<1>5. LastNotAhead'
  <2>1. \A u \in Users : users[u].last \in Int
    BY BoundsAreNat DEF IInv, TypeOK, UserRows, Days, NoDay
  <2>2. QED
    BY <1>1, <1>2, <2>1 DEF IInv, Books, LastNotAhead
<1>6. TrailMatchesLedger'
  BY <1>2 DEF IInv, Books, TrailMatchesLedger
<1>7. Books'
  BY <1>2, <1>5, <1>6 DEF IInv, Books, CheckinsOnDays, GrantedIfKnown, StreakIsRun,
                          Known, checkin_reward, MinOf
<1>8. QED
  BY <1>3, <1>4, <1>7 DEF IInv

LEMMA DaysStart == 1 \in Days
<1>1. QED
  BY BoundsAreNat DEF Days

LEMMA InitInv == Init => IInv
<1> SUFFICES ASSUME Init PROVE IInv
  OBVIOUS
<1>1. PICK new : new = [balance |-> 0, risk_score |-> 0, streak |-> 0, last |-> NoDay]
  OBVIOUS
<1>2. new \in UserRows
  BY <1>1, BoundsAreNat DEF UserRows
<1>3. users \in [Users -> UserRows] /\ \A u \in Users : users[u] = new
  BY <1>1, <1>2 DEF Init
<1>4. /\ events \in [Users -> [cap_hit : Nat, adjust : Nat]]
      /\ \A u \in Users : events[u].cap_hit = 0 /\ events[u].adjust = 0
      /\ granted \in [Users -> [Keys -> Nat]]
      /\ \A u \in Users, k \in Keys : granted[u][k] = 0
  BY DEF Init
<1>5. TypeOK
  BY <1>3, <1>4, DaysStart DEF Init, TypeOK, Steps
<1>6. \A p \in Procs : Knows(p)
  BY DEF Init, Knows
<1>7. LastNotAhead /\ GrantedIfKnown /\ CheckinsOnDays
  BY <1>1, <1>3, <1>4 DEF Init, LastNotAhead, GrantedIfKnown, CheckinsOnDays, Known, NoDay
<1>8. StreakIsRun
  BY <1>1, <1>3 DEF Init, StreakIsRun, Known
<1>9. TrailMatchesLedger
  <2>1. \A u \in Users : AdjustRows(ledger, u) = {} /\ CutClaims(ledger, u) = {}
    BY DEF Init, AdjustRows, CutClaims
  <2>2. Cardinality({}) = 0
    BY FS_EmptySet
  <2>3. \A u \in Users : users[u].risk_score = 0
    BY <1>1, <1>3
  <2>4. QED
    BY <1>4, <2>1, <2>2, <2>3 DEF TrailMatchesLedger, AdjustRows, CutClaims
<1>10. QED
  BY <1>5, <1>6, <1>7, <1>8, <1>9, FS_EmptySet DEF IInv, Books, Init

LEMMA NextInv == IInv /\ [Next]_vars => IInv'
<1> SUFFICES ASSUME IInv, [Next]_vars PROVE IInv'
  OBVIOUS
<1>1. CASE UNCHANGED vars
  <2>1. \A q \in Procs : Knows(q)'
    BY <1>1, Untouched DEF vars, tables
  <2>2. TypeOK'
    BY <1>1 DEF IInv, TypeOK, vars, tables
  <2>3. QED
    BY <1>1, <2>1, <2>2, BooksUnwritten DEF IInv, vars, tables
<1>2. ASSUME NEW p \in Procs, NEW u \in Users, NEW k \in Keys, NEW a \in Prizes,
             ClaimBegin(p, u, k, a)
      PROVE  IInv'
  BY <1>2, BeginInv, PrizesArePositive DEF ClaimBegin, Kinds
<1>3. ASSUME NEW p \in Procs, NEW u \in Users, CheckinBegin(p, u) PROVE IInv'
  BY <1>3, BeginInv DEF CheckinBegin, Kinds
<1>4. ASSUME NEW p \in Procs, NEW u \in Users, NEW k \in StaffKeys, NEW a \in Adjusts,
             AdjustBegin(p, u, k, a)
      PROVE  IInv'
  BY <1>4, BeginInv, AdjustsAreInts DEF AdjustBegin, Kinds
<1>5. ASSUME NEW p \in Procs,
             Replay(p) \/ AlreadyCheckedIn(p) \/ AdjustRefused(p) \/ Abort(p)
      PROVE  IInv'
  BY <1>5, FinishInv DEF Replay, AlreadyCheckedIn, AdjustRefused, Abort
<1>6. QED
  BY <1>1, <1>2, <1>3, <1>4, <1>5, LockUserInv, ClaimInv, CheckinInv, AdjustInv, CommitInv,
     MidnightInv DEF Next

\* The inductive invariant holds of every behaviour.
THEOREM Invariance == Spec => []IInv
<1>1. QED
  BY InitInv, NextInv, PTL DEF Spec

\* Type correctness; no balance leaves the range of its column.
THEOREM TypeCorrect == Spec => []TypeOK
<1>1. IInv => TypeOK
  BY DEF IInv
<1>2. QED
  BY <1>1, Invariance, PTL

\* do_checkin(): the streak column is the run of check-in days the ledger
\* shows, for any wait, midnight or missed day.
THEOREM StreaksAreRuns == Spec => []StreakIsRun
<1>1. IInv => StreakIsRun
  BY DEF IInv, Books
<1>2. QED
  BY <1>1, Invariance, PTL

\* claim_game_win() and adjust_balance(): the cut claims and the adjustments
\* of the ledger are the daily_cap_hit and admin_adjust events, one each, and
\* risk_score counts the former.
THEOREM TrailComplete == Spec => []TrailMatchesLedger
<1>1. IInv => TrailMatchesLedger
  BY DEF IInv, Books
<1>2. QED
  BY <1>1, Invariance, PTL

\* claim_game_win(): a key, once answered as new, never is again.
THEOREM KeysBurn == Spec => []ClaimGrantedOnce
<1>1. IInv => ClaimGrantedOnce
  BY DEF IInv, Books, GrantedIfKnown, ClaimGrantedOnce
<1>2. QED
  BY <1>1, Invariance, PTL

-----------------------------------------------------------------------------
MoneyKeys ==
    ({"game_win"} \X Users \X Keys)
        \cup ({"checkin"} \X Users \X Days)
        \cup ({"admin_adjust"} \X Users \X StaffKeys)

KeyOf(r) == <<r.kind, r.user, r.id>>

\* A commit is one movement of the abstract ledger.
LEMMA CommitMoves ==
    ASSUME IInv, NEW p \in Procs, Commit(p)
    PROVE  \E u \in Users, a \in -AdjustMax..MaxInt, k \in MoneyKeys : Money!Move(u, a, k)
<1>1. PICK u \in Users, r \in Rows, new \in UserRows, s \in Sessions :
              Writes(p, u, r, new, s)
  BY CommitWrites
<1> USE DEF Writes
<1>2. /\ new.balance = users[u].balance + r.amount
      /\ r.user = u /\ r.kind = s.op /\ s.op \in Kinds
  BY <1>1 DEF Changes, Sessions
<1>3. users[u].balance \in 0..MaxInt /\ new.balance \in 0..MaxInt /\ r.amount \in Int
  BY DEF IInv, TypeOK, UserRows, Rows
<1>4. r.amount \in -AdjustMax..MaxInt
  BY <1>1, <1>2, <1>3, AdjustsAreInts, BoundsAreNat DEF Changes
<1>5. KeyOf(r) \in MoneyKeys
  <2>1. \/ r.kind = "game_win" /\ r.id \in Keys
        \/ r.kind = "checkin" /\ r.id \in Days
        \/ r.kind = "admin_adjust" /\ r.id \in StaffKeys
    BY <1>1, <1>2 DEF Asked, Changes, Kinds
  <2>2. QED
    BY <1>2, <2>1 DEF KeyOf, MoneyKeys
<1>6. ~Money!Known(KeyOf(r))
  BY <1>1, <1>2 DEF Money!Known, Known, KeyOf
<1>7. Money!Fits(u, r.amount)
  BY <1>2, <1>3 DEF Money!Fits
<1>8. \A v \in Users : users'[v].balance = users[v].balance + (IF v = u THEN r.amount ELSE 0)
  <2>1. \A v \in Users : users'[v] = IF v = u THEN new ELSE users[v]
    BY <1>1 DEF IInv, TypeOK
  <2>2. \A v \in Users : users[v].balance \in Int
    BY DEF IInv, TypeOK, UserRows
  <2>3. QED
    BY <1>2, <2>1, <2>2
<1>9. [v \in Users |-> users[v].balance]'
          = [[v \in Users |-> users[v].balance] EXCEPT ![u] = @ + r.amount]
  <2>1. PICK before : before = [v \in Users |-> users[v].balance]
    OBVIOUS
  <2>2. PICK after : after = [v \in Users |-> users'[v].balance]
    OBVIOUS
  <2>3. \A v \in Users : users[v].balance \in Int
    BY DEF IInv, TypeOK, UserRows
  <2>4. before \in [Users -> Int] /\ after \in [Users -> Int]
    BY <1>3, <1>8, <2>1, <2>2, <2>3
  <2>5. \A v \in Users : after[v] = before[v] + (IF v = u THEN r.amount ELSE 0)
    BY <1>8, <2>1, <2>2
  <2>6. after = [before EXCEPT ![u] = @ + r.amount]
    BY <2>4, <2>5
  <2>7. QED
    BY <2>1, <2>2, <2>6
<1>10. {[user |-> e.user, amount |-> e.amount, key |-> <<e.kind, e.user, e.id>>] : e \in ledger}'
           = {[user |-> e.user, amount |-> e.amount, key |-> <<e.kind, e.user, e.id>>] : e \in ledger}
                 \cup {Money!Entry(u, r.amount, KeyOf(r))}
  BY <1>1, <1>2 DEF Money!Entry, KeyOf
<1>11. Money!Move(u, r.amount, KeyOf(r))
  BY <1>6, <1>7, <1>9, <1>10 DEF Money!Move
<1>12. QED
  BY <1>4, <1>5, <1>11

\* Waits, midnights, caps and streaks add up to the ledger that takes every
\* movement in one step: claims, check-ins and adjustments keep what
\* app/ledger.py promises, within the amounts these operations may move.
THEOREM Refinement == Spec => RefinesAtomicLedger
<1>1. Init => Money!Init
  BY DEF Init, Money!Init
<1>2. IInv /\ [Next]_vars => [Money!Next]_(Money!vars)
  <2>1. SUFFICES ASSUME IInv, [Next]_vars PROVE [Money!Next]_(Money!vars)
    OBVIOUS
  <2>2. CASE \E p \in Procs : Commit(p)
    <3>1. PICK p \in Procs : Commit(p)
      BY <2>2
    <3>2. Money!Next
      BY <2>1, <3>1, CommitMoves DEF Money!Next, MoneyKeys
    <3>3. QED
      BY <3>2
  <2>3. CASE ~ \E p \in Procs : Commit(p)
    <3>1. UNCHANGED <<users, ledger>>
      BY <2>1, <2>3 DEF Next, vars, tables, Begin, ClaimBegin, CheckinBegin, AdjustBegin, LockUser,
                        Flushed, Claim, Replay, Checkin, AlreadyCheckedIn, Adjust, AdjustRefused,
                        Abort, Midnight
    <3>2. UNCHANGED Money!vars
      BY <3>1 DEF Money!vars
    <3>3. QED
      BY <3>2
  <2>4. QED
    BY <2>2, <2>3
<1>3. QED
  BY <1>1, <1>2, Invariance, PTL DEF Spec, RefinesAtomicLedger, Money!Spec

-----------------------------------------------------------------------------
\* Induction over the subsets of a finite set, the property given as the set
\* of those that have it.
LEMMA SubsetInduction ==
    ASSUME NEW S, IsFiniteSet(S), NEW Good \in SUBSET (SUBSET S),
           \A T \in SUBSET S : (\A U \in SUBSET T : U # T => U \in Good) => T \in Good
    PROVE  S \in Good
<1> SUFFICES ASSUME S \notin Good PROVE FALSE
  OBVIOUS
<1> DEFINE Bad == (SUBSET S) \ Good
<1>1. IsWellFoundedOn(StrictSubsetOrdering(S), SUBSET S)
  <2>1. FiniteSubsetsOf(S) = SUBSET S
    BY FS_FiniteSubsetsOfFinite
  <2>2. IsWellFoundedOn(StrictSubsetOrdering(S), FiniteSubsetsOf(S))
    BY FS_StrictSubsetOrderingWellFounded
  <2>3. QED
    BY <2>1, <2>2
<1>2. Bad \subseteq SUBSET S /\ Bad # {}
  OBVIOUS
<1>3. PICK T \in Bad : \A U \in Bad : <<U, T>> \notin StrictSubsetOrdering(S)
  <2> HIDE DEF Bad
  <2>1. QED
    BY <1>1, <1>2, WFMin
<1>4. \A U \in SUBSET T : U # T => U \in Good
  <2>1. SUFFICES ASSUME NEW U \in SUBSET T, U # T, U \in Bad PROVE FALSE
    OBVIOUS
  <2>2. <<U, T>> \in StrictSubsetOrdering(S)
    BY <2>1 DEF StrictSubsetOrdering
  <2>3. QED
    BY <1>3, <2>1, <2>2
<1>5. QED
  BY <1>3, <1>4

\* The sum that the caps are compared with.
Total(R) == MapThenSumSet(Coins, R)

OneOf(R) == CHOOSE r \in R : TRUE

\* f holds the sums of the subsets of R.
Sums(R, f) ==
    f = [T \in SUBSET R |-> IF T = {} THEN 0 ELSE OneOf(T).amount + f[T \ {OneOf(T)}]]

LEMMA TotalIsSum == ASSUME NEW R PROVE Total(R) = (CHOOSE f : Sums(R, f))[R]
BY DEF Total, MapThenSumSet, MapThenFoldSet, Coins, Sums, OneOf

LEMMA OneOfSet == ASSUME NEW T, T # {} PROVE OneOf(T) \in T
BY DEF OneOf

\* The sums of a finite set are the only ones of their kind.
LEMMA SumsAgree ==
    ASSUME NEW R, IsFiniteSet(R), NEW f, NEW Q \in SUBSET R, NEW g, Sums(R, f), Sums(Q, g)
    PROVE  f[Q] = g[Q]
<1> DEFINE Good == {T \in SUBSET Q : f[T] = g[T]}
<1>1. ASSUME NEW T \in SUBSET Q, \A U \in SUBSET T : U # T => U \in Good
      PROVE  T \in Good
  <2>1. CASE T = {}
    BY <2>1 DEF Sums
  <2>2. CASE T # {}
    <3>1. OneOf(T) \in T
      BY <2>2, OneOfSet
    <3>2. f[T \ {OneOf(T)}] = g[T \ {OneOf(T)}]
      BY <1>1, <3>1
    <3>3. /\ f[T] = OneOf(T).amount + f[T \ {OneOf(T)}]
          /\ g[T] = OneOf(T).amount + g[T \ {OneOf(T)}]
      BY <2>2 DEF Sums
    <3>4. QED
      BY <3>2, <3>3
  <2>3. QED
    BY <2>1, <2>2
<1>2. IsFiniteSet(Q) /\ Good \in SUBSET (SUBSET Q)
  BY FS_Subset
<1>3. Q \in Good
  <2> HIDE DEF Good
  <2>1. QED
    BY <1>1, <1>2, SubsetInduction
<1>4. QED
  BY <1>3

\* Every finite set has them: Total is what its recursion says.
LEMMA SumsExist ==
    ASSUME NEW R, IsFiniteSet(R)
    PROVE  \E f : Sums(R, f)
<1> DEFINE Good == {T \in SUBSET R : \E f : Sums(T, f)}
<1>1. ASSUME NEW T \in SUBSET R, \A U \in SUBSET T : U # T => U \in Good
      PROVE  T \in Good
  <2> DEFINE h == [U \in SUBSET T |-> IF U = {} THEN 0
                                      ELSE OneOf(U).amount + Total(U \ {OneOf(U)})]
  <2>1. ASSUME NEW U \in SUBSET T, U # T
        PROVE  /\ Sums(U, CHOOSE f : Sums(U, f))
               /\ Total(U) = (CHOOSE f : Sums(U, f))[U]
    BY <1>1, <2>1, TotalIsSum
  <2>2. ASSUME NEW U \in SUBSET T, U # T
        PROVE  h[U] = Total(U)
    <3>1. PICK g : g = CHOOSE f : Sums(U, f)
      OBVIOUS
    <3>2. Sums(U, g) /\ Total(U) = g[U]
      BY <2>1, <2>2, <3>1
    <3>3. CASE U = {}
      BY <3>2, <3>3 DEF Sums
    <3>4. CASE U # {}
      <4>1. PICK V : V = U \ {OneOf(U)}
        OBVIOUS
      <4>2. V \in SUBSET U /\ V # T /\ V # U
        BY <2>2, <3>4, <4>1, OneOfSet
      <4>3. PICK k : k = CHOOSE f : Sums(V, f)
        OBVIOUS
      <4>4. Sums(V, k) /\ Total(V) = k[V]
        BY <2>1, <4>2, <4>3
      <4>5. g[V] = k[V]
        <5>1. IsFiniteSet(U)
          BY <1>1, <2>2, FS_Subset
        <5>2. QED
          BY <3>2, <4>2, <4>4, <5>1, SumsAgree
      <4>6. g[U] = OneOf(U).amount + g[V]
        BY <3>2, <3>4, <4>1 DEF Sums
      <4>7. h[U] = OneOf(U).amount + Total(V)
        BY <2>2, <3>4, <4>1
      <4>8. QED
        BY <3>2, <4>4, <4>5, <4>6, <4>7
    <3>5. QED
      BY <3>3, <3>4
  <2>3. Sums(T, h)
    <3>1. ASSUME NEW U \in SUBSET T, U # {}
          PROVE  Total(U \ {OneOf(U)}) = h[U \ {OneOf(U)}]
      <4>1. U \ {OneOf(U)} \in SUBSET T /\ U \ {OneOf(U)} # T
        BY <3>1, OneOfSet
      <4> HIDE DEF h
      <4>2. QED
        BY <2>2, <4>1
    <3>2. \A U \in SUBSET T : h[U] = IF U = {} THEN 0
                                      ELSE OneOf(U).amount + h[U \ {OneOf(U)}]
      <4>1. SUFFICES ASSUME NEW U \in SUBSET T
                     PROVE  h[U] = IF U = {} THEN 0 ELSE OneOf(U).amount + h[U \ {OneOf(U)}]
        OBVIOUS
      <4>2. h[U] = IF U = {} THEN 0 ELSE OneOf(U).amount + Total(U \ {OneOf(U)})
        OBVIOUS
      <4>3. QED
        <5> HIDE DEF h
        <5>1. QED
          BY <3>1, <4>2
    <3>3. h = [U \in SUBSET T |-> h[U]]
      OBVIOUS
    <3>4. QED
      <4> HIDE DEF h
      <4>1. QED
        BY <3>2, <3>3 DEF Sums
  <2>4. QED
    <3> HIDE DEF h
    <3>1. QED
      BY <1>1, <2>3
<1>2. Good \in SUBSET (SUBSET R)
  OBVIOUS
<1>3. R \in Good
  <2> HIDE DEF Good
  <2>1. QED
    BY <1>1, <1>2, SubsetInduction
<1>4. QED
  BY <1>3

LEMMA TotalOfNone == Total({}) = 0
<1>1. PICK g : g = CHOOSE f : Sums({}, f)
  OBVIOUS
<1>2. Sums({}, g) /\ Total({}) = g[{}]
  BY <1>1, FS_EmptySet, SumsExist, TotalIsSum
<1>3. QED
  BY <1>2 DEF Sums

\* The recursion, one step.
LEMMA TotalStep ==
    ASSUME NEW R, IsFiniteSet(R), R # {}
    PROVE  Total(R) = OneOf(R).amount + Total(R \ {OneOf(R)})
<1>1. PICK Q : Q = R \ {OneOf(R)}
  OBVIOUS
<1>2. Q \in SUBSET R /\ IsFiniteSet(Q)
  BY <1>1, FS_Subset
<1>3. PICK f, g : f = (CHOOSE k : Sums(R, k)) /\ g = (CHOOSE k : Sums(Q, k))
  OBVIOUS
<1>4. Sums(R, f) /\ Total(R) = f[R] /\ Sums(Q, g) /\ Total(Q) = g[Q]
  BY <1>2, <1>3, SumsExist, TotalIsSum
<1>5. f[Q] = g[Q]
  BY <1>2, <1>4, SumsAgree
<1>6. f[R] = OneOf(R).amount + f[Q]
  BY <1>1, <1>4 DEF Sums
<1>7. QED
  BY <1>1, <1>4, <1>5, <1>6

LEMMA TotalIsInt ==
    ASSUME NEW R \in SUBSET Rows, IsFiniteSet(R)
    PROVE  Total(R) \in Int
<1> DEFINE Good == {T \in SUBSET R : Total(T) \in Int}
<1>1. ASSUME NEW T \in SUBSET R, \A U \in SUBSET T : U # T => U \in Good
      PROVE  T \in Good
  <2>1. CASE T = {}
    BY <2>1, TotalOfNone
  <2>2. CASE T # {}
    <3>1. OneOf(T) \in T /\ OneOf(T).amount \in Int
      BY <2>2, OneOfSet DEF Rows
    <3>2. Total(T \ {OneOf(T)}) \in Int
      BY <1>1, <3>1
    <3>3. Total(T) = OneOf(T).amount + Total(T \ {OneOf(T)})
      BY <2>2, FS_Subset, TotalStep
    <3>4. QED
      BY <3>1, <3>2, <3>3
  <2>3. QED
    BY <2>1, <2>2
<1>2. Good \in SUBSET (SUBSET R)
  OBVIOUS
<1>3. R \in Good
  <2> HIDE DEF Good
  <2>1. QED
    BY <1>1, <1>2, SubsetInduction
<1>4. QED
  BY <1>3

\* Any row may be taken out first.
LEMMA TotalWithout ==
    ASSUME NEW R \in SUBSET Rows, IsFiniteSet(R), NEW x \in R
    PROVE  Total(R) = x.amount + Total(R \ {x})
<1> DEFINE Good == {T \in SUBSET R : \A y \in T : Total(T) = y.amount + Total(T \ {y})}
<1>1. ASSUME NEW T \in SUBSET R, \A U \in SUBSET T : U # T => U \in Good
      PROVE  T \in Good
  <2>1. SUFFICES ASSUME NEW y \in T PROVE Total(T) = y.amount + Total(T \ {y})
    BY <1>1
  <2>2. PICK z \in T : z = OneOf(T)
    BY OneOfSet
  <2>3. \A U \in SUBSET T : IsFiniteSet(U) /\ Total(U) \in Int
    BY <1>1, FS_Subset, TotalIsInt
  <2>4. Total(T) = z.amount + Total(T \ {z})
    BY <2>2, <2>3, TotalStep
  <2>5. CASE y = z
    BY <2>4, <2>5
  <2>6. CASE y # z
    <3>1. PICK Q : Q = (T \ {z}) \ {y} /\ Q = (T \ {y}) \ {z}
      OBVIOUS
    <3>2. T \ {z} \in Good /\ y \in T \ {z} /\ T \ {y} \in Good /\ z \in T \ {y}
      BY <1>1, <2>6
    <3>3. Total(T \ {z}) = y.amount + Total(Q) /\ Total(T \ {y}) = z.amount + Total(Q)
      BY <3>1, <3>2
    <3>4. y.amount \in Int /\ z.amount \in Int /\ Total(Q) \in Int
      BY <2>3, <3>1 DEF Rows
    <3>5. QED
      BY <2>4, <3>3, <3>4
  <2>7. QED
    BY <2>5, <2>6
<1>2. Good \in SUBSET (SUBSET R)
  OBVIOUS
<1>3. R \in Good
  <2> HIDE DEF Good
  <2>1. QED
    BY <1>1, <1>2, SubsetInduction
<1>4. QED
  BY <1>3


\* Of rows that credit coins, some add up to no more than all: rows without
\* credit need not be among them.
LEMMA CreditsAreNat ==
    ASSUME NEW R \in SUBSET Rows, IsFiniteSet(R), \A r \in R : r.amount >= 0
    PROVE  Total(R) \in Nat
<1> DEFINE Good == {T \in SUBSET R : Total(T) \in Nat}
<1>1. ASSUME NEW T \in SUBSET R, \A U \in SUBSET T : U # T => U \in Good
      PROVE  T \in Good
  <2>1. CASE T = {}
    BY <2>1, TotalOfNone
  <2>2. CASE T # {}
    <3>1. PICK x \in T : x.amount \in Nat
      BY <2>2 DEF Rows
    <3>2. Total(T \ {x}) \in Nat
      BY <1>1, <3>1
    <3>3. Total(T) = x.amount + Total(T \ {x})
      BY FS_Subset, TotalWithout
    <3>4. QED
      BY <3>1, <3>2, <3>3
  <2>3. QED
    BY <2>1, <2>2
<1>2. Good \in SUBSET (SUBSET R)
  OBVIOUS
<1>3. R \in Good
  <2> HIDE DEF Good
  <2>1. QED
    BY <1>1, <1>2, SubsetInduction
<1>4. QED
  BY <1>3

LEMMA TotalWithin ==
    ASSUME NEW S \in SUBSET Rows, IsFiniteSet(S), NEW R \in SUBSET Rows, IsFiniteSet(R),
           \A r \in R : r.amount >= 0, \A r \in S : r.amount <= 0 \/ r \in R
    PROVE  Total(S) <= Total(R)
<1> DEFINE Good == {A \in SUBSET S : \A B \in SUBSET R :
                       (\A r \in A : r.amount <= 0 \/ r \in B) => Total(A) <= Total(B)}
<1>1. ASSUME NEW T \in SUBSET S, \A U \in SUBSET T : U # T => U \in Good
      PROVE  T \in Good
  <2>1. SUFFICES ASSUME NEW B \in SUBSET R, \A r \in T : r.amount <= 0 \/ r \in B
                 PROVE  Total(T) <= Total(B)
    BY <1>1
  <2>2. IsFiniteSet(T) /\ IsFiniteSet(B) /\ Total(B) \in Nat
    BY FS_Subset, CreditsAreNat
  <2>3. CASE T = {}
    BY <2>2, <2>3, TotalOfNone
  <2>4. CASE T # {}
    <3>1. PICK x \in T : x.amount \in Int
      BY <2>4 DEF Rows
    <3>2. Total(T) = x.amount + Total(T \ {x}) /\ Total(T \ {x}) \in Int
      <4>1. T \ {x} \in SUBSET Rows /\ IsFiniteSet(T \ {x})
        BY <2>2, FS_RemoveElement
      <4>2. QED
        BY <2>2, <4>1, TotalWithout, TotalIsInt
    <3>3. T \ {x} \in Good
      BY <1>1
    <3>4. CASE x.amount <= 0
      <4>1. Total(T \ {x}) <= Total(B)
        BY <2>1, <3>3
      <4>2. QED
        BY <2>2, <3>1, <3>2, <3>4, <4>1
    <3>5. CASE ~(x.amount <= 0)
      <4>1. x \in B
        BY <2>1, <3>5
      <4>2. Total(B) = x.amount + Total(B \ {x}) /\ Total(B \ {x}) \in Int
        <5>1. B \ {x} \in SUBSET Rows /\ IsFiniteSet(B \ {x})
          BY <2>2, FS_RemoveElement
        <5>2. QED
          BY <2>2, <4>1, <5>1, TotalWithout, TotalIsInt
      <4>3. Total(T \ {x}) <= Total(B \ {x})
        BY <2>1, <3>3
      <4>4. QED
        BY <3>1, <3>2, <4>2, <4>3
    <3>6. QED
      BY <3>4, <3>5
  <2>5. QED
    BY <2>3, <2>4
<1>2. Good \in SUBSET (SUBSET S)
  OBVIOUS
<1>3. S \in Good
  <2> HIDE DEF Good
  <2>1. QED
    BY <1>1, <1>2, SubsetInduction
<1>4. QED
  BY <1>3

\* One row more.
LEMMA TotalPlus ==
    ASSUME NEW R \in SUBSET Rows, IsFiniteSet(R), NEW x \in Rows, x \notin R
    PROVE  Total(R \cup {x}) = Total(R) + x.amount /\ Total(R) \in Int
<1>1. /\ R \cup {x} \in SUBSET Rows /\ IsFiniteSet(R \cup {x}) /\ (R \cup {x}) \ {x} = R
      /\ x.amount \in Int
  BY FS_AddElement DEF Rows
<1>2. Total(R \cup {x}) = x.amount + Total(R) /\ Total(R) \in Int
  BY <1>1, TotalWithout, TotalIsInt
<1>3. QED
  BY <1>1, <1>2

-----------------------------------------------------------------------------
Earned(rs, u, d, kinds) ==
    {r \in rs : r.user = u /\ r.kind \in kinds /\ r.amount > 0 /\ r.day >= d}

FreshWins(rs, u, d) ==
    {r \in rs : r.user = u /\ r.kind = "game_win" /\ r.day = d /\ r.decided = d}

\* A claim that has flushed coins found room for them, and under the lock of
\* its user the room stays.
HasRoom(p) ==
    LET r == session[p].row IN
    pc[p] = "flushed" /\ session[p].op = "game_win" =>
        /\ r.amount >= 0
        /\ r.amount > 0 =>
              /\ CreditedSince(r.user, r.decided, {"game_win"}) + r.amount <= GameCap
              /\ CreditedSince(r.user, r.decided, EarningKinds) + r.amount <= TotalCap

WinsAreCredits == \A r \in ledger : r.kind = "game_win" => r.amount >= 0

CapInv ==
    /\ IInv
    /\ \A p \in Procs : HasRoom(p)
    /\ WinsAreCredits
    /\ FreshClaimsCapped

\* The sums of the model, as totals.
LEMMA CreditedIsTotal ==
    ASSUME NEW u, NEW d, NEW kinds
    PROVE  /\ CreditedSince(u, d, kinds) = Total(Earned(ledger, u, d, kinds))
           /\ CreditedSince(u, d, kinds)' = Total(Earned(ledger', u, d, kinds))
<1>1. CreditedSince(u, d, kinds) = Total(Earned(ledger, u, d, kinds))
  BY DEF CreditedSince, Total, Earned
<1>2. CreditedSince(u, d, kinds)' = Total(Earned(ledger, u, d, kinds))'
  BY DEF CreditedSince, Total, Earned
<1>3. Total(Earned(ledger, u, d, kinds))' = Total(Earned(ledger', u, d, kinds))
  OBVIOUS
<1>4. QED
  BY <1>1, <1>2, <1>3

LEMMA FreshIsTotal ==
    /\ FreshClaimsCapped <=>
          \A u \in Users, d \in Days : Total(FreshWins(ledger, u, d)) <= GameCap
    /\ FreshClaimsCapped' <=>
          \A u \in Users, d \in Days : Total(FreshWins(ledger', u, d)) <= GameCap
<1>1. FreshClaimsCapped <=>
          \A u \in Users, d \in Days : Total(FreshWins(ledger, u, d)) <= GameCap
  BY DEF FreshClaimsCapped, Total, FreshWins
<1>2. FreshClaimsCapped' <=>
          (\A u \in Users, d \in Days : Total(FreshWins(ledger, u, d)) <= GameCap)'
  BY DEF FreshClaimsCapped, Total, FreshWins
<1>3. QED
  BY <1>1, <1>2

LEMMA PartsOfLedger ==
    ASSUME IInv, NEW u, NEW d, NEW kinds
    PROVE  /\ Earned(ledger, u, d, kinds) \in SUBSET Rows
           /\ IsFiniteSet(Earned(ledger, u, d, kinds))
           /\ FreshWins(ledger, u, d) \in SUBSET Rows
           /\ IsFiniteSet(FreshWins(ledger, u, d))
           /\ Total(Earned(ledger, u, d, kinds)) \in Int
           /\ Total(FreshWins(ledger, u, d)) \in Int
<1>1. ledger \subseteq Rows /\ IsFiniteSet(ledger)
  BY DEF IInv, TypeOK, Books
<1>2. Earned(ledger, u, d, kinds) \in SUBSET ledger /\ FreshWins(ledger, u, d) \in SUBSET ledger
  BY DEF Earned, FreshWins
<1>3. IsFiniteSet(Earned(ledger, u, d, kinds)) /\ IsFiniteSet(FreshWins(ledger, u, d))
  BY <1>1, <1>2, FS_Subset
<1>4. QED
  BY <1>1, <1>2, <1>3, TotalIsInt

\* claim_game_win() pays what both caps leave, or nothing.
LEMMA AwardedFits ==
    ASSUME IInv, NEW u \in Users, NEW prize \in Nat
    PROVE  /\ Awarded(u, prize) \in Nat
           /\ Awarded(u, prize) > 0 =>
                 /\ CreditedSince(u, today, {"game_win"}) + Awarded(u, prize) <= GameCap
                 /\ CreditedSince(u, today, EarningKinds) + Awarded(u, prize) <= TotalCap
<1>1. PICK c \in Int, e \in Int : /\ c = CreditedSince(u, today, {"game_win"})
                                  /\ e = CreditedSince(u, today, EarningKinds)
  BY CreditedIsTotal, PartsOfLedger
<1>2. Awarded(u, prize) = MinOf(MinOf(prize, Room(GameCap, c)), Room(TotalCap, e))
  BY <1>1 DEF Awarded
<1>3. QED
  BY <1>1, <1>2, CapsAreNat DEF MinOf, Room

-----------------------------------------------------------------------------
\* Nothing is written, and no claim flushes.
LEMMA QuietCaps ==
    ASSUME CapInv, IInv', UNCHANGED ledger,
           \A q \in Procs : HasRoom(q)'
    PROVE  CapInv'
<1>1. WinsAreCredits'
  BY DEF CapInv, WinsAreCredits
<1>2. FreshClaimsCapped'
  BY FreshIsTotal DEF CapInv
<1>3. QED
  BY <1>1, <1>2 DEF CapInv

LEMMA RoomKept ==
    ASSUME CapInv, UNCHANGED ledger, NEW q \in Procs,
           pc'[q] = pc[q] /\ session'[q] = session[q]
    PROVE  HasRoom(q)'
<1>1. HasRoom(q)
  BY DEF CapInv
<1>2. \A u, d, kinds : CreditedSince(u, d, kinds)' = CreditedSince(u, d, kinds)
  BY CreditedIsTotal
<1>3. QED
  BY <1>1, <1>2 DEF HasRoom

\* One process moves on, without a claim of its own flushed.
LEMMA OtherStepCaps ==
    ASSUME CapInv, IInv', UNCHANGED ledger, NEW p \in Procs,
           \A q \in Procs \ {p} : pc'[q] = pc[q] /\ session'[q] = session[q],
           pc'[p] # "flushed" \/ session'[p].op # "game_win"
    PROVE  CapInv'
<1>1. HasRoom(p)'
  BY DEF HasRoom
<1>2. QED
  BY <1>1, RoomKept, QuietCaps

LEMMA ClaimCaps ==
    ASSUME CapInv, IInv', NEW p \in Procs, Claim(p)
    PROVE  CapInv'
<1>1. PICK a \in 0..session[p].amount :
          /\ Working(p, "game_win")
          /\ a = Awarded(session[p].user, session[p].amount)
          /\ \E user : Flushed(p, user, Row("game_win", session[p].user, session[p].id, a,
                                            session[p].amount, session[p].start))
  BY DEF Claim
<1>2. /\ session[p] \in Sessions /\ session[p].user \in Users /\ session[p].op = "game_win"
      /\ session[p].amount \in Nat
  BY <1>1, AtWork DEF CapInv, Kinds, Asked
<1>3. PICK r : r = Row("game_win", session[p].user, session[p].id, a, session[p].amount,
                         session[p].start)
  OBVIOUS
<1>4. r.user = session[p].user /\ r.amount = a /\ r.decided = today
  BY <1>3 DEF Row
<1>5. /\ \A q \in Procs \ {p} : pc'[q] = pc[q] /\ session'[q] = session[q]
      /\ session'[p].row = r /\ UNCHANGED <<ledger, today>>
  BY <1>1, <1>2, <1>3 DEF Flushed, CapInv, IInv, TypeOK, tables, Sessions
<1>6. /\ a \in Nat
      /\ a > 0 => /\ CreditedSince(r.user, r.decided, {"game_win"}) + a <= GameCap
                  /\ CreditedSince(r.user, r.decided, EarningKinds) + a <= TotalCap
  BY <1>1, <1>2, <1>4, AwardedFits DEF CapInv
<1>7. \A u, d, kinds : CreditedSince(u, d, kinds)' = CreditedSince(u, d, kinds)
  BY <1>5, CreditedIsTotal
<1>8. HasRoom(p)'
  BY <1>4, <1>5, <1>6, <1>7 DEF HasRoom
<1>9. QED
  BY <1>5, <1>8, RoomKept, QuietCaps

-----------------------------------------------------------------------------
\* A row that is not the user's leaves what the user earned alone.
LEMMA EarnedOfOthers ==
    ASSUME NEW r, NEW u, r.user # u, ledger' = ledger \cup {r}, NEW d, NEW kinds
    PROVE  CreditedSince(u, d, kinds)' = CreditedSince(u, d, kinds)
<1>1. Earned(ledger', u, d, kinds) = Earned(ledger, u, d, kinds)
  BY DEF Earned
<1>2. QED
  BY <1>1, CreditedIsTotal

\* A row adds its coins, or does not count.
LEMMA EarnedByEntry ==
    ASSUME IInv, NEW r \in Rows, r \notin ledger, ledger' = ledger \cup {r},
           r.amount > 0, NEW u, NEW d, NEW kinds
    PROVE  CreditedSince(u, d, kinds)' <= CreditedSince(u, d, kinds) + r.amount
<1>1. PICK E \in SUBSET Rows : E = Earned(ledger, u, d, kinds)
  BY PartsOfLedger
<1>2. IsFiniteSet(E)
  BY <1>1, PartsOfLedger
<1>3. r \notin E
  BY <1>1 DEF Earned
<1>4. PICK a \in Int, b \in Int : a = Total(E) /\ b = r.amount /\ b > 0 /\ Total(E \cup {r}) = a + b
  <2>1. Total(E \cup {r}) = Total(E) + r.amount /\ Total(E) \in Int /\ r.amount \in Int
    BY <1>2, <1>3, TotalPlus DEF Rows
  <2>2. QED
    BY <2>1
<1>5. Earned(ledger', u, d, kinds) = E \/ Earned(ledger', u, d, kinds) = E \cup {r}
  BY <1>1 DEF Earned
<1>6. Total(Earned(ledger', u, d, kinds)) = a \/ Total(Earned(ledger', u, d, kinds)) = a + b
  BY <1>4, <1>5
<1>7. CreditedSince(u, d, kinds) = a
  BY <1>1, <1>4, CreditedIsTotal
<1>8. CreditedSince(u, d, kinds)' = Total(Earned(ledger', u, d, kinds))
  BY CreditedIsTotal
<1>9. QED
  BY <1>4, <1>6, <1>7, <1>8

\* The fresh wins of a day are among what was won since it began.
LEMMA FreshWithinEarned ==
    ASSUME CapInv, NEW u, NEW d \in Days
    PROVE  Total(FreshWins(ledger, u, d)) <= CreditedSince(u, d, {"game_win"})
<1>1. PICK F \in SUBSET Rows, E \in SUBSET Rows :
          F = FreshWins(ledger, u, d) /\ E = Earned(ledger, u, d, {"game_win"})
  BY PartsOfLedger DEF CapInv
<1>2. IsFiniteSet(F) /\ IsFiniteSet(E)
  BY <1>1, PartsOfLedger DEF CapInv
<1>3. d >= d
  BY DEF Days
<1>4. \A r \in F : r.amount <= 0 \/ r \in E
  BY <1>1, <1>3 DEF FreshWins, Earned, Rows
<1>5. \A r \in E : r.amount >= 0
  BY <1>1 DEF Earned, Rows
<1>6. Total(F) <= Total(E)
  BY <1>2, <1>4, <1>5, TotalWithin
<1>7. QED
  BY <1>1, <1>6, CreditedIsTotal

\* The row of a commit and what its claim found.
LEMMA CommitFits ==
    ASSUME CapInv, NEW p \in Procs, Commit(p)
    PROVE  \E u \in Users, r \in Rows :
              /\ userLock[u] = p /\ r.user = u /\ r \notin ledger
              /\ ledger' = ledger \cup {r}
              /\ r.kind = "game_win" =>
                    /\ r.amount >= 0
                    /\ r.amount > 0 =>
                          /\ CreditedSince(u, r.decided, {"game_win"}) + r.amount <= GameCap
                          /\ CreditedSince(u, r.decided, EarningKinds) + r.amount <= TotalCap
<1>1. PICK u \in Users, r \in Rows, new \in UserRows, s \in Sessions : Writes(p, u, r, new, s)
  BY CommitWrites DEF CapInv
<1>2. /\ s = session[p] /\ pc[p] = "flushed" /\ userLock[u] = p /\ r \notin ledger
      /\ ledger' = ledger \cup {r} /\ r.user = u /\ r.kind = s.op
  BY <1>1 DEF Writes, Changes
<1>3. r = s.row
  <2>1. s.row \in Rows
    BY <1>2 DEF CapInv, IInv, Knows
  <2>2. ledger' = ledger \cup {s.row}
    BY <1>2, <2>1, NoneIsNoRow DEF Commit, NewRows
  <2>3. QED
    BY <1>2, <2>2
<1>4. HasRoom(p)
  BY DEF CapInv
<1>5. QED
  BY <1>2, <1>3, <1>4 DEF HasRoom

LEMMA CommitCaps ==
    ASSUME CapInv, IInv', NEW p \in Procs, Commit(p)
    PROVE  CapInv'
<1>1. PICK u \in Users, r \in Rows :
          /\ userLock[u] = p /\ r.user = u /\ r \notin ledger
          /\ ledger' = ledger \cup {r}
          /\ r.kind = "game_win" =>
                /\ r.amount >= 0
                /\ r.amount > 0 =>
                      /\ CreditedSince(u, r.decided, {"game_win"}) + r.amount <= GameCap
                      /\ CreditedSince(u, r.decided, EarningKinds) + r.amount <= TotalCap
  BY CommitFits
<1>2. WinsAreCredits'
  BY <1>1 DEF CapInv, WinsAreCredits
<1>3. FreshClaimsCapped'
  <2>1. ASSUME NEW v \in Users, NEW d \in Days
        PROVE  Total(FreshWins(ledger', v, d)) <= GameCap
    <3>1. PICK F \in SUBSET Rows : F = FreshWins(ledger, v, d)
      BY PartsOfLedger DEF CapInv
    <3>2. IsFiniteSet(F) /\ Total(F) \in Int /\ Total(F) <= GameCap
      BY <3>1, PartsOfLedger, FreshIsTotal DEF CapInv
    <3>3. CASE FreshWins(ledger', v, d) = F
      BY <3>2, <3>3
    <3>4. CASE FreshWins(ledger', v, d) # F
      <4>1. /\ v = u /\ r.kind = "game_win" /\ r.decided = d
            /\ FreshWins(ledger', v, d) = F \cup {r}
        <5>1. v = u /\ r.kind = "game_win" /\ r.day = d /\ r.decided = d
          BY <1>1, <3>1, <3>4 DEF FreshWins
        <5>2. FreshWins(ledger', v, d) = F \cup {r}
          BY <1>1, <3>1, <5>1 DEF FreshWins
        <5>3. QED
          BY <5>1, <5>2
      <4>2. r \notin F /\ r.amount \in Int
        BY <1>1, <3>1 DEF FreshWins, Rows
      <4>3. Total(F \cup {r}) = Total(F) + r.amount
        BY <3>2, <4>2, TotalPlus
      <4>4. CASE r.amount > 0
        <5>1. PICK c \in Int : c = CreditedSince(u, d, {"game_win"})
          BY CreditedIsTotal, PartsOfLedger DEF CapInv
        <5>2. Total(F) <= c
          BY <3>1, <4>1, <5>1, FreshWithinEarned
        <5>3. c + r.amount <= GameCap
          BY <1>1, <4>1, <4>4, <5>1
        <5>4. QED
          BY <3>2, <4>1, <4>2, <4>3, <5>2, <5>3, CapsAreNat
      <4>5. CASE ~(r.amount > 0)
        <5>1. r.amount = 0
          BY <1>1, <4>1, <4>2, <4>5
        <5>2. QED
          BY <3>2, <4>1, <4>3, <5>1
      <4>6. QED
        BY <4>4, <4>5
    <3>5. QED
      BY <3>3, <3>4
  <2>2. QED
    BY <2>1, FreshIsTotal
<1>4. ASSUME NEW q \in Procs PROVE HasRoom(q)'
  <2>1. CASE q = p
    <3>1. pc'[p] = "idle"
      BY DEF Commit, Finish, CapInv, IInv, TypeOK
    <3>2. QED
      BY <2>1, <3>1 DEF HasRoom
  <2>2. CASE q # p
    <3>1. pc'[q] = pc[q] /\ session'[q] = session[q] /\ HasRoom(q) /\ Knows(q)
      BY <2>2 DEF Commit, Finish, CapInv, IInv, TypeOK
    <3>2. CASE pc[q] # "flushed"
      BY <3>1, <3>2 DEF HasRoom
    <3>3. CASE pc[q] = "flushed"
      <4>1. PICK e : e = session[q].row /\ userLock[e.user] = q
        BY <3>1, <3>3 DEF Knows, Changes
      <4>2. e.user # u
        BY <1>1, <2>2, <4>1
      <4>3. \A d, kinds : CreditedSince(e.user, d, kinds)' = CreditedSince(e.user, d, kinds)
        BY <1>1, <4>2, EarnedOfOthers
      <4>4. QED
        BY <3>1, <4>1, <4>3 DEF HasRoom
    <3>4. QED
      BY <3>2, <3>3
  <2>3. QED
    BY <2>1, <2>2
<1>5. QED
  BY <1>2, <1>3, <1>4 DEF CapInv

-----------------------------------------------------------------------------
LEMMA FlushOtherCaps ==
    ASSUME CapInv, IInv', NEW p \in Procs, Checkin(p) \/ Adjust(p)
    PROVE  CapInv'
<1>1. PICK user, row : Flushed(p, user, row)
  BY DEF Checkin, Adjust
<1>2. pc[p] = "locked" /\ session[p].op # "game_win" /\ session[p] \in Sessions
  BY DEF Checkin, Adjust, Working, CapInv, IInv, TypeOK
<1>3. /\ \A q \in Procs \ {p} : pc'[q] = pc[q] /\ session'[q] = session[q]
      /\ session'[p] = [session[p] EXCEPT !.found = user, !.row = row]
      /\ UNCHANGED ledger
  BY <1>1 DEF Flushed, tables, CapInv, IInv, TypeOK
<1>4. session'[p].op # "game_win"
  BY <1>2, <1>3 DEF Sessions
<1>5. QED
  BY <1>3, <1>4, OtherStepCaps

LEMMA EndCaps ==
    ASSUME CapInv, IInv', NEW p \in Procs, Finish(p), UNCHANGED ledger
    PROVE  CapInv'
<1>1. /\ \A q \in Procs \ {p} : pc'[q] = pc[q] /\ session'[q] = session[q]
      /\ pc'[p] = "idle"
  BY DEF Finish, CapInv, IInv, TypeOK
<1>2. QED
  BY <1>1, OtherStepCaps

LEMMA BeginCaps ==
    ASSUME CapInv, IInv', NEW p \in Procs,
           LockUser(p) \/ \E op, u, id, a : Begin(p, op, u, id, a)
    PROVE  CapInv'
<1>1. /\ \A q \in Procs \ {p} : pc'[q] = pc[q] /\ session'[q] = session[q]
      /\ pc'[p] # "flushed" /\ UNCHANGED ledger
  <2>1. CASE LockUser(p)
    BY <2>1 DEF LockUser, tables, CapInv, IInv, TypeOK
  <2>2. CASE \E op, u, id, a : Begin(p, op, u, id, a)
    BY <2>2 DEF Begin, tables, CapInv, IInv, TypeOK
  <2>3. QED
    BY <2>1, <2>2
<1>2. QED
  BY <1>1, OtherStepCaps

LEMMA InitCaps == Init => CapInv
<1> SUFFICES ASSUME Init PROVE CapInv
  OBVIOUS
<1>1. ledger = {} /\ \A p \in Procs : pc[p] = "idle"
  BY DEF Init
<1>2. (\A p \in Procs : HasRoom(p)) /\ WinsAreCredits
  BY <1>1 DEF HasRoom, WinsAreCredits
<1>3. \A u \in Users, d \in Days : FreshWins(ledger, u, d) = {}
  BY <1>1 DEF FreshWins
<1>4. FreshClaimsCapped
  BY <1>3, TotalOfNone, FreshIsTotal, CapsAreNat
<1>5. QED
  BY <1>2, <1>4, InitInv DEF CapInv

LEMMA NextCaps == CapInv /\ [Next]_vars => CapInv'
<1> SUFFICES ASSUME CapInv, [Next]_vars PROVE CapInv'
  OBVIOUS
<1>1. IInv'
  BY NextInv DEF CapInv
<1>2. CASE UNCHANGED vars
  <2>1. UNCHANGED <<ledger, pc, session>>
    BY <1>2 DEF vars, tables
  <2>2. QED
    BY <1>1, <2>1, RoomKept, QuietCaps
<1>3. ASSUME NEW p \in Procs, LockUser(p) \/ \E op, u, id, a : Begin(p, op, u, id, a)
      PROVE  CapInv'
  BY <1>1, <1>3, BeginCaps
<1>4. ASSUME NEW p \in Procs, Claim(p) PROVE CapInv'
  BY <1>1, <1>4, ClaimCaps
<1>5. ASSUME NEW p \in Procs, Checkin(p) \/ Adjust(p) PROVE CapInv'
  BY <1>1, <1>5, FlushOtherCaps
<1>6. ASSUME NEW p \in Procs, Commit(p) PROVE CapInv'
  BY <1>1, <1>6, CommitCaps
<1>7. ASSUME NEW p \in Procs, Replay(p) \/ AlreadyCheckedIn(p) \/ AdjustRefused(p) \/ Abort(p)
      PROVE  CapInv'
  <2>1. Finish(p) /\ UNCHANGED ledger
    BY <1>7 DEF Replay, AlreadyCheckedIn, AdjustRefused, Abort, tables
  <2>2. QED
    BY <1>1, <2>1, EndCaps
<1>8. CASE Midnight
  <2>1. UNCHANGED <<ledger, pc, session>>
    BY <1>8 DEF Midnight, tables
  <2>2. QED
    BY <1>1, <2>1, RoomKept, QuietCaps
<1>9. ASSUME NEW p \in Procs,
             \/ \E u \in Users, k \in Keys, a \in Prizes : ClaimBegin(p, u, k, a)
             \/ \E u \in Users : CheckinBegin(p, u)
             \/ \E u \in Users, k \in StaffKeys, a \in Adjusts : AdjustBegin(p, u, k, a)
      PROVE  \E op, u, id, a : Begin(p, op, u, id, a)
  BY <1>9 DEF ClaimBegin, CheckinBegin, AdjustBegin
<1>10. QED
  BY <1>2, <1>3, <1>4, <1>5, <1>6, <1>7, <1>8, <1>9 DEF Next

LEMMA AlwaysCapped == Spec => []CapInv
  BY InitCaps, NextCaps, PTL DEF Spec

\* claim_game_win(): the wins that began and were decided on one day are
\* within daily_game_win_cap, however claims overlap.
THEOREM WinsWithinCap == Spec => []FreshClaimsCapped
<1>1. CapInv => FreshClaimsCapped
  BY DEF CapInv
<1>2. QED
  BY <1>1, AlwaysCapped, PTL

\* Only a commit adds rows.
LEMMA RowsByCommit ==
    ASSUME [Next]_vars
    PROVE  UNCHANGED ledger \/ \E p \in Procs : Commit(p)
<1>1. ASSUME NEW p \in Procs, \/ LockUser(p) \/ Claim(p) \/ Replay(p) \/ Checkin(p)
                              \/ AlreadyCheckedIn(p) \/ Adjust(p) \/ AdjustRefused(p) \/ Abort(p)
      PROVE  UNCHANGED ledger
  BY <1>1 DEF LockUser, Claim, Replay, Checkin, AlreadyCheckedIn, Adjust, AdjustRefused, Abort,
              Flushed, tables
<1>2. ASSUME NEW p \in Procs,
             \/ \E u \in Users, k \in Keys, a \in Prizes : ClaimBegin(p, u, k, a)
             \/ \E u \in Users : CheckinBegin(p, u)
             \/ \E u \in Users, k \in StaffKeys, a \in Adjusts : AdjustBegin(p, u, k, a)
      PROVE  UNCHANGED ledger
  BY <1>2 DEF ClaimBegin, CheckinBegin, AdjustBegin, Begin, tables
<1>3. ASSUME Midnight \/ UNCHANGED vars PROVE UNCHANGED ledger
  BY <1>3 DEF Midnight, vars, tables
<1>4. QED
  BY <1>1, <1>2, <1>3 DEF Next

LEMMA PaidStep ==
    ASSUME CapInv, [Next]_vars, NEW e \in ledger' \ ledger, e.kind = "game_win", e.amount > 0
    PROVE  CreditedSince(e.user, e.decided, {"game_win", "checkin"})' <= TotalCap
<1>1. PICK p \in Procs : Commit(p)
  BY RowsByCommit
<1>2. PICK u \in Users, r \in Rows :
          /\ userLock[u] = p /\ r.user = u /\ r \notin ledger
          /\ ledger' = ledger \cup {r}
          /\ r.kind = "game_win" =>
                /\ r.amount >= 0
                /\ r.amount > 0 =>
                      /\ CreditedSince(u, r.decided, {"game_win"}) + r.amount <= GameCap
                      /\ CreditedSince(u, r.decided, EarningKinds) + r.amount <= TotalCap
  BY <1>1, CommitFits
<1>3. e = r
  BY <1>2
<1>4. PICK c \in Int : c = CreditedSince(u, r.decided, EarningKinds)
  BY CreditedIsTotal, PartsOfLedger DEF CapInv
<1>5. PICK c2 : c2 = CreditedSince(u, r.decided, EarningKinds)' /\ c2 <= c + r.amount /\ c2 \in Int
  <2>1. CreditedSince(u, r.decided, EarningKinds)' <= c + r.amount
    BY <1>2, <1>3, <1>4, EarnedByEntry DEF CapInv
  <2>2. CreditedSince(u, r.decided, EarningKinds)' \in Int
    <3>1. IInv'
      BY NextInv DEF CapInv
    <3>2. ledger' \subseteq Rows /\ IsFiniteSet(ledger')
      BY <3>1 DEF IInv, TypeOK, Books
    <3>3. Earned(ledger', u, r.decided, EarningKinds) \in SUBSET ledger'
      BY DEF Earned
    <3>4. IsFiniteSet(Earned(ledger', u, r.decided, EarningKinds))
      BY <3>2, <3>3, FS_Subset
    <3>5. Total(Earned(ledger', u, r.decided, EarningKinds)) \in Int
      BY <3>2, <3>3, <3>4, TotalIsInt
    <3>6. QED
      BY <3>5, CreditedIsTotal
  <2>3. QED
    BY <2>1, <2>2
<1>6. r.amount \in Int /\ c + r.amount <= TotalCap
  BY <1>2, <1>3, <1>4 DEF Rows
<1>7. c2 <= TotalCap
  BY <1>5, <1>6, CapsAreNat
<1>8. QED
  BY <1>2, <1>3, <1>5, <1>7 DEF EarningKinds

\* claim_game_win(): a claim is paid only within daily_total_credit_cap, for
\* what is earned by its commit.
THEOREM PaymentsLeaveRoom == Spec => PaidClaimsLeaveRoom
<1>1. CapInv /\ [Next]_vars =>
          [\A r \in ledger' \ ledger :
              r.kind = "game_win" /\ r.amount > 0
                  => CreditedSince(r.user, r.decided, {"game_win", "checkin"})' <= TotalCap]_vars
  BY PaidStep
<1>2. QED
  BY <1>1, AlwaysCapped, PTL DEF Spec, PaidClaimsLeaveRoom
=============================================================================
