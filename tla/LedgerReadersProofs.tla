------------------------- MODULE LedgerReadersProofs ------------------------
(***************************************************************************)
(* Theorems about LedgerReaders, for every set of users, processes and     *)
(* amounts.  A client's pages stay as they were because the lock makes the *)
(* order of a user's ids the order of the commits: a row that appears is   *)
(* above every row that is there.  The audit is right because an unbroken  *)
(* chain of balances telescopes to the sum of its amounts: an entry made   *)
(* under the lock then neither breaks a user's books nor heals them, and   *)
(* what the audit finds under the lock is what is there.                   *)
(***************************************************************************)
EXTENDS LedgerReaders, FiniteSetTheorems, WellFoundedInduction, TLAPS

Holding == {"w_flushed", "a_locked"}
Paging == {"p_more", "p_end"}

\* What client has seen, and that nothing new can appear below its cursor.
Paged(step, s) ==
    /\ s.user \in Users
    /\ s.start \subseteq Ids(s.user)
    /\ s.seen = {i \in s.start : i >= s.cursor}
    /\ s.twice = {}
    /\ step = "p_more" => /\ s.cursor \in s.start
                          /\ \A i \in Ids(s.user) : i < s.cursor => i \in s.start

Fits(q, step, s) ==
    /\ step = "idle" => s = Idle
    /\ step \in Holding => s.user \in Users /\ userLock[s.user] = q
    /\ step = "w_flushed" => s.row.id < nextId /\ \A i \in Ids(s.user) : i < s.row.id
    /\ step \in Paging => Paged(step, s)

IdsIssued == \A u \in Users : \A i \in Ids(u) : i < nextId

Typed ==
    /\ balance \in [Users -> Int]
    /\ rows \in [Users -> SUBSET Rows]
    /\ nextId \in Nat \ {0}
    /\ reported \subseteq Users
    /\ tampers \in Nat

IInv ==
    /\ Typed
    /\ userLock \in [Users -> Procs \cup {None}]
    /\ pc \in [Procs -> Steps]
    /\ session \in [Procs -> Sessions]
    /\ \A q \in Procs : Fits(q, pc[q], session[q])
    /\ IdsIssued

LEMMA IdleFits ==
    /\ Idle \in Sessions
    /\ Idle.user = None /\ Idle.seen = {} /\ Idle.twice = {}
    /\ \A q \in Procs : Fits(q, "idle", Idle)
BY DEF Idle, Sessions, Rows, NoRow, Fits, Holding, Paging

LEMMA InitInv == Init => IInv
<1> SUFFICES ASSUME Init PROVE IInv
  OBVIOUS
<1>1. Typed /\ userLock \in [Users -> Procs \cup {None}] /\ pc \in [Procs -> Steps]
  BY DEF Init, Typed, Steps
<1>2. session \in [Procs -> Sessions]
  BY IdleFits DEF Init
<1>3. \A q \in Procs : Fits(q, pc[q], session[q])
  BY IdleFits DEF Init
<1>4. IdsIssued
  BY DEF Init, IdsIssued, Ids
<1>5. QED
  BY <1>1, <1>2, <1>3, <1>4 DEF IInv

\* Ids are numbers.
LEMMA IdsAreNat == ASSUME IInv, NEW u \in Users PROVE Ids(u) \subseteq Nat
BY DEF IInv, Typed, Ids, Rows

-----------------------------------------------------------------------------
\* A process goes on with session s and writes no row.
LEMMA QuietInv ==
    ASSUME IInv, rows' = rows, Typed', nextId' >= nextId,
           NEW p \in Procs, NEW step \in Steps, NEW s \in Sessions,
           pc' = [pc EXCEPT ![p] = step], session' = [session EXCEPT ![p] = s],
           userLock' \in [Users -> Procs \cup {None}],
           \A q \in Procs \ {p}, u \in Users : userLock[u] = q => userLock'[u] = q,
           Fits(p, step, s)'
    PROVE  IInv'
<1>1. /\ pc'[p] = step /\ session'[p] = s
      /\ \A q \in Procs \ {p} : pc'[q] = pc[q] /\ session'[q] = session[q]
      /\ pc' \in [Procs -> Steps] /\ session' \in [Procs -> Sessions]
  BY DEF IInv
<1>2. \A u : Ids(u)' = Ids(u)
  BY DEF Ids
<1>3. IdsIssued'
  <2>1. SUFFICES ASSUME NEW u \in Users, NEW i \in Ids(u) PROVE i < nextId'
    BY <1>2 DEF IdsIssued
  <2>2. i < nextId /\ i \in Nat /\ nextId \in Nat /\ nextId' \in Nat
    BY <2>1, IdsAreNat DEF IInv, IdsIssued, Typed
  <2>3. QED
    BY <2>2
<1>4. ASSUME NEW q \in Procs PROVE Fits(q, pc[q], session[q])'
  <2>1. CASE q = p
    BY <1>1, <2>1 DEF Fits, Paged
  <2>2. CASE q # p
    <3>1. PICK x \in Sessions, at \in Steps :
              /\ x = session[q] /\ at = pc[q] /\ Fits(q, at, x)
              /\ session'[q] = x /\ pc'[q] = at
      BY <1>1, <2>2 DEF IInv
    <3>2. at \in Holding => x.user \in Users /\ userLock'[x.user] = q
      BY <2>2, <3>1 DEF Fits
    <3>3. at = "w_flushed" => x.row.id < nextId' /\ \A i \in Ids(x.user)' : i < x.row.id
      <4>1. x.row.id \in Nat /\ nextId \in Nat /\ nextId' \in Nat
        BY <3>1 DEF Sessions, Rows, IInv, Typed
      <4>2. QED
        BY <1>2, <3>1, <4>1 DEF Fits
    <3>4. at \in Paging => Paged(at, x)'
      BY <1>2, <3>1 DEF Fits, Paged
    <3>5. QED
      BY <3>1, <3>2, <3>3, <3>4 DEF Fits
  <2>3. QED
    BY <2>1, <2>2
<1>5. QED
  BY <1>1, <1>3, <1>4 DEF IInv

\* The process ends what it does.
LEMMA FinishInv ==
    ASSUME IInv, NEW p \in Procs, Finish(p), rows' = rows, Typed', nextId' = nextId,
           userLock' = userLock \/ Release(p)
    PROVE  IInv'
<1>1. pc' = [pc EXCEPT ![p] = "idle"] /\ session' = [session EXCEPT ![p] = Idle]
  BY DEF Finish, Goto
<1>2. /\ userLock' \in [Users -> Procs \cup {None}]
      /\ \A q \in Procs \ {p}, u \in Users : userLock[u] = q => userLock'[u] = q
  BY DEF IInv, Release
<1>3. Fits(p, "idle", Idle)'
  BY DEF Fits, Holding, Paging
<1>4. nextId' >= nextId /\ "idle" \in Steps
  BY DEF IInv, Typed, Steps
<1>5. QED
  BY <1>1, <1>2, <1>3, <1>4, IdleFits, QuietInv

LEMMA TypedKept ==
    ASSUME IInv, UNCHANGED <<books, nextId, tampers>>, reported' \subseteq Users
    PROVE  Typed' /\ rows' = rows /\ nextId' >= nextId
BY DEF IInv, Typed, books

\* Sessions of the steps that change one.
Writing(u, r) == [Idle EXCEPT !.user = u, !.row = r]

LEMMA WriterSession ==
    ASSUME NEW u \in Users, NEW r \in Rows
    PROVE  /\ Writing(u, r) \in Sessions
           /\ Writing(u, r).user = u /\ Writing(u, r).row = r /\ Writing(u, r).bad = {}
<1>1. /\ Writing(u, r) \in Sessions /\ Writing(u, r).user = u /\ Writing(u, r).row = r
      /\ Writing(u, r).bad = Idle.bad
  BY IdleFits DEF Sessions, Writing
<1>2. QED
  BY <1>1 DEF Idle

Scanned(us, vs) == [Idle EXCEPT !.todo = us, !.bad = vs]

LEMMA ScanSession ==
    ASSUME NEW us \in SUBSET Users, NEW vs \in SUBSET Users
    PROVE  Scanned(us, vs) \in Sessions /\ Scanned(us, vs).todo = us /\ Scanned(us, vs).bad = vs
BY IdleFits DEF Sessions, Scanned

Suspecting(x, us) == [x EXCEPT !.todo = us]

LEMMA TodoSession ==
    ASSUME NEW x \in Sessions, NEW us \in SUBSET Users
    PROVE  /\ Suspecting(x, us) \in Sessions
           /\ Suspecting(x, us).todo = us /\ Suspecting(x, us).bad = x.bad
BY DEF Sessions, Suspecting

Locking(x, u, b) == [x EXCEPT !.user = u, !.balance = b, !.todo = @ \ {u}]

LEMMA LockedSession ==
    ASSUME NEW x \in Sessions, NEW u \in Users, NEW b \in Int
    PROVE  /\ Locking(x, u, b) \in Sessions
           /\ Locking(x, u, b).user = u /\ Locking(x, u, b).balance = b
           /\ Locking(x, u, b).todo = x.todo \ {u}
           /\ Locking(x, u, b).bad = x.bad /\ Locking(x, u, b).found = x.found
BY DEF Sessions, Locking

Finding(x, us) == [x EXCEPT !.found = us]

LEMMA FoundSession ==
    ASSUME NEW x \in Sessions, NEW us \in SUBSET Users
    PROVE  /\ Finding(x, us) \in Sessions /\ Finding(x, us).found = us
           /\ Finding(x, us).bad = x.bad /\ Finding(x, us).todo = x.todo
BY DEF Sessions, Finding

LEMMA PageSession ==
    ASSUME NEW x \in Sessions, NEW page \in SUBSET Nat, NEW c \in Nat
    PROVE  \E s \in Sessions :
               /\ s = [Got(x, page) EXCEPT !.cursor = c]
               /\ s.user = x.user /\ s.start = x.start /\ s.cursor = c
               /\ s.seen = x.seen \cup page
               /\ s.twice = x.twice \cup (x.seen \cap page)
<1> DEFINE g == [x EXCEPT !.seen = @ \cup page, !.twice = @ \cup (x.seen \cap page)]
           s == [g EXCEPT !.cursor = c]
<1>1. /\ g \in Sessions /\ g.user = x.user /\ g.start = x.start
      /\ g.seen = x.seen \cup page /\ g.twice = x.twice \cup (x.seen \cap page)
  BY DEF Sessions
<1>2. g = Got(x, page)
  BY DEF Got
<1> HIDE DEF g
<1>3. /\ s \in Sessions /\ s.user = g.user /\ s.start = g.start /\ s.cursor = c
      /\ s.seen = g.seen /\ s.twice = g.twice
  BY <1>1 DEF Sessions
<1>4. QED
  BY <1>1, <1>2, <1>3

Opened(u, ids) == [Idle EXCEPT !.user = u, !.start = ids]

LEMMA FirstSession ==
    ASSUME NEW u \in Users, NEW ids \in SUBSET Nat
    PROVE  \E s \in Sessions : /\ s = Opened(u, ids)
                              /\ s.user = u /\ s.start = ids
                              /\ s.seen = {} /\ s.twice = {} /\ s.bad = {}
<1> DEFINE s == Opened(u, ids)
<1>1. /\ s \in Sessions /\ s.user = u /\ s.start = ids /\ s.seen = {} /\ s.twice = {}
      /\ s.bad = Idle.bad
  BY IdleFits DEF Opened, Sessions
<1>2. QED
  BY <1>1 DEF Idle

-----------------------------------------------------------------------------
LEMMA WriteInv ==
    ASSUME IInv, NEW p \in Procs, NEW u \in Users, NEW a \in Amounts, Write(p, u, a)
    PROVE  IInv'
<1>1. PICK r \in Rows : r = [id |-> nextId, amount |-> a, after |-> balance[u] + a] /\ r.id = nextId
  <2> DEFINE r == [id |-> nextId, amount |-> a, after |-> balance[u] + a]
  <2>1. r \in Rows /\ r.id = nextId
    BY NumbersAreInt DEF IInv, Typed, Rows
  <2>2. QED
    BY <2>1
<1>2. PICK s \in Sessions : s = Writing(u, r) /\ s.user = u /\ s.row = r
  BY WriterSession
<1>3. /\ userLock[u] = None /\ userLock' = [userLock EXCEPT ![u] = p]
      /\ session' = [session EXCEPT ![p] = s] /\ pc' = [pc EXCEPT ![p] = "w_flushed"]
      /\ nextId' = nextId + 1
      /\ UNCHANGED <<balance, rows, reported, tampers>>
  BY <1>1, <1>2 DEF Write, Writing, UserFree, Goto, books
<1>4. /\ userLock' \in [Users -> Procs \cup {None}] /\ userLock'[u] = p
      /\ \A q \in Procs \ {p}, v \in Users : userLock[v] = q => userLock'[v] = q
  BY <1>3, NoneIsNew DEF IInv
<1>5. Typed' /\ nextId' >= nextId /\ "w_flushed" \in Steps
  BY <1>3 DEF IInv, Typed, Steps
<1>6. \A i \in Ids(u)' : i < s.row.id
  BY <1>1, <1>2, <1>3 DEF IInv, IdsIssued, Ids
<1>7. s.row.id < nextId'
  BY <1>1, <1>2, <1>3 DEF IInv, Typed
<1>8. Fits(p, "w_flushed", s)'
  BY <1>2, <1>4, <1>6, <1>7 DEF Fits, Holding, Paging
<1>9. QED
  BY <1>3, <1>4, <1>5, <1>8, QuietInv

\* A new row is above every cursor and every row of its user.
LEMMA WriteCommitInv ==
    ASSUME IInv, NEW p \in Procs, WriteCommit(p)
    PROVE  IInv'
<1>1. PICK x \in Sessions : x = session[p]
  BY DEF IInv
<1>2. PICK u \in Users, r \in Rows : u = x.user /\ r = x.row
  BY <1>1 DEF WriteCommit, IInv, Fits, Holding, Sessions
<1>3. /\ pc[p] = "w_flushed" /\ balance' = [balance EXCEPT ![u] = r.after]
      /\ rows' = [rows EXCEPT ![u] = @ \cup {r}]
      /\ Finish(p) /\ Release(p)
      /\ UNCHANGED <<nextId, reported, tampers>>
  BY <1>1, <1>2 DEF WriteCommit
<1>4. userLock[u] = p /\ r.id < nextId /\ \A i \in Ids(u) : i < r.id
  BY <1>1, <1>2, <1>3 DEF IInv, Fits, Holding
<1>5. r.id \in Nat /\ r.after \in Int
  BY DEF Rows
<1>6. Typed'
  BY <1>3, <1>5 DEF IInv, Typed
<1>7. /\ Ids(u)' = Ids(u) \cup {r.id}
      /\ \A v \in Users \ {u} : Ids(v)' = Ids(v)
  BY <1>3 DEF IInv, Typed, Ids
<1>8. IdsIssued'
  BY <1>3, <1>4, <1>7 DEF IInv, IdsIssued
<1>9. /\ pc'[p] = "idle" /\ session'[p] = Idle
      /\ \A q \in Procs \ {p} : pc'[q] = pc[q] /\ session'[q] = session[q]
      /\ pc' \in [Procs -> Steps] /\ session' \in [Procs -> Sessions]
  BY <1>3, IdleFits DEF IInv, Finish, Goto, Steps
<1>10. /\ userLock' \in [Users -> Procs \cup {None}]
       /\ \A q \in Procs \ {p}, v \in Users : userLock[v] = q => userLock'[v] = q
  BY <1>3 DEF IInv, Release
<1>11. ASSUME NEW q \in Procs PROVE Fits(q, pc[q], session[q])'
  <2>1. CASE q = p
    BY <1>9, <2>1 DEF Fits, Holding, Paging
  <2>2. CASE q # p
    <3>1. PICK y \in Sessions, at \in Steps :
              /\ y = session[q] /\ at = pc[q] /\ Fits(q, at, y)
              /\ session'[q] = y /\ pc'[q] = at
      BY <1>9, <2>2 DEF IInv
    <3>2. at \in Holding => /\ y.user \in Users \ {u} /\ userLock'[y.user] = q
      BY <1>4, <1>10, <2>2, <3>1 DEF Fits
    <3>3. at = "w_flushed" => y.row.id < nextId' /\ \A i \in Ids(y.user)' : i < y.row.id
      <4>1. SUFFICES ASSUME at = "w_flushed"
                     PROVE  y.row.id < nextId' /\ \A i \in Ids(y.user)' : i < y.row.id
        OBVIOUS
      <4>2. PICK v \in Users \ {u} : v = y.user
        BY <3>2, <4>1 DEF Holding
      <4>3. Ids(v)' = Ids(v)
        BY <1>7
      <4>4. QED
        BY <1>3, <3>1, <4>1, <4>2, <4>3 DEF Fits
    <3>4. at \in Paging => Paged(at, y)'
      <4>1. SUFFICES ASSUME at \in Paging PROVE Paged(at, y)'
        OBVIOUS
      <4>2. Paged(at, y)
        BY <3>1, <4>1 DEF Fits
      <4>3. PICK v \in Users : v = y.user
        BY <4>2 DEF Paged
      <4>4. Ids(v) \subseteq Ids(v)' /\ \A i \in Ids(v)' : i \in Ids(v) \/ (v = u /\ i = r.id)
        <5>1. CASE v = u
          BY <1>7, <5>1
        <5>2. CASE v # u
          <6>1. Ids(v)' = Ids(v)
            BY <1>7, <5>2
          <6>2. QED
            BY <6>1
        <5>3. QED
          BY <5>1, <5>2
      <4>5. y.cursor \in y.start => \A i \in Ids(v)' : i < y.cursor => i \in Ids(v)
        <5>1. SUFFICES ASSUME y.cursor \in y.start, v = u, r.id < y.cursor PROVE FALSE
          BY <4>4
        <5>2. y.cursor \in Ids(u) /\ y.cursor \in Nat
          BY <4>2, <4>3, <5>1, IdsAreNat DEF Paged
        <5>3. QED
          BY <1>4, <1>5, <5>1, <5>2
      <4>6. /\ y.user \in Users /\ y.start \subseteq Ids(v)
            /\ y.seen = {i \in y.start : i >= y.cursor} /\ y.twice = {}
            /\ at = "p_more" => /\ y.cursor \in y.start
                                /\ \A i \in Ids(v) : i < y.cursor => i \in y.start
        BY <4>2, <4>3 DEF Paged
      <4>7. at = "p_more" => \A i \in Ids(v)' : i < y.cursor => i \in y.start
        BY <4>5, <4>6
      <4>8. QED
        BY <4>3, <4>4, <4>6, <4>7 DEF Paged
    <3>5. QED
      BY <3>1, <3>2, <3>3, <3>4 DEF Fits
  <2>3. QED
    BY <2>1, <2>2
<1>12. QED
  BY <1>6, <1>8, <1>9, <1>10, <1>11 DEF IInv

-----------------------------------------------------------------------------
LEMMA ScanSumsInv == ASSUME IInv, NEW p \in Procs, ScanSums(p) PROVE IInv'
<1>1. PICK s \in Sessions :
          s = Scanned({u \in Users : SumsDiffer(u, balance[u])}, {u \in Users : Broken(u)})
  BY ScanSession
<1>2. /\ session' = [session EXCEPT ![p] = s] /\ pc' = [pc EXCEPT ![p] = "a_sums"]
      /\ UNCHANGED <<books, nextId, userLock, reported, tampers>>
  BY <1>1 DEF ScanSums, Scanned, Goto
<1>3. Fits(p, "a_sums", s)' /\ "a_sums" \in Steps
  BY DEF Fits, Holding, Paging, Steps
<1>4. reported' \subseteq Users /\ userLock' \in [Users -> Procs \cup {None}]
  BY <1>2 DEF IInv, Typed
<1>5. Typed' /\ rows' = rows /\ nextId' >= nextId
  BY <1>2, <1>4, TypedKept
<1>6. QED
  BY <1>2, <1>3, <1>4, <1>5, QuietInv

LEMMA ScanChainsInv == ASSUME IInv, NEW p \in Procs, ScanChains(p) PROVE IInv'
<1>1. PICK x \in Sessions : x = session[p]
  BY DEF IInv
<1>2. Suspects(p) \in SUBSET Users
  BY <1>1 DEF Suspects, Sessions
<1>3. PICK s \in Sessions : s = Suspecting(x, Suspects(p))
  BY <1>2, TodoSession
<1>4. /\ session' = [session EXCEPT ![p] = s] /\ pc' = [pc EXCEPT ![p] = "a_users"]
      /\ UNCHANGED <<books, nextId, userLock, reported, tampers>>
  BY <1>1, <1>3 DEF ScanChains, Suspecting, Goto, IInv
<1>5. Fits(p, "a_users", s)' /\ "a_users" \in Steps
  BY DEF Fits, Holding, Paging, Steps
<1>6. reported' \subseteq Users /\ userLock' \in [Users -> Procs \cup {None}]
  BY <1>4 DEF IInv, Typed
<1>7. Typed' /\ rows' = rows /\ nextId' >= nextId
  BY <1>4, <1>6, TypedKept
<1>8. QED
  BY <1>4, <1>5, <1>6, <1>7, QuietInv

LEMMA AuditLockInv == ASSUME IInv, NEW p \in Procs, NEW u \in Users, AuditLock(p, u) PROVE IInv'
<1>1. PICK x \in Sessions : x = session[p]
  BY DEF IInv
<1>2. PICK s \in Sessions : s = Locking(x, u, balance[u]) /\ s.user = u
  BY LockedSession DEF IInv, Typed
<1>3. /\ session' = [session EXCEPT ![p] = s] /\ pc' = [pc EXCEPT ![p] = "a_locked"]
      /\ userLock[u] = None /\ userLock' = [userLock EXCEPT ![u] = p]
      /\ UNCHANGED <<books, nextId, reported, tampers>>
  BY <1>1, <1>2 DEF AuditLock, Locking, UserFree, Goto, IInv
<1>4. /\ userLock' \in [Users -> Procs \cup {None}] /\ userLock'[u] = p
      /\ \A q \in Procs \ {p}, v \in Users : userLock[v] = q => userLock'[v] = q
  BY <1>3, NoneIsNew DEF IInv
<1>5. Fits(p, "a_locked", s)' /\ "a_locked" \in Steps
  BY <1>2, <1>4 DEF Fits, Holding, Paging, Steps
<1>6. reported' \subseteq Users
  BY <1>3 DEF IInv, Typed
<1>7. Typed' /\ rows' = rows /\ nextId' >= nextId
  BY <1>3, <1>6, TypedKept
<1>8. QED
  BY <1>3, <1>4, <1>5, <1>7, QuietInv

\* Both outcomes of the re-check go on with the next candidate.
LEMMA RecheckInv ==
    ASSUME IInv, NEW p \in Procs, AuditClear(p) \/ AuditReport(p)
    PROVE  IInv'
<1>1. PICK x \in Sessions : x = session[p]
  BY DEF IInv
<1>2. pc[p] = "a_locked"
  BY DEF AuditClear, AuditReport
<1>3. PICK u \in Users : u = session[p].user
  BY <1>2 DEF IInv, Fits, Holding
<1>4. PICK s \in Sessions : session' = [session EXCEPT ![p] = s]
  <2>1. CASE AuditClear(p)
    <3>1. session' = [session EXCEPT ![p] = x]
      BY <1>1, <2>1 DEF AuditClear, IInv
    <3>2. QED
      BY <3>1
  <2>2. CASE AuditReport(p)
    <3>1. x.found \cup {u} \in SUBSET Users
      BY DEF Sessions
    <3>2. PICK s \in Sessions : s = Finding(x, x.found \cup {u})
      BY <3>1, FoundSession
    <3>3. session' = [session EXCEPT ![p] = s]
      BY <1>1, <1>3, <2>2, <3>2 DEF AuditReport, Finding, IInv
    <3>4. QED
      BY <3>3
  <2>3. QED
    BY <2>1, <2>2
<1>5. /\ pc' = [pc EXCEPT ![p] = "a_users"] /\ Release(p)
      /\ UNCHANGED <<books, nextId, tampers>>
  BY DEF AuditClear, AuditReport, Goto
<1>6. reported' \subseteq Users
  BY <1>3 DEF AuditClear, AuditReport, IInv, Typed
<1>7. /\ userLock' \in [Users -> Procs \cup {None}]
      /\ \A q \in Procs \ {p}, v \in Users : userLock[v] = q => userLock'[v] = q
  BY <1>5 DEF IInv, Release
<1>8. Fits(p, "a_users", s)' /\ "a_users" \in Steps
  BY DEF Fits, Holding, Paging, Steps
<1>9. Typed' /\ rows' = rows /\ nextId' >= nextId
  BY <1>5, <1>6, TypedKept
<1>10. QED
  BY <1>4, <1>5, <1>7, <1>8, <1>9, QuietInv

-----------------------------------------------------------------------------
\* A page taken from ids, the part of the list that the client has not seen.
LEMMA PageInv ==
    ASSUME IInv, NEW p \in Procs, NEW x \in Sessions, NEW ids \in SUBSET Nat,
           Page(p, x, ids), pc[p] \in {"idle", "p_more"},
           x.user \in Users, x.start \subseteq Ids(x.user), x.start = x.seen \cup ids,
           x.twice = {}, \A i \in ids, j \in x.seen : i < j,
           \A i \in Ids(x.user), j \in ids : i < j => i \in ids
    PROVE  IInv'
<1>1. PICK page \in SUBSET ids :
          /\ IsPage(page, ids)
          /\ \/ \E c \in page :
                 /\ \A i \in page : c <= i
                 /\ session' = [session EXCEPT ![p] = [Got(x, page) EXCEPT !.cursor = c]]
                 /\ Goto(p, "p_more")
             \/ /\ Cardinality(page) < Limit
                /\ session' = [session EXCEPT ![p] = [Got(x, page) EXCEPT !.cursor = 0]]
                /\ Goto(p, "p_end")
          /\ UNCHANGED <<books, nextId, userLock, reported, tampers>>
  BY DEF Page
<1>2. x.seen \subseteq Nat /\ page \in SUBSET Nat /\ x.seen \cap page = {}
  BY DEF Sessions
<1>3. PICK step \in Paging, c \in Nat, s \in Sessions :
          /\ pc' = [pc EXCEPT ![p] = step] /\ session' = [session EXCEPT ![p] = s]
          /\ s.user = x.user /\ s.start = x.start /\ s.cursor = c
          /\ s.seen = x.seen \cup page /\ s.twice = {}
          /\ step = "p_more" => c \in page /\ \A i \in page : c <= i
          /\ step = "p_end" => c = 0 /\ page = ids
  <2>1. CASE \E c \in page :
                 /\ \A i \in page : c <= i
                 /\ session' = [session EXCEPT ![p] = [Got(x, page) EXCEPT !.cursor = c]]
                 /\ Goto(p, "p_more")
    <3>1. PICK c \in page :
                 /\ \A i \in page : c <= i
                 /\ session' = [session EXCEPT ![p] = [Got(x, page) EXCEPT !.cursor = c]]
                 /\ Goto(p, "p_more")
      BY <2>1
    <3>2. c \in Nat
      BY <1>2
    <3>3. PICK s \in Sessions :
               /\ s = [Got(x, page) EXCEPT !.cursor = c]
               /\ s.user = x.user /\ s.start = x.start /\ s.cursor = c
               /\ s.seen = x.seen \cup page
               /\ s.twice = x.twice \cup (x.seen \cap page)
      BY <1>2, <3>2, PageSession
    <3>4. pc' = [pc EXCEPT ![p] = "p_more"] /\ session' = [session EXCEPT ![p] = s]
      BY <3>1, <3>3 DEF Goto
    <3>5. s.twice = {} /\ "p_more" \in Paging
      BY <1>2, <3>3 DEF Paging
    <3>6. QED
      BY <3>1, <3>2, <3>3, <3>4, <3>5
  <2>2. CASE /\ Cardinality(page) < Limit
             /\ session' = [session EXCEPT ![p] = [Got(x, page) EXCEPT !.cursor = 0]]
             /\ Goto(p, "p_end")
    <3>1. page = ids
      BY <1>1, <2>2 DEF IsPage
    <3>2. PICK s \in Sessions :
               /\ s = [Got(x, page) EXCEPT !.cursor = 0]
               /\ s.user = x.user /\ s.start = x.start /\ s.cursor = 0
               /\ s.seen = x.seen \cup page
               /\ s.twice = x.twice \cup (x.seen \cap page)
      BY <1>2, PageSession
    <3>3. pc' = [pc EXCEPT ![p] = "p_end"] /\ session' = [session EXCEPT ![p] = s]
      BY <2>2, <3>2 DEF Goto
    <3>4. s.twice = {} /\ "p_end" \in Paging
      BY <1>2, <3>2 DEF Paging
    <3>5. QED
      BY <3>1, <3>2, <3>3, <3>4
  <2>3. QED
    BY <1>1, <2>1, <2>2
<1>4. \A i \in page, j \in ids \ page : j < i
  BY <1>1 DEF IsPage
<1>5. s.seen = {i \in s.start : i >= c}
  <2>1. CASE step = "p_end"
    <3>1. x.start \subseteq Nat /\ c = 0
      BY <1>3, <2>1 DEF Sessions
    <3>2. \A i \in x.start : i >= c
      BY <3>1
    <3>3. QED
      BY <1>3, <2>1, <3>2
  <2>2. CASE step = "p_more"
    <3>1. \A i \in x.seen : i >= c
      BY <1>2, <1>3, <2>2
    <3>2. \A i \in ids \ page : ~(i >= c)
      BY <1>2, <1>3, <1>4, <2>2
    <3>3. \A i \in page : i >= c
      BY <1>2, <1>3, <2>2
    <3>4. QED
      BY <1>3, <3>1, <3>2, <3>3
  <2>3. QED
    BY <1>3, <2>1, <2>2 DEF Paging
<1>6. step = "p_more" => c \in s.start /\ \A i \in Ids(x.user) : i < c => i \in s.start
  BY <1>3
<1>7. Paged(step, s)
  BY <1>3, <1>5, <1>6 DEF Paged
<1>8. /\ step \in Steps /\ UNCHANGED <<books, nextId, userLock, reported, tampers>>
  BY <1>1 DEF Paging, Steps
<1>9. Fits(p, step, s)'
  <2>1. rows' = rows
    BY <1>8 DEF books
  <2>2. QED
    BY <1>7, <2>1 DEF Fits, Paged, Paging, Holding, Ids
<1>10. reported' \subseteq Users /\ userLock' \in [Users -> Procs \cup {None}]
  BY <1>8 DEF IInv, Typed
<1>11. Typed' /\ rows' = rows /\ nextId' >= nextId
  BY <1>8, <1>10, TypedKept
<1>12. QED
  BY <1>3, <1>8, <1>9, <1>10, <1>11, QuietInv

LEMMA FirstPageInv == ASSUME IInv, NEW p \in Procs, NEW u \in Users, FirstPage(p, u) PROVE IInv'
<1>1. PICK ids \in SUBSET Nat : ids = Ids(u)
  BY IdsAreNat
<1>2. PICK x \in Sessions : /\ x = Opened(u, ids)
                            /\ x.user = u /\ x.start = ids /\ x.seen = {} /\ x.twice = {}
  BY FirstSession
<1>3. Page(p, x, ids) /\ pc[p] \in {"idle", "p_more"}
  BY <1>1, <1>2 DEF FirstPage, Opened
<1>4. QED
  BY <1>1, <1>2, <1>3, PageInv

LEMMA NextPageInv == ASSUME IInv, NEW p \in Procs, NextPage(p) PROVE IInv'
<1>1. PICK x \in Sessions : x = session[p]
  BY DEF IInv
<1>2. pc[p] = "p_more" /\ Page(p, x, Older(Ids(x.user), x.cursor))
  BY <1>1 DEF NextPage
<1>3. Paged("p_more", x)
  BY <1>1, <1>2 DEF IInv, Fits, Paging
<1>4. PICK ids : ids = Older(Ids(x.user), x.cursor)
  OBVIOUS
<1>5. x.cursor \in Nat /\ Ids(x.user) \in SUBSET Nat /\ x.user \in Users
  BY <1>3, IdsAreNat DEF Sessions, Paged
<1>6. ids = {i \in Ids(x.user) : i < x.cursor} /\ ids \in SUBSET Nat
  BY <1>4, <1>5 DEF Older
<1>7. x.start = x.seen \cup ids
  BY <1>3, <1>5, <1>6 DEF Paged
<1>8. \A i \in ids, j \in x.seen : i < j
  BY <1>3, <1>5, <1>6 DEF Paged
<1>9. \A i \in Ids(x.user), j \in ids : i < j => i \in ids
  BY <1>5, <1>6
<1>10. Page(p, x, ids) /\ x.start \subseteq Ids(x.user) /\ x.twice = {}
  BY <1>2, <1>3, <1>4 DEF Paged
<1>11. QED
  BY <1>2, <1>5, <1>6, <1>7, <1>8, <1>9, <1>10, PageInv

-----------------------------------------------------------------------------
\* A hand changes amounts, never which rows there are.
LEMMA TamperInv ==
    ASSUME IInv, NEW u \in Users, Tamper(u),
           balance' \in [Users -> Int], rows' \in [Users -> SUBSET Rows],
           \A v \in Users : Ids(v)' = Ids(v)
    PROVE  IInv'
<1>1. /\ UNCHANGED <<nextId, userLock, pc, reported>> /\ tampers' = tampers + 1
      /\ session' = [q \in Procs |-> [session[q] EXCEPT !.bad = @ \ {u}]]
  BY DEF Tamper
<1>2. Typed' /\ IdsIssued'
  BY <1>1 DEF IInv, Typed, IdsIssued
<1>3. ASSUME NEW q \in Procs
      PROVE  session'[q] \in Sessions /\ Fits(q, pc[q], session[q])'
  <2>1. PICK x \in Sessions, at \in Steps : x = session[q] /\ at = pc[q] /\ Fits(q, at, x)
    BY DEF IInv
  <2>2. PICK y \in Sessions :
            /\ y = [x EXCEPT !.bad = @ \ {u}]
            /\ y.user = x.user /\ y.row = x.row /\ y.start = x.start /\ y.seen = x.seen
            /\ y.twice = x.twice /\ y.cursor = x.cursor
            /\ x = Idle => y = Idle
    <3> DEFINE y == [x EXCEPT !.bad = @ \ {u}]
    <3>1. /\ y \in Sessions
          /\ y.user = x.user /\ y.row = x.row /\ y.start = x.start /\ y.seen = x.seen
          /\ y.twice = x.twice /\ y.cursor = x.cursor
      BY DEF Sessions
    <3>2. x = Idle => y = Idle
      <4>1. Idle.bad = {}
        BY DEF Idle
      <4>2. x = Idle => x.bad \ {u} = x.bad
        BY <4>1
      <4>3. [x EXCEPT !.bad = x.bad] = x
        BY DEF Sessions
      <4>4. QED
        BY <4>2, <4>3
    <3>3. QED
      BY <3>1, <3>2
  <2>3. session'[q] = y /\ pc'[q] = at
    BY <1>1, <2>1, <2>2
  <2>4. at \in Holding => y.user \in Users /\ userLock'[y.user] = q
    BY <1>1, <2>1, <2>2 DEF Fits
  <2>5. at = "w_flushed" => y.row.id < nextId' /\ \A i \in Ids(y.user)' : i < y.row.id
    <3>1. SUFFICES ASSUME at = "w_flushed"
                   PROVE  y.row.id < nextId' /\ \A i \in Ids(y.user)' : i < y.row.id
      OBVIOUS
    <3>2. PICK v \in Users : v = x.user
      BY <2>1, <3>1 DEF Fits, Holding
    <3>3. Ids(v)' = Ids(v)
      OBVIOUS
    <3>4. QED
      BY <1>1, <2>1, <2>2, <3>1, <3>2, <3>3 DEF Fits
  <2>6. at \in Paging => Paged(at, y)'
    <3>1. SUFFICES ASSUME at \in Paging PROVE Paged(at, y)'
      OBVIOUS
    <3>2. Paged(at, x)
      BY <2>1, <3>1 DEF Fits
    <3>3. PICK v \in Users : v = x.user
      BY <3>2 DEF Paged
    <3>4. Ids(v)' = Ids(v)
      OBVIOUS
    <3>5. QED
      BY <2>2, <3>2, <3>3, <3>4 DEF Paged
  <2>7. QED
    BY <2>1, <2>2, <2>3, <2>4, <2>5, <2>6 DEF Fits
<1>4. session' \in [Procs -> Sessions]
  BY <1>1, <1>3
<1>5. QED
  BY <1>1, <1>2, <1>3, <1>4 DEF IInv

LEMMA TamperBalanceInv ==
    ASSUME IInv, NEW u \in Users, NEW d \in Wrong, TamperBalance(u, d)
    PROVE  IInv'
<1>1. balance' \in [Users -> Int] /\ rows' = rows /\ Tamper(u)
  BY NumbersAreInt DEF TamperBalance, IInv, Typed
<1>2. rows' \in [Users -> SUBSET Rows] /\ \A v \in Users : Ids(v)' = Ids(v)
  BY <1>1 DEF IInv, Typed, Ids
<1>3. QED
  BY <1>1, <1>2, TamperInv

LEMMA TamperRowInv ==
    ASSUME IInv, NEW u \in Users, NEW r \in rows[u], NEW a \in Wrong, NEW d \in Wrong,
           TamperRow(u, r, a, d)
    PROVE  IInv'
<1>1. r \in Rows /\ rows[u] \in SUBSET Rows
  BY DEF IInv, Typed
<1>2. PICK c \in Rows : c = [r EXCEPT !.amount = @ + a, !.after = @ + d] /\ c.id = r.id
  <2> DEFINE c == [r EXCEPT !.amount = @ + a, !.after = @ + d]
  <2>1. c \in Rows /\ c.id = r.id
    <3>1. r.id \in Nat /\ r.amount + a \in Int /\ r.after + d \in Int
      BY <1>1, NumbersAreInt DEF Rows
    <3>2. QED
      BY <1>1, <3>1 DEF Rows
  <2>2. QED
    BY <2>1
<1>3. /\ rows' = [rows EXCEPT ![u] = (@ \ {r}) \cup {c}]
      /\ balance' = balance /\ Tamper(u)
  BY <1>2 DEF TamperRow
<1>4. rows' \in [Users -> SUBSET Rows] /\ balance' \in [Users -> Int]
  BY <1>1, <1>3 DEF IInv, Typed
<1>5. /\ rows'[u] = (rows[u] \ {r}) \cup {c}
      /\ \A v \in Users \ {u} : rows'[v] = rows[v]
  BY <1>3 DEF IInv, Typed
<1>6. \A v \in Users : Ids(v)' = Ids(v)
  BY <1>2, <1>5 DEF Ids
<1>7. QED
  BY <1>3, <1>4, <1>6, TamperInv

-----------------------------------------------------------------------------
LEMMA EndInv ==
    ASSUME IInv, NEW p \in Procs, AuditEnd(p) \/ Leave(p) \/ Abort(p)
    PROVE  IInv'
<1>1. /\ Finish(p) /\ UNCHANGED <<books, nextId, reported, tampers>>
      /\ userLock' = userLock \/ Release(p)
  BY DEF AuditEnd, Leave, Abort
<1>2. reported' \subseteq Users
  BY <1>1 DEF IInv, Typed
<1>3. Typed' /\ rows' = rows /\ nextId' = nextId
  BY <1>1, <1>2, TypedKept
<1>4. QED
  BY <1>1, <1>3, FinishInv

LEMMA NextInv == IInv /\ [Next]_vars => IInv'
<1> SUFFICES ASSUME IInv, [Next]_vars PROVE IInv'
  OBVIOUS
<1>1. ASSUME NEW p \in Procs, NEW u \in Users, NEW a \in Amounts, Write(p, u, a) PROVE IInv'
  BY <1>1, WriteInv
<1>2. ASSUME NEW p \in Procs, WriteCommit(p) PROVE IInv'
  BY <1>2, WriteCommitInv
<1>3. ASSUME NEW p \in Procs, ScanSums(p) PROVE IInv'
  BY <1>3, ScanSumsInv
<1>4. ASSUME NEW p \in Procs, ScanChains(p) PROVE IInv'
  BY <1>4, ScanChainsInv
<1>5. ASSUME NEW p \in Procs, NEW u \in Users, AuditLock(p, u) PROVE IInv'
  BY <1>5, AuditLockInv
<1>6. ASSUME NEW p \in Procs, AuditClear(p) \/ AuditReport(p) PROVE IInv'
  BY <1>6, RecheckInv
<1>7. ASSUME NEW p \in Procs, AuditEnd(p) \/ Leave(p) \/ Abort(p) PROVE IInv'
  BY <1>7, EndInv
<1>8. ASSUME NEW p \in Procs, NEW u \in Users, FirstPage(p, u) PROVE IInv'
  BY <1>8, FirstPageInv
<1>9. ASSUME NEW p \in Procs, NextPage(p) PROVE IInv'
  BY <1>9, NextPageInv
<1>10. ASSUME NEW u \in Users, NEW d \in Wrong, TamperBalance(u, d) PROVE IInv'
  BY <1>10, TamperBalanceInv
<1>11. ASSUME NEW u \in Users, NEW r \in rows[u], NEW a \in Wrong, NEW d \in Wrong,
              TamperRow(u, r, a, d)
       PROVE  IInv'
  BY <1>11, TamperRowInv
<1>12. ASSUME UNCHANGED vars PROVE IInv'
  BY <1>12 DEF vars, books, IInv, Typed, Fits, Paged, IdsIssued, Ids
<1>13. QED
  BY <1>1, <1>2, <1>3, <1>4, <1>5, <1>6, <1>7, <1>8, <1>9, <1>10, <1>11, <1>12 DEF Next

LEMMA AlwaysIInv == Spec => []IInv
  BY InitInv, NextInv, PTL DEF Spec

-----------------------------------------------------------------------------
\* Every variable has its type; a process that does nothing keeps nothing.
THEOREM TypeCorrect == Spec => []TypeOK
<1>1. IInv => TypeOK
  BY DEF IInv, Typed, TypeOK, Fits
<1>2. QED
  BY <1>1, AlwaysIInv, PTL

\* my_ledger, user_ledger: whatever is written between two pages, a client
\* reads the history as it was at its first page, each row once.
THEOREM PagesHold == Spec => []PagesStable
<1>1. IInv => PagesStable
  BY DEF IInv, PagesStable, Fits, Paged, Paging
<1>2. QED
  BY <1>1, AlwaysIInv, PTL

-----------------------------------------------------------------------------
\* Induction over the subsets of a finite set, the property given as the set
\* of those that have it.
LEMMA SubsetInduction ==
    ASSUME NEW S, IsFiniteSet(S), NEW Good \in SUBSET (SUBSET S),
           \A T \in SUBSET S : (\A U \in SUBSET T : U # T => U \in Good) => T \in Good
    PROVE  S \in Good
<1> SUFFICES ASSUME S \notin Good PROVE FALSE
  OBVIOUS
<1> DEFINE Bad == (SUBSET S) \ Good
<1>1. IsWellFoundedOn(StrictSubsetOrdering(S), SUBSET S)
  <2>1. FiniteSubsetsOf(S) = SUBSET S
    BY FS_FiniteSubsetsOfFinite
  <2>2. IsWellFoundedOn(StrictSubsetOrdering(S), FiniteSubsetsOf(S))
    BY FS_StrictSubsetOrderingWellFounded
  <2>3. QED
    BY <2>1, <2>2
<1>2. Bad \subseteq SUBSET S /\ Bad # {}
  OBVIOUS
<1>3. PICK T \in Bad : \A U \in Bad : <<U, T>> \notin StrictSubsetOrdering(S)
  <2> HIDE DEF Bad
  <2>1. QED
    BY <1>1, <1>2, WFMin
<1>4. \A U \in SUBSET T : U # T => U \in Good
  <2>1. SUFFICES ASSUME NEW U \in SUBSET T, U # T, U \in Bad PROVE FALSE
    OBVIOUS
  <2>2. <<U, T>> \in StrictSubsetOrdering(S)
    BY <2>1 DEF StrictSubsetOrdering
  <2>3. QED
    BY <1>3, <2>1, <2>2
<1>5. QED
  BY <1>3, <1>4

\* The sum that SumsDiffer compares a balance with.
Total(R) == MapThenSumSet(LAMBDA r : r.amount, R)

OneOf(R) == CHOOSE r \in R : TRUE

\* f holds the sums of the subsets of R.
Sums(R, f) ==
    f = [T \in SUBSET R |-> IF T = {} THEN 0 ELSE OneOf(T).amount + f[T \ {OneOf(T)}]]

LEMMA TotalIsSum == ASSUME NEW R PROVE Total(R) = (CHOOSE f : Sums(R, f))[R]
BY DEF Total, MapThenSumSet, MapThenFoldSet, Sums, OneOf

LEMMA OneOfSet == ASSUME NEW T, T # {} PROVE OneOf(T) \in T
BY DEF OneOf

\* The sums of a finite set are the only ones of their kind.
LEMMA SumsAgree ==
    ASSUME NEW R, IsFiniteSet(R), NEW f, NEW Q \in SUBSET R, NEW g, Sums(R, f), Sums(Q, g)
    PROVE  f[Q] = g[Q]
<1> DEFINE Good == {T \in SUBSET Q : f[T] = g[T]}
<1>1. ASSUME NEW T \in SUBSET Q, \A U \in SUBSET T : U # T => U \in Good
      PROVE  T \in Good
  <2>1. CASE T = {}
    BY <2>1 DEF Sums
  <2>2. CASE T # {}
    <3>1. OneOf(T) \in T
      BY <2>2, OneOfSet
    <3>2. f[T \ {OneOf(T)}] = g[T \ {OneOf(T)}]
      BY <1>1, <3>1
    <3>3. /\ f[T] = OneOf(T).amount + f[T \ {OneOf(T)}]
          /\ g[T] = OneOf(T).amount + g[T \ {OneOf(T)}]
      BY <2>2 DEF Sums
    <3>4. QED
      BY <3>2, <3>3
  <2>3. QED
    BY <2>1, <2>2
<1>2. IsFiniteSet(Q) /\ Good \in SUBSET (SUBSET Q)
  BY FS_Subset
<1>3. Q \in Good
  <2> HIDE DEF Good
  <2>1. QED
    BY <1>1, <1>2, SubsetInduction
<1>4. QED
  BY <1>3

\* Every finite set has them: Total is what its recursion says.
LEMMA SumsExist ==
    ASSUME NEW R, IsFiniteSet(R)
    PROVE  \E f : Sums(R, f)
<1> DEFINE Good == {T \in SUBSET R : \E f : Sums(T, f)}
<1>1. ASSUME NEW T \in SUBSET R, \A U \in SUBSET T : U # T => U \in Good
      PROVE  T \in Good
  <2> DEFINE h == [U \in SUBSET T |-> IF U = {} THEN 0
                                      ELSE OneOf(U).amount + Total(U \ {OneOf(U)})]
  <2>1. ASSUME NEW U \in SUBSET T, U # T
        PROVE  /\ Sums(U, CHOOSE f : Sums(U, f))
               /\ Total(U) = (CHOOSE f : Sums(U, f))[U]
    BY <1>1, <2>1, TotalIsSum
  <2>2. ASSUME NEW U \in SUBSET T, U # T
        PROVE  h[U] = Total(U)
    <3>1. PICK g : g = CHOOSE f : Sums(U, f)
      OBVIOUS
    <3>2. Sums(U, g) /\ Total(U) = g[U]
      BY <2>1, <2>2, <3>1
    <3>3. CASE U = {}
      BY <3>2, <3>3 DEF Sums
    <3>4. CASE U # {}
      <4>1. PICK V : V = U \ {OneOf(U)}
        OBVIOUS
      <4>2. V \in SUBSET U /\ V # T /\ V # U
        BY <2>2, <3>4, <4>1, OneOfSet
      <4>3. PICK k : k = CHOOSE f : Sums(V, f)
        OBVIOUS
      <4>4. Sums(V, k) /\ Total(V) = k[V]
        BY <2>1, <4>2, <4>3
      <4>5. g[V] = k[V]
        <5>1. IsFiniteSet(U)
          BY <1>1, <2>2, FS_Subset
        <5>2. QED
          BY <3>2, <4>2, <4>4, <5>1, SumsAgree
      <4>6. g[U] = OneOf(U).amount + g[V]
        BY <3>2, <3>4, <4>1 DEF Sums
      <4>7. h[U] = OneOf(U).amount + Total(V)
        BY <2>2, <3>4, <4>1
      <4>8. QED
        BY <3>2, <4>4, <4>5, <4>6, <4>7
    <3>5. QED
      BY <3>3, <3>4
  <2>3. Sums(T, h)
    <3>1. ASSUME NEW U \in SUBSET T, U # {}
          PROVE  Total(U \ {OneOf(U)}) = h[U \ {OneOf(U)}]
      <4>1. U \ {OneOf(U)} \in SUBSET T /\ U \ {OneOf(U)} # T
        BY <3>1, OneOfSet
      <4> HIDE DEF h
      <4>2. QED
        BY <2>2, <4>1
    <3>2. \A U \in SUBSET T : h[U] = IF U = {} THEN 0
                                      ELSE OneOf(U).amount + h[U \ {OneOf(U)}]
      <4>1. SUFFICES ASSUME NEW U \in SUBSET T
                     PROVE  h[U] = IF U = {} THEN 0 ELSE OneOf(U).amount + h[U \ {OneOf(U)}]
        OBVIOUS
      <4>2. h[U] = IF U = {} THEN 0 ELSE OneOf(U).amount + Total(U \ {OneOf(U)})
        OBVIOUS
      <4>3. QED
        <5> HIDE DEF h
        <5>1. QED
          BY <3>1, <4>2
    <3>3. h = [U \in SUBSET T |-> h[U]]
      OBVIOUS
    <3>4. QED
      <4> HIDE DEF h
      <4>1. QED
        BY <3>2, <3>3 DEF Sums
  <2>4. QED
    <3> HIDE DEF h
    <3>1. QED
      BY <1>1, <2>3
<1>2. Good \in SUBSET (SUBSET R)
  OBVIOUS
<1>3. R \in Good
  <2> HIDE DEF Good
  <2>1. QED
    BY <1>1, <1>2, SubsetInduction
<1>4. QED
  BY <1>3

LEMMA TotalOfNone == Total({}) = 0
<1>1. PICK g : g = CHOOSE f : Sums({}, f)
  OBVIOUS
<1>2. Sums({}, g) /\ Total({}) = g[{}]
  BY <1>1, FS_EmptySet, SumsExist, TotalIsSum
<1>3. QED
  BY <1>2 DEF Sums

\* The recursion, one step.
LEMMA TotalStep ==
    ASSUME NEW R, IsFiniteSet(R), R # {}
    PROVE  Total(R) = OneOf(R).amount + Total(R \ {OneOf(R)})
<1>1. PICK Q : Q = R \ {OneOf(R)}
  OBVIOUS
<1>2. Q \in SUBSET R /\ IsFiniteSet(Q)
  BY <1>1, FS_Subset
<1>3. PICK f, g : f = (CHOOSE k : Sums(R, k)) /\ g = (CHOOSE k : Sums(Q, k))
  OBVIOUS
<1>4. Sums(R, f) /\ Total(R) = f[R] /\ Sums(Q, g) /\ Total(Q) = g[Q]
  BY <1>2, <1>3, SumsExist, TotalIsSum
<1>5. f[Q] = g[Q]
  BY <1>2, <1>4, SumsAgree
<1>6. f[R] = OneOf(R).amount + f[Q]
  BY <1>1, <1>4 DEF Sums
<1>7. QED
  BY <1>1, <1>4, <1>5, <1>6

LEMMA TotalIsInt ==
    ASSUME NEW R \in SUBSET Rows, IsFiniteSet(R)
    PROVE  Total(R) \in Int
<1> DEFINE Good == {T \in SUBSET R : Total(T) \in Int}
<1>1. ASSUME NEW T \in SUBSET R, \A U \in SUBSET T : U # T => U \in Good
      PROVE  T \in Good
  <2>1. CASE T = {}
    BY <2>1, TotalOfNone
  <2>2. CASE T # {}
    <3>1. OneOf(T) \in T /\ OneOf(T).amount \in Int
      BY <2>2, OneOfSet DEF Rows
    <3>2. Total(T \ {OneOf(T)}) \in Int
      BY <1>1, <3>1
    <3>3. Total(T) = OneOf(T).amount + Total(T \ {OneOf(T)})
      BY <2>2, FS_Subset, TotalStep
    <3>4. QED
      BY <3>1, <3>2, <3>3
  <2>3. QED
    BY <2>1, <2>2
<1>2. Good \in SUBSET (SUBSET R)
  OBVIOUS
<1>3. R \in Good
  <2> HIDE DEF Good
  <2>1. QED
    BY <1>1, <1>2, SubsetInduction
<1>4. QED
  BY <1>3

\* Any row may be taken out first.
LEMMA TotalWithout ==
    ASSUME NEW R \in SUBSET Rows, IsFiniteSet(R), NEW x \in R
    PROVE  Total(R) = x.amount + Total(R \ {x})
<1> DEFINE Good == {T \in SUBSET R : \A y \in T : Total(T) = y.amount + Total(T \ {y})}
<1>1. ASSUME NEW T \in SUBSET R, \A U \in SUBSET T : U # T => U \in Good
      PROVE  T \in Good
  <2>1. SUFFICES ASSUME NEW y \in T PROVE Total(T) = y.amount + Total(T \ {y})
    BY <1>1
  <2>2. PICK z \in T : z = OneOf(T)
    BY OneOfSet
  <2>3. \A U \in SUBSET T : IsFiniteSet(U) /\ Total(U) \in Int
    BY <1>1, FS_Subset, TotalIsInt
  <2>4. Total(T) = z.amount + Total(T \ {z})
    BY <2>2, <2>3, TotalStep
  <2>5. CASE y = z
    BY <2>4, <2>5
  <2>6. CASE y # z
    <3>1. PICK Q : Q = (T \ {z}) \ {y} /\ Q = (T \ {y}) \ {z}
      OBVIOUS
    <3>2. T \ {z} \in Good /\ y \in T \ {z} /\ T \ {y} \in Good /\ z \in T \ {y}
      BY <1>1, <2>6
    <3>3. Total(T \ {z}) = y.amount + Total(Q) /\ Total(T \ {y}) = z.amount + Total(Q)
      BY <3>1, <3>2
    <3>4. y.amount \in Int /\ z.amount \in Int /\ Total(Q) \in Int
      BY <2>3, <3>1 DEF Rows
    <3>5. QED
      BY <2>4, <3>3, <3>4
  <2>7. QED
    BY <2>5, <2>6
<1>2. Good \in SUBSET (SUBSET R)
  OBVIOUS
<1>3. R \in Good
  <2> HIDE DEF Good
  <2>1. QED
    BY <1>1, <1>2, SubsetInduction
<1>4. QED
  BY <1>3

-----------------------------------------------------------------------------
UniqueIds(R) == \A q, r \in R : q.id = r.id => q = r

IsNewest(q, R) == q \in R /\ \A s \in R : s.id <= q.id

\* balance_after of the newest row; of no rows, zero.
LastAfter(R) == IF R = {} THEN 0 ELSE (CHOOSE q \in R : \A s \in R : s.id <= q.id).after

LEMMA PrevIsLast == ASSUME NEW R, NEW r PROVE PrevAfter(R, r) = LastAfter({q \in R : q.id < r.id})
BY DEF PrevAfter, LastAfter

LEMMA SomeNewest ==
    ASSUME NEW R \in SUBSET Rows, IsFiniteSet(R), R # {}
    PROVE  \E q : IsNewest(q, R)
<1> DEFINE Good == {T \in SUBSET R : T = {} \/ \E q \in T : \A s \in T : s.id <= q.id}
<1>1. ASSUME NEW T \in SUBSET R, \A U \in SUBSET T : U # T => U \in Good
      PROVE  T \in Good
  <2>1. SUFFICES ASSUME NEW x \in T PROVE \E q \in T : \A s \in T : s.id <= q.id
    OBVIOUS
  <2>2. \A s \in T : s.id \in Nat
    BY DEF Rows
  <2>3. T \ {x} \in Good
    BY <1>1
  <2>4. CASE T \ {x} = {}
    BY <2>2, <2>4
  <2>5. CASE T \ {x} # {}
    <3>1. PICK q \in T \ {x} : \A s \in T \ {x} : s.id <= q.id
      BY <2>3, <2>5
    <3>2. CASE x.id <= q.id
      BY <3>1, <3>2
    <3>3. CASE ~(x.id <= q.id)
      <4>1. \A s \in T : s.id <= x.id
        BY <2>2, <3>1, <3>3
      <4>2. QED
        BY <4>1
    <3>4. QED
      BY <3>2, <3>3
  <2>6. QED
    BY <2>4, <2>5
<1>2. Good \in SUBSET (SUBSET R)
  OBVIOUS
<1>3. R \in Good
  <2> HIDE DEF Good
  <2>1. QED
    BY <1>1, <1>2, SubsetInduction
<1>4. QED
  BY <1>3 DEF IsNewest

LEMMA LastOfNewest ==
    ASSUME NEW R \in SUBSET Rows, UniqueIds(R), NEW q, IsNewest(q, R)
    PROVE  LastAfter(R) = q.after
<1>1. PICK z : z = CHOOSE x \in R : \A s \in R : s.id <= x.id
  OBVIOUS
<1>2. z \in R /\ \A s \in R : s.id <= z.id
  BY <1>1 DEF IsNewest
<1>3. z.id \in Nat /\ q.id \in Nat /\ z.id <= q.id /\ q.id <= z.id
  BY <1>2 DEF IsNewest, Rows
<1>4. z = q
  <2>1. z.id = q.id
    BY <1>3
  <2>2. QED
    BY <1>2, <2>1 DEF UniqueIds, IsNewest
<1>5. QED
  BY <1>1, <1>4 DEF LastAfter, IsNewest

\* A row with an id of its own on top of the others breaks the chain only if
\* it does not start where the last one ended.
LEMMA RowOnTop ==
    ASSUME NEW R \in SUBSET Rows, UniqueIds(R), NEW r \in Rows, \A q \in R : q.id < r.id
    PROVE  /\ UniqueIds(R \cup {r}) /\ IsNewest(r, R \cup {r})
           /\ ChainBroken(R \cup {r}) <=>
                 ChainBroken(R) \/ r.after - r.amount # LastAfter(R)
<1>1. \A q \in R \cup {r} : q.id \in Nat
  BY DEF Rows
<1>2. UniqueIds(R \cup {r}) /\ IsNewest(r, R \cup {r})
  BY <1>1 DEF UniqueIds, IsNewest
<1>3. PrevAfter(R \cup {r}, r) = LastAfter(R)
  <2>1. {q \in R \cup {r} : q.id < r.id} = R
    BY <1>1
  <2>2. QED
    BY <2>1, PrevIsLast
<1>4. ASSUME NEW q \in R PROVE PrevAfter(R \cup {r}, q) = PrevAfter(R, q)
  <2>1. {s \in R \cup {r} : s.id < q.id} = {s \in R : s.id < q.id}
    BY <1>1
  <2>2. QED
    BY <2>1, PrevIsLast
<1>5. QED
  BY <1>2, <1>3, <1>4 DEF ChainBroken

\* An unbroken chain telescopes: the amounts add up to its last balance.
LEMMA ChainTelescopes ==
    ASSUME NEW R \in SUBSET Rows, IsFiniteSet(R), UniqueIds(R), ~ChainBroken(R)
    PROVE  Total(R) = LastAfter(R)
<1> DEFINE Good == {T \in SUBSET R : ChainBroken(T) \/ Total(T) = LastAfter(T)}
<1>1. ASSUME NEW T \in SUBSET R, \A U \in SUBSET T : U # T => U \in Good
      PROVE  T \in Good
  <2>1. CASE T = {}
    BY <2>1, TotalOfNone DEF LastAfter
  <2>2. CASE T # {}
    <3>1. IsFiniteSet(T) /\ UniqueIds(T) /\ T \in SUBSET Rows
      BY FS_Subset DEF UniqueIds
    <3>2. PICK r \in T : IsNewest(r, T)
      BY <2>2, <3>1, SomeNewest DEF IsNewest
    <3>3. PICK Q \in SUBSET T : Q = T \ {r}
      OBVIOUS
    <3>4. Q \in Good /\ T = Q \cup {r} /\ r \in Rows /\ r \notin Q
      BY <1>1, <3>3
    <3>5. \A q \in Q : q.id < r.id
      <4>1. SUFFICES ASSUME NEW q \in Q PROVE q.id < r.id
        OBVIOUS
      <4>2. q.id \in Nat /\ r.id \in Nat /\ q.id <= r.id /\ q.id # r.id
        BY <3>1, <3>2, <3>4 DEF Rows, UniqueIds, IsNewest
      <4>3. QED
        BY <4>2
    <3>6. UniqueIds(Q) /\ Q \in SUBSET Rows
      BY <3>1 DEF UniqueIds
    <3>7. ChainBroken(T) <=> ChainBroken(Q) \/ r.after - r.amount # LastAfter(Q)
      BY <3>4, <3>5, <3>6, RowOnTop
    <3>8. SUFFICES ASSUME ~ChainBroken(T) PROVE Total(T) = LastAfter(T)
      BY <2>2
    <3>9. Total(Q) = r.after - r.amount
      BY <3>4, <3>7, <3>8
    <3>10. Total(T) = r.amount + Total(Q)
      BY <3>1, <3>3, TotalWithout
    <3>11. r.after \in Int /\ r.amount \in Int
      BY <3>4 DEF Rows
    <3>12. LastAfter(T) = r.after
      BY <3>1, <3>2, LastOfNewest
    <3>13. QED
      BY <3>9, <3>10, <3>11, <3>12
  <2>3. QED
    BY <2>1, <2>2
<1>2. Good \in SUBSET (SUBSET R)
  OBVIOUS
<1>3. R \in Good
  <2> HIDE DEF Good
  <2>1. QED
    BY <1>1, <1>2, SubsetInduction
<1>4. QED
  BY <1>3

\* What Broken is about, of a balance and the rows: a legitimate entry, on
\* top of the others and from the balance on, leaves it as it was.
BrokenBooks(b, R) == b # Total(R) \/ ChainBroken(R)

LEMMA EntryKeepsBooks ==
    ASSUME NEW R \in SUBSET Rows, IsFiniteSet(R), UniqueIds(R), NEW b \in Int,
           NEW r \in Rows, \A q \in R : q.id < r.id, r.after = b + r.amount
    PROVE  BrokenBooks(r.after, R \cup {r}) <=> BrokenBooks(b, R)
<1>1. r.amount \in Int /\ r.after \in Int /\ r.id \in Nat /\ r \notin R
  BY DEF Rows
<1>2. IsFiniteSet(R \cup {r}) /\ R \cup {r} \in SUBSET Rows /\ (R \cup {r}) \ {r} = R
  BY <1>1, FS_AddElement
<1>3. Total(R \cup {r}) = r.amount + Total(R)
  BY <1>2, TotalWithout
<1>4. Total(R) \in Int
  BY TotalIsInt
<1>5. r.after # Total(R \cup {r}) <=> b # Total(R)
  BY <1>1, <1>3, <1>4
<1>6. ChainBroken(R \cup {r}) <=> ChainBroken(R) \/ b # LastAfter(R)
  <2>1. r.after - r.amount = b
    BY <1>1
  <2>2. QED
    BY <2>1, RowOnTop
<1>7. ~ChainBroken(R) => Total(R) = LastAfter(R)
  BY ChainTelescopes
<1>8. QED
  BY <1>5, <1>6, <1>7 DEF BrokenBooks

LEMMA BrokenIsOfBooks ==
    ASSUME NEW u
    PROVE  /\ Broken(u) <=> BrokenBooks(balance[u], rows[u])
           /\ Broken(u)' <=> BrokenBooks(balance'[u], rows'[u])
<1>1. Broken(u) <=> balance[u] # Total(rows[u]) \/ ChainBroken(rows[u])
  BY DEF Broken, SumsDiffer, Total
<1>2. Broken(u)' <=> (balance[u] # Total(rows[u]) \/ ChainBroken(rows[u]))'
  BY DEF Broken, SumsDiffer, Total
<1>3. (balance[u] # Total(rows[u]) \/ ChainBroken(rows[u]))'
          <=> balance'[u] # Total(rows'[u]) \/ ChainBroken(rows'[u])
  OBVIOUS
<1>4. QED
  BY <1>1, <1>2, <1>3 DEF BrokenBooks

-----------------------------------------------------------------------------
\* The ids of a user's rows are their own.
BooksOf(u) ==
    IsFiniteSet(rows[u]) /\ UniqueIds(rows[u])

\* What q has read of books that others may write meanwhile, and still holds.
\* A run has lost sight of no books that were broken when it began.
Remembers(q) ==
    LET s == session[q] IN
    /\ pc[q] = "w_flushed" => s.row.after = balance[s.user] + s.row.amount
    /\ pc[q] = "a_locked" => s.balance = balance[s.user]
    /\ \A u \in s.bad : Broken(u)
    /\ pc[q] = "a_sums" => \A u \in s.bad : u \in s.todo \/ ChainBroken(rows[u])
    /\ pc[q] = "a_users" => s.bad \subseteq s.todo \cup s.found
    /\ pc[q] = "a_locked" => s.bad \subseteq s.todo \cup s.found \cup {s.user}

BInv ==
    /\ IInv
    /\ \A u \in Users : BooksOf(u)
    /\ \A q \in Procs : Remembers(q)

LEMMA InitBooks == Init => BInv
<1> SUFFICES ASSUME Init PROVE BInv
  OBVIOUS
<1>1. IInv
  BY InitInv
<1>2. ASSUME NEW u \in Users PROVE BooksOf(u)
  <2>1. balance[u] = 0 /\ rows[u] = {}
    BY DEF Init
  <2>2. QED
    BY <2>1, FS_EmptySet DEF BooksOf, UniqueIds
<1>3. ASSUME NEW q \in Procs PROVE Remembers(q)
  <2>1. pc[q] = "idle" /\ session[q].bad = {}
    BY DEF Init, Idle
  <2>2. QED
    BY <2>1 DEF Remembers
<1>4. QED
  BY <1>1, <1>2, <1>3 DEF BInv

\* Books that nobody writes agree or not as they did.
LEMMA BooksSame ==
    ASSUME NEW u, balance'[u] = balance[u], rows'[u] = rows[u]
    PROVE  Broken(u)' <=> Broken(u)
<1>1. QED
  BY BrokenIsOfBooks

\* A process goes on with session s, nothing is written.
LEMMA QuietBooks ==
    ASSUME BInv, IInv', UNCHANGED books,
           NEW p \in Procs, NEW step \in Steps, NEW s \in Sessions,
           pc' = [pc EXCEPT ![p] = step], session' = [session EXCEPT ![p] = s],
           step = "w_flushed" => s.row.after = balance[s.user] + s.row.amount,
           step = "a_locked" => s.balance = balance[s.user],
           \A u \in s.bad : Broken(u),
           step = "a_sums" => \A u \in s.bad : u \in s.todo \/ ChainBroken(rows[u]),
           step = "a_users" => s.bad \subseteq s.todo \cup s.found,
           step = "a_locked" => s.bad \subseteq s.todo \cup s.found \cup {s.user}
    PROVE  BInv'
<1>1. balance' = balance /\ rows' = rows
  BY DEF books
<1>2. \A u : Broken(u)' <=> Broken(u)
  BY <1>1, BooksSame
<1>3. \A u \in Users : BooksOf(u)'
  BY <1>1, <1>2 DEF BInv, BooksOf
<1>4. /\ pc'[p] = step /\ session'[p] = s
      /\ \A q \in Procs \ {p} : pc'[q] = pc[q] /\ session'[q] = session[q]
  BY DEF BInv, IInv
<1>5. Remembers(p)'
  BY <1>1, <1>2, <1>4 DEF Remembers
<1>6. ASSUME NEW q \in Procs \ {p} PROVE Remembers(q)'
  <2>1. Remembers(q) /\ pc'[q] = pc[q] /\ session'[q] = session[q]
    BY <1>4 DEF BInv
  <2>2. QED
    BY <1>1, <1>2, <2>1 DEF Remembers
<1>7. QED
  BY <1>3, <1>5, <1>6 DEF BInv

LEMMA FinishBooks ==
    ASSUME BInv, IInv', NEW p \in Procs, Finish(p), UNCHANGED books
    PROVE  BInv'
<1>1. pc' = [pc EXCEPT ![p] = "idle"] /\ session' = [session EXCEPT ![p] = Idle]
  BY DEF Finish, Goto
<1>2. Idle.bad = {} /\ "idle" \in Steps
  BY DEF Idle, Steps
<1>3. QED
  BY <1>1, <1>2, IdleFits, QuietBooks

LEMMA WriteBooks ==
    ASSUME BInv, IInv', NEW p \in Procs, NEW u \in Users, NEW a \in Amounts, Write(p, u, a)
    PROVE  BInv'
<1>1. PICK r \in Rows : /\ r = [id |-> nextId, amount |-> a, after |-> balance[u] + a]
                        /\ r.after = balance[u] + r.amount
  <2> DEFINE r == [id |-> nextId, amount |-> a, after |-> balance[u] + a]
  <2>1. r \in Rows /\ r.after = balance[u] + r.amount
    BY NumbersAreInt DEF BInv, IInv, Typed, Rows
  <2>2. QED
    BY <2>1
<1>2. PICK s \in Sessions : /\ s = Writing(u, r)
                            /\ s.user = u /\ s.row = r /\ s.bad = {}
  BY WriterSession
<1>3. /\ session' = [session EXCEPT ![p] = s] /\ pc' = [pc EXCEPT ![p] = "w_flushed"]
      /\ UNCHANGED <<books, reported>>
  BY <1>1, <1>2 DEF Write, Writing, Goto
<1>4. "w_flushed" \in Steps
  BY <1>3 DEF Steps
<1>5. QED
  BY <1>1, <1>2, <1>3, <1>4, QuietBooks

\* What a commit writes: one row, on top of the others and from the balance on.
LEMMA CommitEntry ==
    ASSUME BInv, NEW p \in Procs, WriteCommit(p)
    PROVE  \E u \in Users, r \in Rows :
              /\ userLock[u] = p
              /\ balance' = [balance EXCEPT ![u] = r.after]
              /\ rows' = [rows EXCEPT ![u] = @ \cup {r}]
              /\ r.after = balance[u] + r.amount /\ \A q \in rows[u] : q.id < r.id
<1>1. PICK x \in Sessions : x = session[p] /\ pc[p] = "w_flushed"
  BY DEF BInv, IInv, WriteCommit
<1>2. PICK u \in Users, r \in Rows : u = x.user /\ r = x.row
  BY <1>1 DEF BInv, IInv, Fits, Holding, Sessions
<1>3. userLock[u] = p /\ \A i \in Ids(u) : i < r.id
  BY <1>1, <1>2 DEF BInv, IInv, Fits, Holding
<1>4. r.after = balance[u] + r.amount
  BY <1>1, <1>2 DEF BInv, Remembers
<1>5. balance' = [balance EXCEPT ![u] = r.after] /\ rows' = [rows EXCEPT ![u] = @ \cup {r}]
  BY <1>1, <1>2 DEF WriteCommit
<1>6. \A q \in rows[u] : q.id < r.id
  BY <1>3 DEF Ids
<1>7. QED
  BY <1>3, <1>4, <1>5, <1>6

LEMMA CommitKeepsBroken ==
    ASSUME BInv, NEW u \in Users, NEW r \in Rows,
           balance' = [balance EXCEPT ![u] = r.after],
           rows' = [rows EXCEPT ![u] = @ \cup {r}],
           r.after = balance[u] + r.amount, \A q \in rows[u] : q.id < r.id
    PROVE  \A v \in Users : /\ Broken(v)' <=> Broken(v)
                            /\ ChainBroken(rows[v]) => ChainBroken(rows'[v])
                            /\ IsFiniteSet(rows'[v]) /\ UniqueIds(rows'[v])
<1>1. SUFFICES ASSUME NEW v \in Users
               PROVE  /\ Broken(v)' <=> Broken(v)
                      /\ ChainBroken(rows[v]) => ChainBroken(rows'[v])
                      /\ IsFiniteSet(rows'[v]) /\ UniqueIds(rows'[v])
  OBVIOUS
<1>2. /\ rows[v] \in SUBSET Rows /\ IsFiniteSet(rows[v]) /\ UniqueIds(rows[v])
      /\ balance[v] \in Int
  BY DEF BInv, IInv, Typed, BooksOf
<1>3. CASE v # u
  <2>1. balance'[v] = balance[v] /\ rows'[v] = rows[v]
    BY <1>3 DEF BInv, IInv, Typed
  <2>2. QED
    BY <1>2, <2>1, BooksSame
<1>4. CASE v = u
  <2>1. balance'[u] = r.after /\ rows'[u] = rows[u] \cup {r}
    BY DEF BInv, IInv, Typed
  <2>2. BrokenBooks(r.after, rows[u] \cup {r}) <=> BrokenBooks(balance[u], rows[u])
    BY <1>2, <1>4, EntryKeepsBooks
  <2>3. Broken(u)' <=> Broken(u)
    BY <2>1, <2>2, BrokenIsOfBooks
  <2>4. UniqueIds(rows[u] \cup {r}) /\ (ChainBroken(rows[u]) => ChainBroken(rows[u] \cup {r}))
    BY <1>2, <1>4, RowOnTop
  <2>5. IsFiniteSet(rows[u] \cup {r})
    BY <1>2, <1>4, FS_AddElement
  <2>6. QED
    BY <1>4, <2>1, <2>3, <2>4, <2>5
<1>5. QED
  BY <1>3, <1>4

LEMMA WriteCommitBooks ==
    ASSUME BInv, IInv', NEW p \in Procs, WriteCommit(p)
    PROVE  BInv'
<1>1. PICK u \in Users, r \in Rows :
              /\ userLock[u] = p
              /\ balance' = [balance EXCEPT ![u] = r.after]
              /\ rows' = [rows EXCEPT ![u] = @ \cup {r}]
              /\ r.after = balance[u] + r.amount /\ \A q \in rows[u] : q.id < r.id
  BY CommitEntry
<1>2. \A v \in Users : /\ Broken(v)' <=> Broken(v)
                       /\ ChainBroken(rows[v]) => ChainBroken(rows'[v])
                       /\ IsFiniteSet(rows'[v]) /\ UniqueIds(rows'[v])
  BY <1>1, CommitKeepsBroken
<1>3. /\ UNCHANGED reported
      /\ pc'[p] = "idle" /\ session'[p] = Idle
      /\ \A q \in Procs \ {p} : pc'[q] = pc[q] /\ session'[q] = session[q]
  BY DEF WriteCommit, Finish, Goto, BInv, IInv
<1>4. \A v \in Users : BooksOf(v)'
  BY <1>2, <1>3 DEF BInv, BooksOf
<1>5. ASSUME NEW q \in Procs PROVE Remembers(q)'
  <2>1. CASE q = p
    <3>1. Idle.bad = {}
      BY DEF Idle
    <3>2. QED
      BY <1>3, <2>1, <3>1 DEF Remembers
  <2>2. CASE q # p
    <3>1. PICK x \in Sessions : /\ x = session[q] /\ x = session'[q] /\ pc'[q] = pc[q]
                                /\ Remembers(q) /\ Fits(q, pc[q], x)
      BY <1>3, <2>2 DEF BInv, IInv
    <3>2. x.bad \subseteq Users
      BY DEF Sessions
    <3>3. pc[q] \in Holding => x.user \in Users /\ x.user # u
      BY <1>1, <2>2, <3>1 DEF Fits
    <3>4. pc[q] \in Holding => balance'[x.user] = balance[x.user]
      BY <1>1, <3>3 DEF BInv, IInv, Typed
    <3>5. QED
      BY <1>2, <3>1, <3>2, <3>4 DEF Remembers, Holding
  <2>3. QED
    BY <2>1, <2>2
<1>6. QED
  BY <1>3, <1>4, <1>5 DEF BInv

-----------------------------------------------------------------------------
LEMMA ScanSumsBooks == ASSUME BInv, IInv', NEW p \in Procs, ScanSums(p) PROVE BInv'
<1>1. PICK us \in SUBSET Users, vs \in SUBSET Users :
          us = {u \in Users : SumsDiffer(u, balance[u])} /\ vs = {u \in Users : Broken(u)}
  OBVIOUS
<1>2. PICK s \in Sessions : s = Scanned(us, vs) /\ s.todo = us /\ s.bad = vs
  BY ScanSession
<1>3. /\ session' = [session EXCEPT ![p] = s] /\ pc' = [pc EXCEPT ![p] = "a_sums"]
      /\ UNCHANGED <<books, reported>>
  BY <1>1, <1>2 DEF ScanSums, Scanned, Goto
<1>4. /\ \A u \in s.bad : u \in s.todo \/ ChainBroken(rows[u])
      /\ \A u \in s.bad : Broken(u)
  BY <1>1, <1>2 DEF Broken
<1>5. "a_sums" \in Steps
  BY <1>3 DEF Steps
<1>6. QED
  BY <1>2, <1>3, <1>4, <1>5, QuietBooks

LEMMA ScanChainsBooks == ASSUME BInv, IInv', NEW p \in Procs, ScanChains(p) PROVE BInv'
<1>1. PICK x \in Sessions : x = session[p] /\ pc[p] = "a_sums" /\ Remembers(p)
  BY DEF BInv, IInv, ScanChains
<1>2. Suspects(p) \in SUBSET Users /\ Suspects(p) = x.todo \cup {u \in Users : ChainBroken(rows[u])}
  BY <1>1 DEF Suspects, Sessions
<1>3. PICK s \in Sessions : /\ s = Suspecting(x, Suspects(p))
                            /\ s.todo = Suspects(p) /\ s.bad = x.bad
  BY <1>2, TodoSession
<1>4. /\ session' = [session EXCEPT ![p] = s] /\ pc' = [pc EXCEPT ![p] = "a_users"]
      /\ UNCHANGED <<books, reported>>
  BY <1>1, <1>3 DEF ScanChains, Suspecting, Goto, BInv, IInv
<1>5. \A u \in s.bad : Broken(u)
  BY <1>1, <1>3 DEF Remembers
<1>6. ASSUME NEW u \in s.bad PROVE u \in s.todo
  <2>1. u \in Users /\ (u \in x.todo \/ ChainBroken(rows[u]))
    BY <1>1, <1>3 DEF Remembers, Sessions
  <2>2. QED
    BY <1>2, <1>3, <2>1
<1>7. "a_users" \in Steps
  BY <1>4 DEF Steps
<1>8. QED
  BY <1>4, <1>5, <1>6, <1>7, QuietBooks

LEMMA AuditLockBooks ==
    ASSUME BInv, IInv', NEW p \in Procs, NEW u \in Users, AuditLock(p, u)
    PROVE  BInv'
<1>1. PICK x \in Sessions : x = session[p] /\ pc[p] = "a_users" /\ Remembers(p)
  BY DEF BInv, IInv, AuditLock
<1>2. PICK s \in Sessions :
          /\ s = Locking(x, u, balance[u])
          /\ s.user = u /\ s.balance = balance[u] /\ s.todo = x.todo \ {u}
          /\ s.bad = x.bad /\ s.found = x.found
  <2>1. balance[u] \in Int
    BY DEF BInv, IInv, Typed
  <2>2. QED
    BY <2>1, LockedSession
<1>3. /\ session' = [session EXCEPT ![p] = s] /\ pc' = [pc EXCEPT ![p] = "a_locked"]
      /\ UNCHANGED <<books, reported>>
  BY <1>1, <1>2 DEF AuditLock, Locking, Goto, BInv, IInv
<1>4. \A v \in s.bad : Broken(v)
  BY <1>1, <1>2 DEF Remembers
<1>5. s.bad \subseteq s.todo \cup s.found \cup {s.user}
  BY <1>1, <1>2 DEF Remembers
<1>6. "a_locked" \in Steps
  BY <1>3 DEF Steps
<1>7. QED
  BY <1>2, <1>3, <1>4, <1>5, <1>6, QuietBooks

\* Under the lock, the re-check sees the books as they are.
LEMMA RecheckIsTrue ==
    ASSUME BInv, NEW p \in Procs, pc[p] = "a_locked"
    PROVE  session[p].user \in Users /\ (Mismatch(p) <=> Broken(session[p].user))
<1>1. session[p].user \in Users /\ session[p].balance = balance[session[p].user]
  BY DEF BInv, IInv, Fits, Holding, Remembers
<1>2. PICK u, b : u \in Users /\ u = session[p].user /\ b = session[p].balance /\ b = balance[u]
  BY <1>1
<1>3. Mismatch(p) <=> SumsDiffer(u, b) \/ ChainBroken(rows[u])
  BY <1>2 DEF Mismatch
<1>4. QED
  BY <1>2, <1>3 DEF Broken

LEMMA AuditClearBooks == ASSUME BInv, IInv', NEW p \in Procs, AuditClear(p) PROVE BInv'
<1>1. PICK x \in Sessions : x = session[p] /\ pc[p] = "a_locked" /\ Remembers(p)
  BY DEF BInv, IInv, AuditClear
<1>2. ~Broken(x.user)
  BY <1>1, RecheckIsTrue DEF AuditClear
<1>3. \A u \in x.bad : Broken(u)
  BY <1>1 DEF Remembers
<1>4. x.bad \subseteq x.todo \cup x.found
  BY <1>1, <1>2 DEF Remembers
<1>5. /\ session' = [session EXCEPT ![p] = x] /\ pc' = [pc EXCEPT ![p] = "a_users"]
      /\ UNCHANGED <<books, reported>>
  BY <1>1 DEF AuditClear, Goto, BInv, IInv
<1>6. "a_users" \in Steps
  BY <1>5 DEF Steps
<1>7. QED
  BY <1>3, <1>4, <1>5, <1>6, QuietBooks

LEMMA AuditReportBooks == ASSUME BInv, IInv', NEW p \in Procs, AuditReport(p) PROVE BInv'
<1>1. PICK x \in Sessions : x = session[p] /\ pc[p] = "a_locked" /\ Remembers(p)
  BY DEF BInv, IInv, AuditReport
<1>2. PICK u \in Users : u = x.user /\ Broken(u)
  BY <1>1, RecheckIsTrue DEF AuditReport
<1>3. x.found \cup {u} \in SUBSET Users
  BY DEF Sessions
<1>4. PICK s \in Sessions : /\ s = Finding(x, x.found \cup {u})
                            /\ s.found = x.found \cup {u} /\ s.bad = x.bad /\ s.todo = x.todo
  BY <1>3, FoundSession
<1>5. /\ session' = [session EXCEPT ![p] = s] /\ pc' = [pc EXCEPT ![p] = "a_users"]
      /\ reported' = reported \cup {u} /\ UNCHANGED books
  BY <1>1, <1>2, <1>4 DEF AuditReport, Finding, Goto, BInv, IInv
<1>6. \A v \in s.bad : Broken(v)
  BY <1>1, <1>4 DEF Remembers
<1>7. s.bad \subseteq s.todo \cup s.found
  BY <1>1, <1>2, <1>4 DEF Remembers
<1>8. "a_users" \in Steps
  BY DEF Steps
<1>9. QED
  BY <1>5, <1>6, <1>7, <1>8, QuietBooks

LEMMA EndBooks ==
    ASSUME BInv, IInv', NEW p \in Procs, AuditEnd(p) \/ Leave(p) \/ Abort(p)
    PROVE  BInv'
<1>1. Finish(p) /\ UNCHANGED <<books, reported>>
  BY DEF AuditEnd, Leave, Abort
<1>2. QED
  BY <1>1, FinishBooks

\* A client reads no balance and remembers no broken books.
LEMMA PageBooks ==
    ASSUME BInv, IInv', NEW p \in Procs, NEW x \in Sessions, NEW ids, Page(p, x, ids),
           \A u \in x.bad : Broken(u)
    PROVE  BInv'
<1>1. PICK page, c :
          /\ \/ /\ session' = [session EXCEPT ![p] = [Got(x, page) EXCEPT !.cursor = c]]
                /\ pc' = [pc EXCEPT ![p] = "p_more"]
             \/ /\ session' = [session EXCEPT ![p] = [Got(x, page) EXCEPT !.cursor = 0]]
                /\ pc' = [pc EXCEPT ![p] = "p_end"]
          /\ UNCHANGED <<books, reported>>
  BY DEF Page, Goto
<1>2. PICK s : /\ session' = [session EXCEPT ![p] = s] /\ s.bad = x.bad
  <2>1. PICK d : session' = [session EXCEPT ![p] = [Got(x, page) EXCEPT !.cursor = d]]
    BY <1>1
  <2>2. [Got(x, page) EXCEPT !.cursor = d].bad = x.bad
    BY DEF Got, Sessions
  <2>3. QED
    BY <2>1, <2>2
<1>3. PICK step \in Paging : pc' = [pc EXCEPT ![p] = step]
  BY <1>1 DEF Paging
<1>4. s \in Sessions
  <2>1. session'[p] \in Sessions /\ session'[p] = s
    BY <1>2 DEF BInv, IInv
  <2>2. QED
    BY <2>1
<1>5. step \in Steps
  BY <1>1 DEF Paging, Steps
<1>6. QED
  BY <1>1, <1>2, <1>3, <1>4, <1>5, QuietBooks DEF Paging

LEMMA FirstPageBooks ==
    ASSUME BInv, IInv', NEW p \in Procs, NEW u \in Users, FirstPage(p, u)
    PROVE  BInv'
<1>1. PICK ids \in SUBSET Nat : ids = Ids(u)
  BY IdsAreNat DEF BInv
<1>2. PICK x \in Sessions : x = Opened(u, ids) /\ x.bad = {}
  BY FirstSession
<1>3. Page(p, x, ids)
  BY <1>1, <1>2 DEF FirstPage, Opened
<1>4. QED
  BY <1>2, <1>3, PageBooks

LEMMA NextPageBooks == ASSUME BInv, IInv', NEW p \in Procs, NextPage(p) PROVE BInv'
<1>1. PICK x \in Sessions : x = session[p] /\ Remembers(p)
  BY DEF BInv, IInv
<1>2. \A u \in x.bad : Broken(u)
  BY <1>1 DEF Remembers
<1>3. QED
  BY <1>1, <1>2, PageBooks DEF NextPage

-----------------------------------------------------------------------------
\* A hand touches one user's books; what a run has read of them it forgets,
\* and whoever holds the row has its balance.
LEMMA TamperBooks ==
    ASSUME BInv, IInv', NEW u \in Users, Tamper(u),
           IsFiniteSet(rows'[u]), UniqueIds(rows'[u]),
           \A v \in Users \ {u} : balance'[v] = balance[v] /\ rows'[v] = rows[v],
           balance'[u] = balance[u] \/ UserFree(u)
    PROVE  BInv'
<1>1. /\ UNCHANGED <<userLock, pc, reported>>
      /\ session' = [q \in Procs |-> [session[q] EXCEPT !.bad = @ \ {u}]]
  BY DEF Tamper
<1>2. \A v \in Users \ {u} : /\ Broken(v)' <=> Broken(v)
                            /\ rows'[v] = rows[v]
  BY BooksSame
<1>3. ASSUME NEW v \in Users PROVE BooksOf(v)'
  <2>1. CASE v = u
    BY <1>1, <2>1 DEF BooksOf
  <2>2. CASE v # u
    <3>1. BooksOf(v) /\ (Broken(v)' <=> Broken(v)) /\ rows'[v] = rows[v]
      BY <1>2, <2>2 DEF BInv
    <3>2. QED
      BY <1>1, <3>1 DEF BooksOf
  <2>3. QED
    BY <2>1, <2>2
<1>4. ASSUME NEW q \in Procs PROVE Remembers(q)'
  <2>1. PICK x \in Sessions : x = session[q] /\ Remembers(q) /\ Fits(q, pc[q], x)
    BY DEF BInv, IInv
  <2>2. PICK y : /\ y = [x EXCEPT !.bad = @ \ {u}]
                 /\ y.user = x.user /\ y.row = x.row /\ y.balance = x.balance
                 /\ y.todo = x.todo /\ y.found = x.found /\ y.bad = x.bad \ {u}
    <3> DEFINE y == [x EXCEPT !.bad = @ \ {u}]
    <3>1. /\ y.user = x.user /\ y.row = x.row /\ y.balance = x.balance
          /\ y.todo = x.todo /\ y.found = x.found /\ y.bad = x.bad \ {u}
      BY DEF Sessions
    <3>2. QED
      BY <3>1
  <2>3. session'[q] = y /\ pc'[q] = pc[q]
    BY <1>1, <2>1, <2>2
  <2>4. pc[q] \in Holding => x.user \in Users /\ balance'[x.user] = balance[x.user]
    <3>1. SUFFICES ASSUME pc[q] \in Holding
                   PROVE  x.user \in Users /\ balance'[x.user] = balance[x.user]
      OBVIOUS
    <3>2. PICK v \in Users : v = x.user /\ userLock[v] = q
      BY <2>1, <3>1 DEF Fits
    <3>3. q # None
      BY NoneIsNew
    <3>4. QED
      BY <3>2, <3>3 DEF UserFree
  <2>5. y.bad \subseteq Users \ {u} /\ y.bad \subseteq x.bad
    BY <2>2 DEF Sessions
  <2>6. pc[q] = "w_flushed" => y.row.after = balance'[y.user] + y.row.amount
    BY <2>1, <2>2, <2>4 DEF Remembers, Holding
  <2>7. pc[q] = "a_locked" => y.balance = balance'[y.user]
    BY <2>1, <2>2, <2>4 DEF Remembers, Holding
  <2>8. \A v \in y.bad : Broken(v)'
    BY <1>2, <2>1, <2>5 DEF Remembers
  <2>9. pc[q] = "a_sums" => \A v \in y.bad : v \in y.todo \/ ChainBroken(rows'[v])
    BY <1>2, <2>1, <2>2, <2>5 DEF Remembers
  <2>10. pc[q] = "a_users" => y.bad \subseteq y.todo \cup y.found
    BY <2>1, <2>2 DEF Remembers
  <2>11. pc[q] = "a_locked" => y.bad \subseteq y.todo \cup y.found \cup {y.user}
    BY <2>1, <2>2 DEF Remembers
  <2>12. QED
    BY <2>3, <2>6, <2>7, <2>8, <2>9, <2>10, <2>11 DEF Remembers
<1>5. QED
  BY <1>3, <1>4 DEF BInv

LEMMA TamperBalanceBooks ==
    ASSUME BInv, IInv', NEW u \in Users, NEW d \in Wrong, TamperBalance(u, d)
    PROVE  BInv'
<1>1. /\ rows' = rows /\ UserFree(u) /\ Tamper(u)
      /\ \A v \in Users \ {u} : balance'[v] = balance[v]
  BY DEF TamperBalance, BInv, IInv, Typed
<1>2. IsFiniteSet(rows'[u]) /\ UniqueIds(rows'[u])
  BY <1>1 DEF BInv, BooksOf
<1>3. QED
  BY <1>1, <1>2, TamperBooks

\* The row keeps its id.
LEMMA TamperRowBooks ==
    ASSUME BInv, IInv', NEW u \in Users, NEW r \in rows[u], NEW a \in Wrong, NEW d \in Wrong,
           TamperRow(u, r, a, d)
    PROVE  BInv'
<1>1. r \in Rows /\ rows[u] \in SUBSET Rows /\ IsFiniteSet(rows[u]) /\ UniqueIds(rows[u])
  BY DEF BInv, IInv, Typed, BooksOf
<1>2. PICK c : c = [r EXCEPT !.amount = @ + a, !.after = @ + d] /\ c.id = r.id
  <2> DEFINE c == [r EXCEPT !.amount = @ + a, !.after = @ + d]
  <2>1. c.id = r.id
    BY <1>1 DEF Rows
  <2>2. QED
    BY <2>1
<1>3. /\ rows' = [rows EXCEPT ![u] = (@ \ {r}) \cup {c}]
      /\ balance' = balance /\ Tamper(u)
  BY <1>2 DEF TamperRow
<1>4. /\ rows'[u] = (rows[u] \ {r}) \cup {c}
      /\ \A v \in Users \ {u} : rows'[v] = rows[v]
  BY <1>3 DEF BInv, IInv, Typed
<1>5. IsFiniteSet((rows[u] \ {r}) \cup {c})
  BY <1>1, FS_AddElement, FS_RemoveElement
<1>6. UniqueIds((rows[u] \ {r}) \cup {c})
  BY <1>1, <1>2 DEF UniqueIds
<1>7. QED
  BY <1>3, <1>4, <1>5, <1>6, TamperBooks

-----------------------------------------------------------------------------
LEMMA NextBooks == BInv /\ [Next]_vars => BInv'
<1> SUFFICES ASSUME BInv, [Next]_vars PROVE BInv'
  OBVIOUS
<1>1. IInv'
  BY NextInv DEF BInv
<1>2. ASSUME NEW p \in Procs, NEW u \in Users, NEW a \in Amounts, Write(p, u, a) PROVE BInv'
  BY <1>1, <1>2, WriteBooks
<1>3. ASSUME NEW p \in Procs, WriteCommit(p) PROVE BInv'
  BY <1>1, <1>3, WriteCommitBooks
<1>4. ASSUME NEW p \in Procs, ScanSums(p) PROVE BInv'
  BY <1>1, <1>4, ScanSumsBooks
<1>5. ASSUME NEW p \in Procs, ScanChains(p) PROVE BInv'
  BY <1>1, <1>5, ScanChainsBooks
<1>6. ASSUME NEW p \in Procs, NEW u \in Users, AuditLock(p, u) PROVE BInv'
  BY <1>1, <1>6, AuditLockBooks
<1>7. ASSUME NEW p \in Procs, AuditClear(p) PROVE BInv'
  BY <1>1, <1>7, AuditClearBooks
<1>8. ASSUME NEW p \in Procs, AuditReport(p) PROVE BInv'
  BY <1>1, <1>8, AuditReportBooks
<1>9. ASSUME NEW p \in Procs, AuditEnd(p) \/ Leave(p) \/ Abort(p) PROVE BInv'
  BY <1>1, <1>9, EndBooks
<1>10. ASSUME NEW p \in Procs, NEW u \in Users, FirstPage(p, u) PROVE BInv'
  BY <1>1, <1>10, FirstPageBooks
<1>11. ASSUME NEW p \in Procs, NextPage(p) PROVE BInv'
  BY <1>1, <1>11, NextPageBooks
<1>12. ASSUME NEW u \in Users, NEW d \in Wrong, TamperBalance(u, d) PROVE BInv'
  BY <1>1, <1>12, TamperBalanceBooks
<1>13. ASSUME NEW u \in Users, NEW r \in rows[u], NEW a \in Wrong, NEW d \in Wrong,
              TamperRow(u, r, a, d)
       PROVE  BInv'
  BY <1>1, <1>13, TamperRowBooks
<1>14. ASSUME UNCHANGED vars PROVE BInv'
  <2>1. UNCHANGED <<balance, rows, reported, pc, session>>
    BY <1>14 DEF vars, books
  <2>2. \A u : Broken(u)' <=> Broken(u)
    BY <2>1, BooksSame
  <2>3. \A u \in Users : BooksOf(u)'
    BY <2>1, <2>2 DEF BInv, BooksOf
  <2>4. \A q \in Procs : Remembers(q)'
    BY <2>1, <2>2 DEF BInv, Remembers
  <2>5. QED
    BY <1>1, <2>3, <2>4 DEF BInv
<1>15. QED
  BY <1>2, <1>3, <1>4, <1>5, <1>6, <1>7, <1>8, <1>9, <1>10, <1>11, <1>12, <1>13, <1>14 DEF Next

LEMMA AlwaysBInv == Spec => []BInv
  BY InitBooks, NextBooks, PTL DEF Spec

-----------------------------------------------------------------------------
\* No run has found anybody it had not found before.
NothingNew ==
    reported' = reported /\ \A q \in Procs : session'[q].found \subseteq session[q].found

LEMMA GoesOn ==
    ASSUME BInv, NEW p \in Procs, NEW s, session' = [session EXCEPT ![p] = s],
           s.found \subseteq session[p].found, reported' = reported
    PROVE  NothingNew
BY DEF BInv, IInv, NothingNew

LEMMA PageFindsNothing ==
    ASSUME BInv, NEW p \in Procs, NEW x \in Sessions, NEW ids, Page(p, x, ids),
           x.found \subseteq session[p].found
    PROVE  NothingNew
<1>1. PICK page, d : session' = [session EXCEPT ![p] = [Got(x, page) EXCEPT !.cursor = d]]
  BY DEF Page
<1>2. PICK s : s = [Got(x, page) EXCEPT !.cursor = d]
  OBVIOUS
<1>3. s.found = x.found
  BY <1>2 DEF Got, Sessions
<1>4. session' = [session EXCEPT ![p] = s] /\ reported' = reported
  BY <1>1, <1>2 DEF Page
<1>5. QED
  BY <1>3, <1>4, GoesOn

LEMMA OnlyReportsFind ==
    ASSUME BInv, [Next]_vars, \A p \in Procs : ~AuditReport(p)
    PROVE  NothingNew
<1>1. Idle.found = {} /\ session \in [Procs -> Sessions]
  BY DEF Idle, BInv, IInv
<1>2. ASSUME NEW p \in Procs, NEW u \in Users, NEW a \in Amounts, Write(p, u, a) PROVE NothingNew
  <2>1. PICK s : s = [Idle EXCEPT !.user = u,
                      !.row = [id |-> nextId, amount |-> a, after |-> balance[u] + a]]
    OBVIOUS
  <2>2. s.found = {}
    BY <2>1 DEF Idle
  <2>3. session' = [session EXCEPT ![p] = s] /\ reported' = reported
    BY <1>2, <2>1 DEF Write
  <2>4. QED
    BY <2>2, <2>3, GoesOn
<1>3. ASSUME NEW p \in Procs, WriteCommit(p) \/ AuditEnd(p) \/ Leave(p) \/ Abort(p)
      PROVE  NothingNew
  <2>1. session' = [session EXCEPT ![p] = Idle] /\ reported' = reported
    BY <1>3 DEF WriteCommit, AuditEnd, Leave, Abort, Finish
  <2>2. QED
    BY <1>1, <2>1, GoesOn
<1>4. ASSUME NEW p \in Procs, ScanSums(p) PROVE NothingNew
  <2>1. PICK s : s = Scanned({u \in Users : SumsDiffer(u, balance[u])}, {u \in Users : Broken(u)})
    OBVIOUS
  <2>2. s.found = {}
    BY <2>1 DEF Scanned, Idle
  <2>3. session' = [session EXCEPT ![p] = s] /\ reported' = reported
    BY <1>4, <2>1 DEF ScanSums, Scanned
  <2>4. QED
    BY <2>2, <2>3, GoesOn
<1>5. ASSUME NEW p \in Procs, ScanChains(p) PROVE NothingNew
  <2>1. PICK x \in Sessions : x = session[p]
    BY <1>1
  <2>2. PICK s : s = Suspecting(x, Suspects(p)) /\ s.found = x.found
    <3> DEFINE s == Suspecting(x, Suspects(p))
    <3>1. s.found = x.found
      BY DEF Suspecting, Sessions
    <3>2. QED
      BY <3>1
  <2>3. session' = [session EXCEPT ![p] = s] /\ reported' = reported
    BY <1>1, <1>5, <2>1, <2>2 DEF ScanChains, Suspecting
  <2>4. QED
    BY <2>1, <2>2, <2>3, GoesOn
<1>6. ASSUME NEW p \in Procs, NEW u \in Users, AuditLock(p, u) PROVE NothingNew
  <2>1. PICK x \in Sessions : x = session[p]
    BY <1>1
  <2>2. PICK s : s = Locking(x, u, balance[u]) /\ s.found = x.found
    <3> DEFINE s == Locking(x, u, balance[u])
    <3>1. s.found = x.found
      BY DEF Locking, Sessions
    <3>2. QED
      BY <3>1
  <2>3. session' = [session EXCEPT ![p] = s] /\ reported' = reported
    BY <1>1, <1>6, <2>1, <2>2 DEF AuditLock, Locking
  <2>4. QED
    BY <2>1, <2>2, <2>3, GoesOn
<1>7. ASSUME NEW p \in Procs, AuditClear(p) PROVE NothingNew
  BY <1>7 DEF AuditClear, NothingNew
<1>8. ASSUME NEW p \in Procs, NEW u \in Users, FirstPage(p, u) PROVE NothingNew
  <2>1. PICK ids \in SUBSET Nat : ids = Ids(u)
    BY IdsAreNat DEF BInv
  <2>2. PICK x \in Sessions : x = Opened(u, ids)
    BY <2>1, FirstSession
  <2>3. x.found = {}
    BY <2>2 DEF Opened, Idle
  <2>4. QED
    BY <1>8, <2>1, <2>2, <2>3, PageFindsNothing DEF FirstPage, Opened
<1>9. ASSUME NEW p \in Procs, NextPage(p) PROVE NothingNew
  BY <1>1, <1>9, PageFindsNothing DEF NextPage
<1>10. ASSUME NEW u \in Users, Tamper(u) PROVE NothingNew
  <2>1. ASSUME NEW q \in Procs PROVE session'[q].found = session[q].found
    <3>1. PICK x \in Sessions : x = session[q]
      BY <1>1
    <3>2. [x EXCEPT !.bad = @ \ {u}].found = x.found
      BY DEF Sessions
    <3>3. QED
      BY <1>10, <3>1, <3>2 DEF Tamper
  <2>2. QED
    BY <1>10, <2>1 DEF Tamper, NothingNew
<1>11. ASSUME \/ \E u \in Users, d \in Wrong \ {0} : TamperBalance(u, d)
              \/ \E u \in Users : \E r \in rows[u], a, d \in Wrong : TamperRow(u, r, a, d)
       PROVE  NothingNew
  BY <1>10, <1>11 DEF TamperBalance, TamperRow
<1>12. ASSUME UNCHANGED vars PROVE NothingNew
  BY <1>12 DEF vars, NothingNew
<1>13. QED
  BY <1>2, <1>3, <1>4, <1>5, <1>6, <1>7, <1>8, <1>9, <1>11, <1>12 DEF Next

\* audit_ledger(): who is reported has books that disagree when the re-check
\* reads them, the balance by one statement and the rows by another.
THEOREM NobodyAccused == Spec => NoFalseReport
<1> DEFINE Just == \A p \in Procs, u \in Users :
                      u \in (session'[p].found \ session[p].found) \cup (reported' \ reported)
                          => Broken(u)
<1>1. ASSUME BInv, [Next]_vars PROVE Just
  <2>1. CASE \A p \in Procs : ~AuditReport(p)
    BY <1>1, <2>1, OnlyReportsFind DEF NothingNew
  <2>2. ASSUME NEW p \in Procs, AuditReport(p) PROVE Just
    <3>1. PICK x \in Sessions : x = session[p] /\ pc[p] = "a_locked"
      BY <1>1, <2>2 DEF BInv, IInv, AuditReport
    <3>2. PICK v \in Users : v = x.user /\ Broken(v)
      BY <1>1, <2>2, <3>1, RecheckIsTrue DEF AuditReport
    <3>3. PICK s \in Sessions : /\ s = Finding(x, x.found \cup {v})
                                /\ s.found = x.found \cup {v}
      <4>1. x.found \cup {v} \in SUBSET Users
        BY DEF Sessions
      <4>2. QED
        BY <4>1, FoundSession
    <3>4. session' = [session EXCEPT ![p] = s] /\ reported' = reported \cup {v}
      BY <1>1, <2>2, <3>1, <3>2, <3>3 DEF AuditReport, Finding, BInv, IInv
    <3>5. \A q \in Procs : session'[q].found \subseteq session[q].found \cup {v}
      BY <1>1, <3>1, <3>3, <3>4 DEF BInv, IInv
    <3>6. QED
      BY <3>2, <3>4, <3>5
  <2>3. QED
    BY <2>1, <2>2
<1>2. BInv /\ [Next]_vars => [Just]_vars
  BY <1>1
<1>3. QED
  BY <1>2, AlwaysBInv, PTL DEF Spec, NoFalseReport

\* audit_ledger(): books that were broken when a run began stay in its sight,
\* and under the lock it still finds them broken.
THEOREM NothingEscapes == Spec => []NothingMasked
<1>1. BInv => NothingMasked
  <2>1. SUFFICES ASSUME BInv, NEW p \in Procs
                 PROVE  /\ pc[p] = "a_users" => session[p].bad \subseteq session[p].todo \cup session[p].found
                        /\ pc[p] = "a_locked" =>
                              session[p].bad \subseteq
                                  session[p].todo \cup session[p].found \cup {session[p].user}
                        /\ pc[p] = "a_locked" /\ session[p].user \in session[p].bad => Mismatch(p)
    BY DEF NothingMasked
  <2>2. Remembers(p)
    BY <2>1 DEF BInv
  <2>3. QED
    BY <2>1, <2>2, RecheckIsTrue DEF Remembers
<1>2. QED
  BY <1>1, AlwaysBInv, PTL

\* A step that leaves the balances and the rows alone changes nobody's books;
\* the one that does not is a commit, or by hand.
LEMMA LegitimateStep ==
    ASSUME BInv, [Next]_vars, tampers' = tampers
    PROVE  \A u \in Users : Broken(u)' <=> Broken(u)
<1>1. CASE UNCHANGED books
  BY <1>1, BooksSame DEF books
<1>2. ASSUME NEW p \in Procs, WriteCommit(p)
      PROVE  \A u \in Users : Broken(u)' <=> Broken(u)
  BY <1>2, CommitEntry, CommitKeepsBroken
<1>3. ASSUME NEW u \in Users, Tamper(u) PROVE FALSE
  BY <1>3 DEF Tamper, BInv, IInv, Typed
<1>4. UNCHANGED books \/ (\E p \in Procs : WriteCommit(p)) \/ (\E u \in Users : Tamper(u))
  <2>1. ASSUME NEW p \in Procs, NEW u \in Users, NEW a \in Amounts, Write(p, u, a)
        PROVE  UNCHANGED books
    BY <2>1 DEF Write
  <2>2. ASSUME NEW p \in Procs,
               \/ ScanSums(p) \/ ScanChains(p) \/ (\E u \in Users : AuditLock(p, u))
               \/ AuditClear(p) \/ AuditReport(p) \/ AuditEnd(p) \/ Leave(p) \/ Abort(p)
        PROVE  UNCHANGED books
    BY <2>2 DEF ScanSums, ScanChains, AuditLock, AuditClear, AuditReport, AuditEnd, Leave, Abort
  <2>3. ASSUME NEW p \in Procs, (\E u \in Users : FirstPage(p, u)) \/ NextPage(p)
        PROVE  UNCHANGED books
    BY <2>3 DEF FirstPage, NextPage, Page
  <2>4. ASSUME \/ \E u \in Users, d \in Wrong \ {0} : TamperBalance(u, d)
               \/ \E u \in Users : \E r \in rows[u], a, d \in Wrong : TamperRow(u, r, a, d)
        PROVE  \E u \in Users : Tamper(u)
    BY <2>4 DEF TamperBalance, TamperRow
  <2>5. CASE UNCHANGED vars
    BY <2>5 DEF vars, books
  <2>6. QED
    BY <2>1, <2>2, <2>3, <2>4, <2>5 DEF Next
<1>5. QED
  BY <1>1, <1>2, <1>3, <1>4

\* "a legitimate write can neither create nor heal a violation" (audit_ledger).
THEOREM WritesAreNeutral == Spec => WritesNeitherBreakNorHeal
<1>1. BInv /\ [Next]_vars => [tampers' = tampers => \A u \in Users : Broken(u)' <=> Broken(u)]_vars
  BY LegitimateStep
<1>2. QED
  BY <1>1, AlwaysBInv, PTL DEF Spec, WritesNeitherBreakNorHeal
=============================================================================
