-------------------------- MODULE CoinLedgerProofs --------------------------
(***************************************************************************)
(* Theorems about CoinLedger, for every set of users, keys, amounts and    *)
(* handlers.  IInv is the inductive invariant: what the handlers' sessions *)
(* and the row locks have to do with the committed tables.                 *)
(***************************************************************************)
EXTENDS CoinLedger, TLAPS

\* A handler past lock_user owns its user's row.
LockOwned ==
    \A p \in Procs : pc[p] \in Holding => userLock[session[p].user] = p

\* ... and its in-memory balance is the committed one.
FreshCopy ==
    \A p \in Procs : pc[p] \in Holding => session[p].balance = balance[session[p].user]

\* An uncommitted row is one the table can take: it fits, its id is later
\* than every committed row of its user, its key is nowhere else.
FlushedFits ==
    \A p \in Procs : pc[p] = "flushed" => session[p].balance + session[p].amount \in 0..MaxInt

FlushedIdLast ==
    \A p \in Procs : pc[p] = "flushed" =>
        /\ session[p].id < nextId
        /\ \A i \in DOMAIN ledger[session[p].user] :
               ledger[session[p].user][i].id < session[p].id

FlushedKeyNew ==
    \A p \in Procs : pc[p] = "flushed" => UniqueAllows(p)

IdsTaken == \A u \in Users : \A i \in DOMAIN ledger[u] : ledger[u][i].id < nextId

IInv ==
    /\ TypeOK
    /\ LockOwned
    /\ FreshCopy
    /\ FlushedFits
    /\ FlushedIdLast
    /\ FlushedKeyNew
    /\ IdsTaken
    /\ LedgerChain
    /\ KeyAppliedOnce
    /\ IdOrderIsChainOrder

-----------------------------------------------------------------------------
\* What a committed row is made of.
LEMMA LedgerRowTypes ==
    ASSUME TypeOK
    PROVE  \A u \in Users : \A i \in DOMAIN ledger[u] :
               /\ ledger[u][i].id \in Nat
               /\ ledger[u][i].amount \in Amounts
               /\ ledger[u][i].after \in 0..MaxInt
               /\ ledger[u][i].key \in Keys
<1> TAKE u \in Users
<1>1. ledger[u] \in Seq(LedgerRows)
  BY DEF TypeOK
<1>2. \A i \in DOMAIN ledger[u] : ledger[u][i] \in LedgerRows
  BY <1>1
<1>3. QED
  BY <1>2 DEF LedgerRows

\* Ending a transaction with nothing written (replay, rejection, failed
\* flush, crash) keeps the invariant.
LEMMA EndUnwritten ==
    ASSUME IInv, NEW p \in Procs, Finish(p), Release(p), UNCHANGED <<tables, nextId>>
    PROVE  IInv'
<1> USE DEF tables
<1>1. TypeOK'
  BY NoneIsNoProc DEF IInv, TypeOK, Finish, Release, Sessions, Idle, Steps
<1>2. /\ pc[p]' = "idle"
      /\ \A q \in Procs \ {p} : pc[q]' = pc[q] /\ session[q]' = session[q]
  BY DEF IInv, TypeOK, Finish
<1>3. \A q \in Procs \ {p}, u \in Users : userLock[u] = q => userLock[u]' = q
  BY NoneIsNoProc DEF IInv, TypeOK, Release
<1>4. \A q \in Procs : pc[q]' \in Holding => q # p /\ session[q] \in Sessions
  BY <1>2 DEF Holding, IInv, TypeOK
<1>5. LockOwned'
  BY <1>2, <1>3, <1>4 DEF IInv, LockOwned, Sessions
<1>6. FreshCopy' /\ FlushedFits' /\ FlushedIdLast'
  BY <1>2, <1>4 DEF IInv, FreshCopy, FlushedFits, FlushedIdLast, Holding
<1>7. FlushedKeyNew'
  BY <1>2 DEF IInv, FlushedKeyNew, UniqueAllows, Committed, InsertedByOther
<1>8. IdsTaken' /\ LedgerChain' /\ KeyAppliedOnce' /\ IdOrderIsChainOrder'
  BY DEF IInv, IdsTaken, LedgerChain, KeyAppliedOnce, IdOrderIsChainOrder, After
<1>9. QED
  BY <1>1, <1>5, <1>6, <1>7, <1>8 DEF IInv

LEMMA BeginInv ==
    ASSUME IInv, NEW p \in Procs, NEW u \in Users, NEW a \in Amounts, NEW k \in Keys,
           Begin(p, u, a, k)
    PROVE  IInv'
<1> USE DEF tables
<1>1. TypeOK'
  <2>1. balance[u] \in Int
    BY MaxIntIsNat DEF IInv, TypeOK
  <2>2. [user |-> u, amount |-> a, key |-> k, balance |-> balance[u], id |-> 0] \in Sessions
    BY <2>1 DEF Sessions
  <2>3. QED
    BY <2>2 DEF IInv, TypeOK, Begin, Steps
<1>2. /\ pc[p]' = "loaded"
      /\ \A q \in Procs \ {p} : pc[q]' = pc[q] /\ session[q]' = session[q]
  BY DEF IInv, TypeOK, Begin
<1>3. /\ UNCHANGED <<balance, ledger, nextId, userLock>>
  BY DEF Begin
<1>4. LockOwned' /\ FreshCopy' /\ FlushedFits' /\ FlushedIdLast'
  BY <1>2, <1>3 DEF IInv, LockOwned, FreshCopy, FlushedFits, FlushedIdLast, Holding
<1>5. FlushedKeyNew'
  BY <1>2, <1>3 DEF IInv, FlushedKeyNew, UniqueAllows, Committed, InsertedByOther
<1>6. IdsTaken' /\ LedgerChain' /\ KeyAppliedOnce' /\ IdOrderIsChainOrder'
  BY <1>3 DEF IInv, IdsTaken, LedgerChain, KeyAppliedOnce, IdOrderIsChainOrder, After
<1>7. QED
  BY <1>1, <1>4, <1>5, <1>6 DEF IInv

LEMMA LockUserInv ==
    ASSUME IInv, NEW p \in Procs, LockUser(p)
    PROVE  IInv'
<1> USE DEF tables
<1>1. session[p] \in Sessions /\ session[p].user \in Users
  BY DEF IInv, TypeOK, LockUser, Sessions
<1>2. TypeOK'
  <2>1. balance[session[p].user] \in Int
    BY <1>1, MaxIntIsNat DEF IInv, TypeOK
  <2>2. [session[p] EXCEPT !.balance = balance[session[p].user]] \in Sessions
    BY <1>1, <2>1 DEF Sessions
  <2>3. QED
    BY <1>1, <2>2 DEF IInv, TypeOK, LockUser, LockedBalance, Steps
<1>3. /\ pc[p]' = "locked"
      /\ session[p]'.user = session[p].user
      /\ session[p]'.balance = balance[session[p].user]
      /\ session[p]'.key = session[p].key
      /\ \A q \in Procs \ {p} : pc[q]' = pc[q] /\ session[q]' = session[q]
  BY <1>1 DEF IInv, TypeOK, LockUser, LockedBalance, Sessions
<1>4. UNCHANGED <<balance, ledger, nextId>>
  BY DEF LockUser
<1>5. \A q \in Procs : pc[q] \in Holding => session[q].user \in Users
  BY DEF IInv, TypeOK, Holding, Sessions
<1>6. LockOwned'
  BY <1>1, <1>3, <1>5, NoneIsNoProc DEF IInv, TypeOK, LockOwned, LockUser, RowFree
<1>7. FreshCopy' /\ FlushedFits' /\ FlushedIdLast'
  BY <1>3, <1>4 DEF IInv, FreshCopy, FlushedFits, FlushedIdLast
<1>8. FlushedKeyNew'
  BY <1>3, <1>4 DEF IInv, FlushedKeyNew, UniqueAllows, Committed, InsertedByOther
<1>9. IdsTaken' /\ LedgerChain' /\ KeyAppliedOnce' /\ IdOrderIsChainOrder'
  BY <1>4 DEF IInv, IdsTaken, LedgerChain, KeyAppliedOnce, IdOrderIsChainOrder, After
<1>10. QED
  BY <1>2, <1>6, <1>7, <1>8, <1>9 DEF IInv

LEMMA KeyMissingInv ==
    ASSUME IInv, NEW p \in Procs, KeyMissing(p)
    PROVE  IInv'
<1> USE DEF tables
<1>1. TypeOK'
  BY DEF IInv, TypeOK, KeyMissing, Steps
<1>2. /\ pc[p] = "locked" /\ pc[p]' = "missing"
      /\ \A q \in Procs \ {p} : pc[q]' = pc[q]
      /\ UNCHANGED <<balance, ledger, nextId, userLock, session>>
  BY DEF IInv, TypeOK, KeyMissing
<1>3. LockOwned' /\ FreshCopy' /\ FlushedFits' /\ FlushedIdLast'
  BY <1>2 DEF IInv, LockOwned, FreshCopy, FlushedFits, FlushedIdLast, Holding
<1>4. FlushedKeyNew'
  BY <1>2 DEF IInv, FlushedKeyNew, UniqueAllows, Committed, InsertedByOther
<1>5. IdsTaken' /\ LedgerChain' /\ KeyAppliedOnce' /\ IdOrderIsChainOrder'
  BY <1>2 DEF IInv, IdsTaken, LedgerChain, KeyAppliedOnce, IdOrderIsChainOrder, After
<1>6. QED
  BY <1>1, <1>3, <1>4, <1>5 DEF IInv

\* The row is written inside the transaction: its id is the newest, and the
\* unique index has let its key in.
LEMMA FlushInv ==
    ASSUME IInv, NEW p \in Procs, Flush(p)
    PROVE  IInv'
<1> USE DEF tables
<1>1. session[p] \in Sessions /\ session[p].user \in Users /\ nextId \in Nat
  BY DEF IInv, TypeOK, Flush, Sessions
<1>2. TypeOK'
  <2>1. [session[p] EXCEPT !.id = nextId] \in Sessions
    BY <1>1 DEF Sessions
  <2>2. nextId' \in Nat \ {0}
    BY <1>1 DEF Flush
  <2>3. pc' \in [Procs -> Steps]
    BY DEF IInv, TypeOK, Flush, Steps
  <2>4. session' \in [Procs -> Sessions \cup {Idle}]
    BY <2>1 DEF IInv, TypeOK, Flush
  <2>5. \A q \in Procs : pc'[q] # "idle" => session'[q] \in Sessions
    BY <2>1 DEF IInv, TypeOK, Flush
  <2>6. QED
    BY <2>2, <2>3, <2>4, <2>5 DEF IInv, TypeOK, Flush
<1>3. /\ pc[p] = "missing" /\ pc[p]' = "flushed"
      /\ session[p]'.user = session[p].user
      /\ session[p]'.balance = session[p].balance
      /\ session[p]'.amount = session[p].amount
      /\ session[p]'.key = session[p].key
      /\ session[p]'.id = nextId
      /\ \A q \in Procs \ {p} : pc[q]' = pc[q] /\ session[q]' = session[q]
  BY <1>1 DEF IInv, TypeOK, Flush, Sessions
<1>4. /\ UNCHANGED <<balance, ledger, userLock>>
      /\ nextId' = nextId + 1
  BY DEF Flush
<1>5. \A q \in Procs : pc[q] = "flushed" => session[q] \in Sessions
  BY DEF IInv, TypeOK
<1>6. LockOwned' /\ FreshCopy'
  BY <1>3, <1>4 DEF IInv, LockOwned, FreshCopy, Holding
<1>7. FlushedFits'
  <2>1. session[p].balance + session[p].amount \in 0..MaxInt
    BY <1>1, AmountsAreInts, MaxIntIsNat DEF Flush, CannotCover, Sessions
  <2>2. QED
    BY <2>1, <1>3 DEF IInv, FlushedFits
<1>8. FlushedIdLast' /\ IdsTaken'
  <2>1. \A u \in Users : \A i \in DOMAIN ledger[u] :
            ledger[u][i].id \in Nat /\ ledger[u][i].id < nextId
    BY LedgerRowTypes DEF IInv, IdsTaken
  <2>2. \A q \in Procs : pc[q] = "flushed" => session[q].id \in Nat
    BY <1>5 DEF Sessions
  <2>3. FlushedIdLast'
    BY <2>1, <2>2, <1>1, <1>3, <1>4 DEF IInv, FlushedIdLast
  <2>4. IdsTaken'
    BY <2>1, <1>1, <1>4 DEF IdsTaken
  <2>5. QED
    BY <2>3, <2>4
<1>9. FlushedKeyNew'
  BY <1>3, <1>4 DEF IInv, FlushedKeyNew, UniqueAllows, Committed, InsertedByOther, Flush
<1>10. LedgerChain' /\ KeyAppliedOnce' /\ IdOrderIsChainOrder'
  BY <1>4 DEF IInv, LedgerChain, KeyAppliedOnce, IdOrderIsChainOrder, After
<1>11. QED
  BY <1>2, <1>6, <1>7, <1>8, <1>9, <1>10 DEF IInv

\* Commit publishes the row and the balance together.  Under the row lock
\* the copy the row was computed from is still the committed balance, so the
\* chain grows by one link.
LEMMA CommitInv ==
    ASSUME IInv, NEW p \in Procs, Commit(p)
    PROVE  IInv'
<1>a. PICK s \in Sessions : s = session[p]
  BY DEF IInv, TypeOK, Commit
<1>b. PICK w \in Users : w = s.user
  BY DEF Sessions
<1>c. PICK n \in Nat : n = Len(ledger[w])
  BY DEF IInv, TypeOK
<1>d. PICK new : new = s.balance + s.amount
  OBVIOUS
<1>1. s.amount \in Int /\ s.key \in Keys /\ s.id \in Nat
  BY AmountsAreInts DEF Sessions
<1>2. pc[p] = "flushed" /\ userLock[w] = p /\ s.balance = balance[w] /\ new \in 0..MaxInt
  BY <1>a, <1>b, <1>d DEF Commit, IInv, LockOwned, FreshCopy, FlushedFits, Holding
<1>3. balance' = [balance EXCEPT ![w] = new] /\ UNCHANGED nextId /\ Finish(p) /\ Release(p)
  BY <1>a, <1>b, <1>d DEF Commit
<1>4. /\ Row(s) \in LedgerRows
      /\ Row(s).id = s.id /\ Row(s).amount = s.amount
      /\ Row(s).after = new /\ Row(s).key = s.key
  BY <1>1, <1>2, <1>d DEF Row, LedgerRows, Sessions
<1>5. ledger' = [ledger EXCEPT ![w] = Append(@, Row(s))]
  BY <1>a, <1>b DEF Commit
<1>6. /\ \A u \in Users \ {w} : ledger'[u] = ledger[u] /\ balance'[u] = balance[u]
      /\ balance'[w] = new
      /\ ledger[w] \in Seq(LedgerRows) /\ n \in Nat
      /\ Len(ledger'[w]) = n + 1
      /\ DOMAIN ledger[w] = 1..n /\ DOMAIN ledger'[w] = 1..(n + 1)
      /\ \A i \in 1..n : ledger'[w][i] = ledger[w][i]
      /\ ledger'[w][n + 1] = Row(s)
      /\ \A i \in 1..(n + 1) : i \in 1..n \/ i = n + 1
  BY <1>c, <1>3, <1>4, <1>5 DEF IInv, TypeOK
<1>7. /\ pc[p]' = "idle"
      /\ \A q \in Procs \ {p} : pc[q]' = pc[q] /\ session[q]' = session[q]
  BY <1>3 DEF IInv, TypeOK, Finish
<1>8. \A q \in Procs, u \in Users : q # p /\ userLock[u] = q => userLock[u]' = q
  BY <1>3, NoneIsNoProc DEF IInv, TypeOK, Release
<1>9. \A q \in Procs : pc[q]' \in Holding =>
          /\ q # p /\ pc[q] \in Holding /\ session[q] \in Sessions
          /\ session[q].user \in Users \ {w}
  BY <1>2, <1>7 DEF IInv, TypeOK, LockOwned, Holding, Sessions
<1>10. TypeOK'
  <2>1. balance' \in [Users -> 0..MaxInt]
    BY <1>1, <1>2, <1>3 DEF IInv, TypeOK
  <2>2. ledger' \in [Users -> Seq(LedgerRows)]
    BY <1>1, <1>4, <1>5 DEF IInv, TypeOK
  <2>3. userLock' \in [Users -> Procs \cup {None}]
    BY <1>3 DEF IInv, TypeOK, Release
  <2>4. /\ pc' \in [Procs -> Steps]
        /\ session' \in [Procs -> Sessions \cup {Idle}]
        /\ \A q \in Procs : pc'[q] # "idle" => session'[q] \in Sessions
    BY <1>3 DEF IInv, TypeOK, Finish, Steps
  <2>5. QED
    BY <2>1, <2>2, <2>3, <2>4, <1>3 DEF IInv, TypeOK
<1>11. LockOwned'
  BY <1>7, <1>8, <1>9 DEF IInv, LockOwned
<1>12. FreshCopy' /\ FlushedFits'
  BY <1>6, <1>7, <1>9 DEF IInv, FreshCopy, FlushedFits, Holding
<1>13. FlushedIdLast'
  <2>1. SUFFICES ASSUME NEW q \in Procs, pc[q]' = "flushed"
                 PROVE  /\ session[q]'.id < nextId'
                        /\ \A i \in DOMAIN ledger'[session[q]'.user] :
                               ledger'[session[q]'.user][i].id < session[q]'.id
    BY DEF FlushedIdLast
  <2>2. /\ pc[q] = "flushed" /\ session[q]' = session[q]
        /\ ledger'[session[q].user] = ledger[session[q].user]
    BY <2>1, <1>6, <1>7, <1>9 DEF Holding
  <2>3. QED
    BY <2>2, <1>3 DEF IInv, FlushedIdLast
<1>14. FlushedKeyNew'
  <2>1. \A k : Committed(k)' => Committed(k) \/ k = s.key
    BY <1>4, <1>6 DEF Committed
  <2>2. \A q \in Procs \ {p} : pc[q] = "flushed" => session[q].key # s.key
    BY <1>a, <1>2 DEF IInv, FlushedKeyNew, UniqueAllows, InsertedByOther
  <2>3. SUFFICES ASSUME NEW q \in Procs, pc[q]' = "flushed"
                 PROVE  UniqueAllows(q)'
    BY DEF FlushedKeyNew
  <2>4. q # p /\ pc[q] = "flushed" /\ UniqueAllows(q) /\ session[q]' = session[q]
    BY <2>3, <1>7 DEF IInv, FlushedKeyNew
  <2>5. ~Committed(session[q].key)'
    BY <2>1, <2>2, <2>4 DEF UniqueAllows
  <2>6. ~InsertedByOther(q)'
    BY <2>4, <1>7 DEF UniqueAllows, InsertedByOther
  <2>7. QED
    BY <2>4, <2>5, <2>6 DEF UniqueAllows
<1>15. IdsTaken'
  BY <1>a, <1>2, <1>3, <1>4, <1>6 DEF IInv, IdsTaken, FlushedIdLast
<1>16. LedgerChain'
  <2>1. n = 0 \/ n \in 1..n
    BY <1>6
  <2>2. balance[w] = After(w, n)
    BY <1>c DEF IInv, LedgerChain
  <2>3. \A i \in 0..n : After(w, i)' = After(w, i)
    BY <1>6 DEF After
  <2>4. \A i \in 1..(n + 1) : ledger'[w][i].after = After(w, i - 1)' + ledger'[w][i].amount
    <3>1. \A i \in 1..n : i - 1 \in 0..n /\ ledger[w][i].after = After(w, i - 1) + ledger[w][i].amount
      BY <1>1, <1>6 DEF IInv, LedgerChain
    <3>2. ledger'[w][n + 1].after = After(w, n)' + ledger'[w][n + 1].amount
      BY <1>d, <1>2, <1>4, <1>6, <2>2, <2>3
    <3>3. TAKE i \in 1..(n + 1)
    <3>4. CASE i \in 1..n
      BY <3>4, <1>6, <2>3, <3>1
    <3>5. CASE i = n + 1
      BY <3>5, <3>2
    <3>6. QED
      BY <3>4, <3>5, <1>6
  <2>5. balance'[w] = After(w, Len(ledger[w]))'
    <3>1. Len(ledger'[w]) = n + 1 /\ n + 1 # 0 /\ ledger'[w][n + 1].after = new
      BY <1>4, <1>6
    <3>2. After(w, Len(ledger[w]))' = ledger'[w][n + 1].after
      BY <3>1 DEF After
    <3>3. QED
      BY <3>1, <3>2, <1>6
  <2>6. \A u \in Users \ {w} :
            /\ \A i \in DOMAIN ledger'[u] : ledger'[u][i].after = After(u, i - 1)' + ledger'[u][i].amount
            /\ balance'[u] = After(u, Len(ledger[u]))'
    <3>1. SUFFICES ASSUME NEW u \in Users \ {w}
                   PROVE  /\ \A i \in DOMAIN ledger'[u] :
                                 ledger'[u][i].after = After(u, i - 1)' + ledger'[u][i].amount
                          /\ balance'[u] = After(u, Len(ledger[u]))'
      OBVIOUS
    <3>2. ledger'[u] = ledger[u] /\ balance'[u] = balance[u]
      BY <1>6
    <3>3. /\ \A i \in DOMAIN ledger[u] : After(u, i - 1)' = After(u, i - 1)
          /\ After(u, Len(ledger[u]))' = After(u, Len(ledger[u]))
      BY <3>2 DEF After
    <3>4. QED
      BY <3>2, <3>3 DEF IInv, LedgerChain
  <2>7. SUFFICES ASSUME NEW u \in Users
                 PROVE  /\ \A i \in DOMAIN ledger'[u] :
                               ledger'[u][i].after = After(u, i - 1)' + ledger'[u][i].amount
                        /\ balance'[u] = After(u, Len(ledger[u]))'
    BY DEF LedgerChain
  <2>8. CASE u = w
    BY <1>6, <2>4, <2>5, <2>8
  <2>9. QED
    BY <2>6, <2>8
<1>17. KeyAppliedOnce'
  <2>1. ~Committed(s.key)
    BY <1>a, <1>2 DEF IInv, FlushedKeyNew, UniqueAllows
  <2>2. \A u \in Users : \A i \in DOMAIN ledger[u] : ledger[u][i].key # s.key
    BY <2>1 DEF Committed
  <2>3. QED
    <3>1. \A i \in DOMAIN ledger'[w] :
              \/ i \in DOMAIN ledger[w] /\ ledger'[w][i] = ledger[w][i]
              \/ i = n + 1 /\ ledger'[w][i].key = s.key
      BY <1>4, <1>6
    <3>2. SUFFICES ASSUME NEW u \in Users, NEW v \in Users,
                          NEW i \in DOMAIN ledger'[u], NEW j \in DOMAIN ledger'[v],
                          ledger'[u][i].key = ledger'[v][j].key
                   PROVE  u = v /\ i = j
      BY DEF KeyAppliedOnce
    <3>3. CASE u = w /\ i = n + 1
      BY <3>1, <3>2, <3>3, <1>4, <1>6, <2>2
    <3>4. CASE v = w /\ j = n + 1
      BY <3>1, <3>2, <3>4, <1>4, <1>6, <2>2
    <3>5. CASE ~(u = w /\ i = n + 1) /\ ~(v = w /\ j = n + 1)
      BY <3>1, <3>2, <3>5, <1>6 DEF IInv, KeyAppliedOnce
    <3>6. QED
      BY <3>3, <3>4, <3>5
<1>18. IdOrderIsChainOrder'
  <2>1. \A i \in 1..n : ledger[w][i].id < s.id
    BY <1>a, <1>b, <1>2, <1>6 DEF IInv, FlushedIdLast
  <2>2. \A i, j \in 1..(n + 1) : i < j => ledger'[w][i].id < ledger'[w][j].id
    <3>1. SUFFICES ASSUME NEW i \in 1..(n + 1), NEW j \in 1..(n + 1), i < j
                   PROVE  ledger'[w][i].id < ledger'[w][j].id
      OBVIOUS
    <3>2. i \in 1..n /\ (j \in 1..n \/ j = n + 1)
      BY <3>1
    <3>3. QED
      BY <3>1, <3>2, <1>4, <1>6, <2>1 DEF IInv, IdOrderIsChainOrder
  <2>3. QED
    BY <1>6, <2>2 DEF IInv, IdOrderIsChainOrder
<1>19. QED
  BY <1>10, <1>11, <1>12, <1>13, <1>14, <1>15, <1>16, <1>17, <1>18 DEF IInv

-----------------------------------------------------------------------------
LEMMA InitInv == Init => IInv
<1> SUFFICES ASSUME Init PROVE IInv
  OBVIOUS
<1>1. TypeOK
  BY MaxIntIsNat DEF Init, TypeOK, Steps
<1>2. QED
  BY <1>1 DEF Init, IInv, LockOwned, FreshCopy, FlushedFits, FlushedIdLast, FlushedKeyNew,
              IdsTaken, LedgerChain, KeyAppliedOnce, IdOrderIsChainOrder, After, Holding

LEMMA NextInv == IInv /\ [Next]_vars => IInv'
<1> SUFFICES ASSUME IInv, [Next]_vars PROVE IInv'
  OBVIOUS
<1>1. CASE UNCHANGED vars
  BY <1>1 DEF vars, tables, IInv, TypeOK, LockOwned, FreshCopy, FlushedFits, FlushedIdLast,
              FlushedKeyNew, UniqueAllows, Committed, InsertedByOther, IdsTaken,
              LedgerChain, KeyAppliedOnce, IdOrderIsChainOrder, After
<1>2. ASSUME NEW p \in Procs, Replay(p) \/ Insufficient(p) \/ FlushFails(p) \/ Abort(p)
      PROVE  IInv'
  BY <1>2, EndUnwritten DEF Replay, Insufficient, FlushFails, Abort
<1>3. QED
  BY <1>1, <1>2, BeginInv, LockUserInv, KeyMissingInv, FlushInv, CommitInv DEF Next

\* The inductive invariant holds of every behaviour.
THEOREM Invariance == Spec => []IInv
<1>1. QED
  BY InitInv, NextInv, PTL DEF Spec

\* Type correctness: balances stay within the INTEGER column, and a handler
\* in a transaction has its arguments.
THEOREM TypeCorrect == Spec => []TypeOK
<1>1. IInv => TypeOK
  BY DEF IInv
<1>2. QED
  BY <1>1, Invariance, PTL

\* The ledger a committed state shows is a chain ending in users.balance.
THEOREM ChainHolds == Spec => []LedgerChain
<1>1. IInv => LedgerChain
  BY DEF IInv
<1>2. QED
  BY <1>1, Invariance, PTL

\* No two committed rows share an idempotency key.
THEOREM KeysUnique == Spec => []KeyAppliedOnce
<1>1. IInv => KeyAppliedOnce
  BY DEF IInv
<1>2. QED
  BY <1>1, Invariance, PTL

\* audit_ledger may walk a user's rows in id order.
THEOREM IdsOrdered == Spec => []IdOrderIsChainOrder
<1>1. IInv => IdOrderIsChainOrder
  BY DEF IInv
<1>2. QED
  BY <1>1, Invariance, PTL

-----------------------------------------------------------------------------
\* A commit is one movement of the abstract ledger.
LEMMA CommitMoves ==
    ASSUME IInv, NEW p \in Procs, Commit(p)
    PROVE  \E u \in Users, a \in Amounts, k \in Keys : Atomic!Move(u, a, k)
<1>1. PICK s \in Sessions : s = session[p]
  BY DEF IInv, TypeOK, Commit
<1>2. s.user \in Users /\ s.amount \in Amounts /\ s.key \in Keys
  BY DEF Sessions
<1>3. /\ s.balance = balance[s.user]
      /\ s.balance + s.amount \in 0..MaxInt
      /\ ~Committed(s.key)
  BY <1>1 DEF Commit, IInv, FreshCopy, FlushedFits, FlushedKeyNew, UniqueAllows, Holding
<1>4. /\ balance' = [balance EXCEPT ![s.user] = @ + s.amount]
      /\ ledger' = [ledger EXCEPT ![s.user] = Append(@, Row(s))]
  BY <1>1, <1>2, <1>3 DEF Commit, IInv, TypeOK
<1>5. Row(s).amount = s.amount /\ Row(s).key = s.key
  BY DEF Row
<1>6. ~Atomic!Known(s.key)
  BY <1>3 DEF Atomic!Known, Applied, Committed
<1>7. Applied' = Applied \cup {Atomic!Entry(s.user, s.amount, s.key)}
  <2>1. PICK n \in Nat : n = Len(ledger[s.user])
    BY <1>2 DEF IInv, TypeOK
  <2>2. /\ \A u \in Users \ {s.user} : ledger'[u] = ledger[u]
        /\ DOMAIN ledger[s.user] = 1..n /\ DOMAIN ledger'[s.user] = 1..(n + 1)
        /\ \A i \in 1..n : ledger'[s.user][i] = ledger[s.user][i]
        /\ ledger'[s.user][n + 1] = Row(s)
        /\ \A i \in 1..(n + 1) : i \in 1..n \/ i = n + 1
        /\ n + 1 \in 1..(n + 1) /\ \A i \in 1..n : i \in 1..(n + 1)
    BY <1>2, <1>4, <2>1 DEF IInv, TypeOK
  <2>3. Atomic!Entry(s.user, s.amount, s.key) \in [user : Users, amount : Amounts, key : Keys]
    BY <1>2 DEF Atomic!Entry
  <2>4. SUFFICES ASSUME NEW e \in [user : Users, amount : Amounts, key : Keys]
                 PROVE  e \in Applied' <=> e \in Applied \/ e = Atomic!Entry(s.user, s.amount, s.key)
    BY <2>3 DEF Applied
  <2>5. CASE e.user # s.user
    BY <2>2, <2>5 DEF Applied, Atomic!Entry
  <2>6. CASE e.user = s.user
    <3>1. e = Atomic!Entry(s.user, s.amount, s.key) <=> e.amount = s.amount /\ e.key = s.key
      BY <2>6 DEF Atomic!Entry
    <3>2. e \in Applied <=> \E i \in 1..n : /\ ledger[s.user][i].amount = e.amount
                                            /\ ledger[s.user][i].key = e.key
      BY <2>2, <2>6 DEF Applied
    <3>3. e \in Applied' <=> \E i \in 1..(n + 1) : /\ ledger'[s.user][i].amount = e.amount
                                                   /\ ledger'[s.user][i].key = e.key
      BY <2>2, <2>6 DEF Applied
    <3>4. QED
      BY <2>2, <3>1, <3>2, <3>3, <1>5
  <2>7. QED
    BY <2>5, <2>6
<1>8. Atomic!Fits(s.user, s.amount)
  BY <1>3 DEF Atomic!Fits
<1>9. Atomic!Move(s.user, s.amount, s.key)
  BY <1>4, <1>6, <1>7, <1>8 DEF Atomic!Move
<1>10. QED
  BY <1>2, <1>9

\* Sessions, locks, ids and the two constraints of the tables add up to the
\* ledger that takes every movement in one step.
THEOREM Refinement == Spec => RefinesAtomicLedger
<1>1. Init => Atomic!Init
  BY DEF Init, Atomic!Init, Applied
<1>2. IInv /\ [Next]_vars => [Atomic!Next]_(Atomic!vars)
  <2>1. SUFFICES ASSUME IInv, [Next]_vars PROVE [Atomic!Next]_(Atomic!vars)
    OBVIOUS
  <2>2. CASE \E p \in Procs : Commit(p)
    <3>1. PICK p \in Procs : Commit(p)
      BY <2>2
    <3>2. Atomic!Next
      BY <2>1, <3>1, CommitMoves DEF Atomic!Next
    <3>3. QED
      BY <3>2
  <2>3. CASE ~ \E p \in Procs : Commit(p)
    <3>1. UNCHANGED <<balance, ledger>>
      BY <2>1, <2>3 DEF Next, vars, tables, Begin, LockUser, Replay, KeyMissing, Insufficient,
                        FlushFails, Flush, Abort
    <3>2. UNCHANGED Atomic!vars
      BY <3>1 DEF Atomic!vars, Applied
    <3>3. QED
      BY <3>2
  <2>4. QED
    BY <2>2, <2>3
<1>3. QED
  BY <1>1, <1>2, Invariance, PTL DEF Spec, RefinesAtomicLedger, Atomic!Spec
=============================================================================
