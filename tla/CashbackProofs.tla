--------------------------- MODULE CashbackProofs ---------------------------
(***************************************************************************)
(* Theorems about Cashback, for every set of users, sales, handlers and    *)
(* runs of the job.  IInv says what a process knows of the credit whose    *)
(* row it has locked.                                                      *)
(***************************************************************************)
EXTENDS Cashback, TLAPS

\* A sale has a user and a tx_id.
SaleFilled ==
    \A p \in Procs : pc[p] \in {"s_flag", "s_start", "s_locked", "s_new"} =>
        session[p].user \in Users /\ session[p].tx \in Txs

\* A reversal and the job work on a recorded sale ...
CreditExists ==
    \A p \in Procs : pc[p] \in {"r_start", "r_locked", "j_row", "j_both"} =>
        session[p].tx \in Txs /\ status[session[p].tx] # "none"

\* ... whose row is theirs ...
RowOwned ==
    \A p \in Procs : pc[p] \in {"r_locked", "j_row", "j_both"} => rowLock[session[p].tx] = p

\* ... so that what they read is what they overwrite.
SeenIsStatus ==
    \A p \in Procs : pc[p] = "r_locked" => session[p].seen = status[session[p].tx]

PendingUntilPaid ==
    \A p \in Procs : pc[p] \in {"j_row", "j_both"} => status[session[p].tx] = "pending"

RowsFilled == \A t \in Txs : status[t] # "none" => owner[t] \in Users

ReturnsClosed ==
    \A t \in returned : status[t] = "reversed" \/ (status[t] = "matured" /\ t \in flagged)

IInv ==
    /\ TypeOK
    /\ SaleFilled
    /\ CreditExists
    /\ RowOwned
    /\ SeenIsStatus
    /\ PendingUntilPaid
    /\ RowsFilled
    /\ PaidIffMatured
    /\ ReturnsClosed

-----------------------------------------------------------------------------
LEMMA IdleSession == Idle \in Sessions
<1>1. QED
  BY DEF Idle, Sessions, Statuses

\* What is clamped is still a positive sum.
LEMMA ClampedIsNat ==
    ASSUME NEW c \in Sums
    PROVE  Clamped(c) \in Nat
<1>1. QED
  BY SumsArePositive DEF Clamped

\* The ledger knows the keys of the matured credits.
LEMMA KnownIffMatured ==
    ASSUME PaidIffMatured, NEW t \in Txs
    PROVE  Money!Known(t) <=> status[t] = "matured"
<1>1. CASE status[t] = "matured"
  <2>1. [user |-> owner[t], amount |-> coins[t], key |-> t] \in applied
    BY <1>1 DEF PaidIffMatured
  <2>2. QED
    BY <1>1, <2>1 DEF Money!Known
<1>2. CASE status[t] # "matured"
  BY <1>2 DEF PaidIffMatured, Money!Known
<1>3. QED
  BY <1>1, <1>2

\* The rows and the ledger part of IInv, when neither is written.
LEMMA RowsUnwritten ==
    ASSUME IInv, UNCHANGED <<ledgerVars, rowVars, returned>>
    PROVE  RowsFilled' /\ PaidIffMatured' /\ ReturnsClosed'
<1>1. QED
  BY DEF IInv, RowsFilled, PaidIffMatured, ReturnsClosed, ledgerVars, rowVars

\* Releasing locks keeps them well typed, and those of others in place.
LEMMA ReleaseKeeps ==
    ASSUME TypeOK, NEW p \in Procs, Release(p)
    PROVE  /\ userLock' \in [Users -> Procs \cup {None}]
           /\ userShare' \in [Users -> SUBSET Procs]
           /\ rowLock' \in [Txs -> Procs \cup {None}]
           /\ \A q \in Procs \ {p}, t \in Txs : rowLock[t] = q => rowLock'[t] = q
<1>1. QED
  BY DEF TypeOK, Release

\* A process that ends leaves what the others know in place.
LEMMA FinishInv ==
    ASSUME IInv, NEW p \in Procs, Finish(p)
    PROVE  /\ pc' \in [Procs -> Steps] /\ session' \in [Procs -> Sessions]
           /\ \A q \in Procs : pc'[q] = "idle" => session'[q] = Idle
           /\ \A q \in Procs \ {p} : pc'[q] = pc[q] /\ session'[q] = session[q]
           /\ pc'[p] = "idle"
<1>1. QED
  BY IdleSession DEF IInv, TypeOK, Finish, Goto, Steps

LEMMA QuitInv ==
    ASSUME IInv, NEW p \in Procs, Quit(p), crashes' \in 0..MaxCrashes
    PROVE  IInv'
<1>1. TypeOK'
  BY FinishInv, ReleaseKeeps DEF IInv, TypeOK, Quit, ledgerVars, rowVars
<1>2. SaleFilled' /\ CreditExists' /\ SeenIsStatus' /\ PendingUntilPaid'
  BY FinishInv DEF IInv, SaleFilled, CreditExists, SeenIsStatus, PendingUntilPaid, Quit, rowVars
<1>3. RowOwned'
  BY FinishInv, ReleaseKeeps DEF IInv, RowOwned, CreditExists, Quit
<1>4. RowsFilled' /\ PaidIffMatured' /\ ReturnsClosed'
  BY RowsUnwritten DEF Quit
<1>5. QED
  BY <1>1, <1>2, <1>3, <1>4 DEF IInv

-----------------------------------------------------------------------------
(* Sales                                                                   *)

LEMMA SaleBeginInv ==
    ASSUME IInv, NEW p \in Procs, NEW u \in Users, NEW t \in Txs, NEW c \in Sums,
           SaleBegin(p, u, t, c)
    PROVE  IInv'
<1>1. [Idle EXCEPT !.user = u, !.tx = t, !.coins = Clamped(c)] \in Sessions
  BY ClampedIsNat, IdleSession DEF Sessions
<1>2. session' \in [Procs -> Sessions] /\ pc' \in [Procs -> Steps] /\ pc'[p] \in {"s_flag", "s_start"}
  BY <1>1 DEF IInv, TypeOK, SaleBegin, Goto, Steps
<1>3. \A q \in Procs \ {p} : pc'[q] = pc[q] /\ session'[q] = session[q]
  BY DEF IInv, TypeOK, SaleBegin, Goto
<1>4. session'[p].user = u /\ session'[p].tx = t
  BY DEF IInv, TypeOK, SaleBegin, Idle
<1>5. TypeOK'
  BY <1>2, <1>3 DEF IInv, TypeOK, SaleBegin, ledgerVars, rowVars, locks
<1>6. SaleFilled' /\ CreditExists' /\ RowOwned' /\ SeenIsStatus' /\ PendingUntilPaid'
  BY <1>2, <1>3, <1>4 DEF IInv, SaleFilled, CreditExists, RowOwned, SeenIsStatus,
                          PendingUntilPaid, SaleBegin, rowVars, locks
<1>7. RowsFilled' /\ PaidIffMatured' /\ ReturnsClosed'
  BY RowsUnwritten DEF SaleBegin
<1>8. QED
  BY <1>5, <1>6, <1>7 DEF IInv

\* The steps of a sale before its insert move only its pc and user locks.
LEMMA SaleStepInv ==
    ASSUME IInv, NEW p \in Procs, SaleFlag(p) \/ SaleLockUser(p) \/ SaleIsNew(p)
    PROVE  IInv'
<1>1. session[p].user \in Users
  BY DEF IInv, SaleFilled, SaleFlag, SaleLockUser, SaleIsNew
<1>2. UNCHANGED <<ledgerVars, rowVars, rowLock, session, now, crashes, returned>>
  BY DEF SaleFlag, SaleLockUser, SaleIsNew, locks
<1>3. /\ pc' \in [Procs -> Steps] /\ pc'[p] \in {"s_start", "s_locked", "s_new"}
      /\ pc[p] \in {"s_flag", "s_start", "s_locked"}
      /\ \A q \in Procs \ {p} : pc'[q] = pc[q]
  BY DEF IInv, TypeOK, SaleFlag, SaleLockUser, SaleIsNew, Goto, Steps
<1>4. userLock' \in [Users -> Procs \cup {None}] /\ userShare' \in [Users -> SUBSET Procs]
  BY <1>1 DEF IInv, TypeOK, SaleFlag, SaleLockUser, SaleIsNew, locks
<1>5. TypeOK'
  BY <1>2, <1>3, <1>4 DEF IInv, TypeOK, ledgerVars, rowVars
<1>6. SaleFilled' /\ CreditExists' /\ RowOwned' /\ SeenIsStatus' /\ PendingUntilPaid'
  BY <1>2, <1>3 DEF IInv, SaleFilled, CreditExists, RowOwned, SeenIsStatus, PendingUntilPaid,
                    rowVars
<1>7. RowsFilled' /\ PaidIffMatured' /\ ReturnsClosed'
  BY <1>2, RowsUnwritten
<1>8. QED
  BY <1>5, <1>6, <1>7 DEF IInv

LEMMA SaleRecordInv ==
    ASSUME IInv, NEW p \in Procs, SaleRecord(p)
    PROVE  IInv'
<1>1. PICK u \in Users, t \in Txs, c \in Nat :
          u = session[p].user /\ t = session[p].tx /\ c = session[p].coins
  BY DEF IInv, TypeOK, SaleFilled, SaleRecord, Sessions
<1>2. /\ status[t] = "none"
      /\ status' = [status EXCEPT ![t] = "pending"]
      /\ owner' = [owner EXCEPT ![t] = u]
      /\ coins' = [coins EXCEPT ![t] = c]
      /\ maturesAt' = [maturesAt EXCEPT ![t] = now + Window]
      /\ UNCHANGED <<ledgerVars, flagged, now, crashes, returned>>
  BY <1>1 DEF SaleRecord, NewTx
<1>3. Finish(p) /\ Release(p) /\ pc[p] = "s_new"
  BY DEF SaleRecord
<1>4. TypeOK'
  <2>1. now + Window \in 0..(MaxTime + Window)
    BY BoundsAreNat DEF IInv, TypeOK
  <2>2. status' \in [Txs -> Statuses]
    BY <1>2 DEF IInv, TypeOK, Statuses
  <2>3. /\ owner' \in [Txs -> Users \cup {None}] /\ coins' \in [Txs -> Nat]
        /\ maturesAt' \in [Txs -> 0..(MaxTime + Window)]
    BY <1>2, <2>1 DEF IInv, TypeOK
  <2>4. QED
    BY <1>2, <1>3, <2>2, <2>3, FinishInv, ReleaseKeeps DEF IInv, TypeOK, ledgerVars
<1>5. \A x \in Txs : status[x] # "none" => x # t
  BY <1>2
<1>6. SaleFilled' /\ CreditExists' /\ SeenIsStatus' /\ PendingUntilPaid'
  BY <1>2, <1>3, FinishInv DEF IInv, TypeOK, SaleFilled, CreditExists, SeenIsStatus,
                               PendingUntilPaid
<1>7. RowOwned'
  BY <1>3, FinishInv, ReleaseKeeps DEF IInv, RowOwned, CreditExists
<1>8. RowsFilled'
  BY <1>2 DEF IInv, TypeOK, RowsFilled
<1>9. PaidIffMatured'
  <2>1. {x \in Txs : status'[x] = "matured"} = {x \in Txs : status[x] = "matured"}
    BY <1>2 DEF IInv, TypeOK
  <2>2. \A x \in Txs : status[x] = "matured" => owner'[x] = owner[x] /\ coins'[x] = coins[x]
    BY <1>2 DEF IInv, TypeOK
  <2>3. QED
    BY <1>2, <2>1, <2>2 DEF IInv, PaidIffMatured, ledgerVars
<1>10. ReturnsClosed'
  BY <1>2 DEF IInv, TypeOK, ReturnsClosed
<1>11. QED
  BY <1>4, <1>6, <1>7, <1>8, <1>9, <1>10 DEF IInv

-----------------------------------------------------------------------------
(* Reversals                                                               *)

LEMMA RevBeginInv ==
    ASSUME IInv, NEW p \in Procs, NEW t \in Txs, RevBegin(p, t)
    PROVE  IInv'
<1>1. [Idle EXCEPT !.tx = t] \in Sessions
  BY IdleSession DEF Sessions
<1>2. session' \in [Procs -> Sessions] /\ pc' \in [Procs -> Steps] /\ pc'[p] = "r_start"
  BY <1>1 DEF IInv, TypeOK, RevBegin, Goto, Steps
<1>3. \A q \in Procs \ {p} : pc'[q] = pc[q] /\ session'[q] = session[q]
  BY DEF IInv, TypeOK, RevBegin, Goto
<1>4. session'[p].tx = t /\ status[t] # "none"
  BY DEF IInv, TypeOK, RevBegin, Idle
<1>5. TypeOK'
  BY <1>2, <1>3 DEF IInv, TypeOK, RevBegin, ledgerVars, rowVars, locks
<1>6. SaleFilled' /\ CreditExists' /\ RowOwned' /\ SeenIsStatus' /\ PendingUntilPaid'
  BY <1>2, <1>3, <1>4 DEF IInv, SaleFilled, CreditExists, RowOwned, SeenIsStatus,
                          PendingUntilPaid, RevBegin, rowVars, locks
<1>7. RowsFilled' /\ PaidIffMatured' /\ ReturnsClosed'
  BY RowsUnwritten DEF RevBegin
<1>8. QED
  BY <1>5, <1>6, <1>7 DEF IInv

\* A free row has no owner, so no other process works on it.
LEMMA FreeRow ==
    ASSUME IInv, NEW t \in Txs, RowFree(t), NEW q \in Procs,
           pc[q] \in {"r_locked", "j_row", "j_both"}
    PROVE  session[q].tx # t
<1>1. QED
  BY NoneIsNew DEF IInv, RowOwned, RowFree

LEMMA RevLockInv ==
    ASSUME IInv, NEW p \in Procs, RevLock(p)
    PROVE  IInv'
<1>1. PICK t \in Txs : t = session[p].tx /\ status[t] # "none"
  BY DEF IInv, CreditExists, RevLock
<1>2. /\ RowFree(t) /\ rowLock' = [rowLock EXCEPT ![t] = p]
      /\ UNCHANGED <<ledgerVars, rowVars, userLock, userShare, now, crashes, returned>>
  BY <1>1 DEF RevLock
<1>3. [session[p] EXCEPT !.seen = status[t]] \in Sessions
  BY <1>1 DEF IInv, TypeOK, Sessions
<1>4. session' \in [Procs -> Sessions] /\ pc' \in [Procs -> Steps] /\ pc'[p] = "r_locked"
  BY <1>1, <1>3 DEF IInv, TypeOK, RevLock, Goto, Steps
<1>5. \A q \in Procs \ {p} : pc'[q] = pc[q] /\ session'[q] = session[q]
  BY DEF IInv, TypeOK, RevLock, Goto
<1>6. session'[p].tx = t /\ session'[p].seen = status[t]
  BY <1>1 DEF IInv, TypeOK, RevLock, Sessions
<1>7. TypeOK'
  <2>1. rowLock' \in [Txs -> Procs \cup {None}]
    BY <1>2 DEF IInv, TypeOK
  <2>2. QED
    BY <1>2, <1>4, <1>5, <2>1 DEF IInv, TypeOK, ledgerVars, rowVars
<1>8. SaleFilled' /\ CreditExists' /\ SeenIsStatus' /\ PendingUntilPaid'
  BY <1>1, <1>2, <1>4, <1>5, <1>6 DEF IInv, SaleFilled, CreditExists, SeenIsStatus,
                                      PendingUntilPaid, rowVars
<1>9. RowOwned'
  BY <1>2, <1>4, <1>5, <1>6, FreeRow DEF IInv, TypeOK, RowOwned
<1>10. RowsFilled' /\ PaidIffMatured' /\ ReturnsClosed'
  BY <1>2, RowsUnwritten
<1>11. QED
  BY <1>7, <1>8, <1>9, <1>10 DEF IInv

\* Two processes that own rows own different ones.
LEMMA RowsApart ==
    ASSUME IInv, NEW p \in Procs, NEW q \in Procs \ {p},
           pc[p] \in {"r_locked", "j_row", "j_both"},
           pc[q] \in {"r_locked", "j_row", "j_both"}
    PROVE  session[p].tx # session[q].tx
<1>1. QED
  BY DEF IInv, RowOwned

LEMMA AnswerInv ==
    ASSUME IInv, NEW p \in Procs, RevCancel(p) \/ RevFlag(p) \/ RevAgain(p)
    PROVE  IInv'
<1>1. PICK t \in Txs : t = session[p].tx
  BY DEF IInv, CreditExists, RevCancel, RevFlag, RevAgain
<1>2. /\ pc[p] = "r_locked" /\ Finish(p) /\ Release(p)
      /\ returned' = returned \cup {t}
      /\ UNCHANGED <<ledgerVars, owner, coins, maturesAt, now, crashes>>
  BY <1>1 DEF RevCancel, RevFlag, RevAgain, Answer
<1>3. status[t] = session[p].seen
  BY <1>1, <1>2 DEF IInv, SeenIsStatus
<1>4. \/ status[t] = "pending" /\ status' = [status EXCEPT ![t] = "reversed"] /\ flagged' = flagged
      \/ status[t] = "matured" /\ status' = status /\ flagged' = flagged \cup {t}
      \/ status[t] = "reversed" /\ status' = status /\ flagged' = flagged
  BY <1>1, <1>3 DEF RevCancel, RevFlag, RevAgain
<1>5. TypeOK'
  <2>1. status' \in [Txs -> Statuses]
    BY <1>4 DEF IInv, TypeOK, Statuses
  <2>2. flagged' \subseteq Txs /\ returned' \subseteq Txs
    BY <1>2, <1>4 DEF IInv, TypeOK
  <2>3. QED
    BY <1>2, <2>1, <2>2, FinishInv, ReleaseKeeps DEF IInv, TypeOK, ledgerVars
<1>6. \A x \in Txs \ {t} : status'[x] = status[x]
  BY <1>4 DEF IInv, TypeOK
<1>7. status'[t] # "none"
  BY <1>4 DEF IInv, TypeOK
<1>8. \A q \in Procs \ {p} :
          pc[q] \in {"r_locked", "j_row", "j_both"} => session[q].tx # t
  BY <1>1, <1>2, RowsApart
<1>9. SaleFilled' /\ CreditExists' /\ SeenIsStatus' /\ PendingUntilPaid'
  BY <1>2, <1>6, <1>7, <1>8, FinishInv DEF IInv, SaleFilled, CreditExists, SeenIsStatus,
                                           PendingUntilPaid
<1>10. RowOwned'
  BY <1>2, FinishInv, ReleaseKeeps DEF IInv, RowOwned, CreditExists
<1>11. RowsFilled'
  BY <1>2, <1>4, <1>6 DEF IInv, RowsFilled
<1>12. PaidIffMatured'
  <2>1. {x \in Txs : status'[x] = "matured"} = {x \in Txs : status[x] = "matured"}
    BY <1>4 DEF IInv, TypeOK
  <2>2. QED
    BY <1>2, <2>1 DEF IInv, PaidIffMatured, ledgerVars
<1>13. ReturnsClosed'
  BY <1>2, <1>4 DEF IInv, TypeOK, ReturnsClosed
<1>14. QED
  BY <1>5, <1>9, <1>10, <1>11, <1>12, <1>13 DEF IInv

-----------------------------------------------------------------------------
(* The maturation job                                                      *)

\* Between two rows the job owns none.
LEMMA JobBatchInv ==
    ASSUME IInv, NEW p \in Procs, JobBegin(p) \/ \E t \in Txs : JobSkip(p, t)
    PROVE  IInv'
<1>1. session' \in [Procs -> Sessions] /\ pc' \in [Procs -> Steps] /\ pc'[p] = "j_batch"
  <2>1. CASE JobBegin(p)
    <3>1. [Idle EXCEPT !.todo = {t \in Txs : Due(t)}] \in Sessions
      BY IdleSession DEF Sessions
    <3>2. QED
      BY <2>1, <3>1 DEF IInv, TypeOK, JobBegin, Goto, Steps
  <2>2. ASSUME NEW t \in Txs, JobSkip(p, t)
        PROVE  session' \in [Procs -> Sessions] /\ pc' \in [Procs -> Steps] /\ pc'[p] = "j_batch"
    <3>1. [session[p] EXCEPT !.todo = session[p].todo \ {t}] \in Sessions
      BY DEF IInv, TypeOK, Sessions
    <3>2. session' = [session EXCEPT ![p] = [session[p] EXCEPT !.todo = session[p].todo \ {t}]]
      BY <2>2 DEF JobSkip
    <3>3. QED
      BY <2>2, <3>1, <3>2 DEF IInv, TypeOK, JobSkip
  <2>3. QED
    BY <2>1, <2>2
<1>2. \A q \in Procs \ {p} : pc'[q] = pc[q] /\ session'[q] = session[q]
  BY DEF IInv, TypeOK, JobBegin, JobSkip, Goto
<1>3. UNCHANGED <<ledgerVars, rowVars, locks, now, crashes, returned>>
  BY DEF JobBegin, JobSkip
<1>4. TypeOK'
  BY <1>1, <1>2, <1>3 DEF IInv, TypeOK, ledgerVars, rowVars, locks
<1>5. SaleFilled' /\ CreditExists' /\ RowOwned' /\ SeenIsStatus' /\ PendingUntilPaid'
  BY <1>1, <1>2, <1>3 DEF IInv, SaleFilled, CreditExists, RowOwned, SeenIsStatus,
                          PendingUntilPaid, rowVars, locks
<1>6. RowsFilled' /\ PaidIffMatured' /\ ReturnsClosed'
  BY <1>3, RowsUnwritten
<1>7. QED
  BY <1>4, <1>5, <1>6 DEF IInv

LEMMA JobTakeInv ==
    ASSUME IInv, NEW p \in Procs, NEW t \in Txs, JobTake(p, t)
    PROVE  IInv'
<1>1. /\ RowFree(t) /\ status[t] = "pending" /\ rowLock' = [rowLock EXCEPT ![t] = p]
      /\ UNCHANGED <<ledgerVars, rowVars, userLock, userShare, now, crashes, returned>>
  BY DEF JobTake, StillPending
<1>2. [session[p] EXCEPT !.tx = t, !.todo = session[p].todo \ {t}] \in Sessions
  BY DEF IInv, TypeOK, Sessions
<1>3. session' = [session EXCEPT ![p] =
                     [session[p] EXCEPT !.tx = t, !.todo = session[p].todo \ {t}]]
  BY DEF JobTake, IInv, TypeOK
<1>4. session' \in [Procs -> Sessions] /\ pc' \in [Procs -> Steps] /\ pc'[p] = "j_row"
  BY <1>2, <1>3 DEF IInv, TypeOK, JobTake, Goto, Steps
<1>5. \A q \in Procs \ {p} : pc'[q] = pc[q] /\ session'[q] = session[q]
  BY DEF IInv, TypeOK, JobTake, Goto
<1>6. session'[p].tx = t
  BY <1>3 DEF IInv, TypeOK, Sessions
<1>7. TypeOK'
  <2>1. rowLock' \in [Txs -> Procs \cup {None}]
    BY <1>1 DEF IInv, TypeOK
  <2>2. QED
    BY <1>1, <1>4, <1>5, <2>1 DEF IInv, TypeOK, ledgerVars, rowVars
<1>8. SaleFilled' /\ CreditExists' /\ SeenIsStatus' /\ PendingUntilPaid'
  BY <1>1, <1>4, <1>5, <1>6 DEF IInv, SaleFilled, CreditExists, SeenIsStatus,
                                PendingUntilPaid, rowVars
<1>9. RowOwned'
  BY <1>1, <1>4, <1>5, <1>6, FreeRow DEF IInv, TypeOK, RowOwned
<1>10. RowsFilled' /\ PaidIffMatured' /\ ReturnsClosed'
  BY <1>1, RowsUnwritten
<1>11. QED
  BY <1>7, <1>8, <1>9, <1>10 DEF IInv

LEMMA JobLockUserInv ==
    ASSUME IInv, NEW p \in Procs, JobLockUser(p)
    PROVE  IInv'
<1>1. pc' \in [Procs -> Steps] /\ pc[p] = "j_row" /\ pc'[p] = "j_both"
      /\ \A q \in Procs \ {p} : pc'[q] = pc[q]
  BY DEF IInv, TypeOK, JobLockUser, Goto, Steps
<1>2. UNCHANGED <<ledgerVars, rowVars, userShare, rowLock, session, now, crashes, returned>>
  BY DEF JobLockUser
<1>3. userLock' \in [Users -> Procs \cup {None}]
  BY DEF IInv, TypeOK, JobLockUser
<1>4. TypeOK'
  BY <1>1, <1>2, <1>3 DEF IInv, TypeOK, ledgerVars, rowVars
<1>5. SaleFilled' /\ CreditExists' /\ RowOwned' /\ SeenIsStatus' /\ PendingUntilPaid'
  BY <1>1, <1>2 DEF IInv, SaleFilled, CreditExists, RowOwned, SeenIsStatus, PendingUntilPaid,
                    rowVars
<1>6. RowsFilled' /\ PaidIffMatured' /\ ReturnsClosed'
  BY <1>2, RowsUnwritten
<1>7. QED
  BY <1>4, <1>5, <1>6 DEF IInv

\* The credit was pending, so its key is new and the coins move.
LEMMA JobCreditInv ==
    ASSUME IInv, NEW p \in Procs, JobCredit(p)
    PROVE  IInv'
<1>1. PICK t \in Txs : t = session[p].tx
  BY DEF IInv, CreditExists, JobCredit
<1>2. status[t] = "pending" /\ pc[p] = "j_both"
  BY <1>1 DEF IInv, PendingUntilPaid, JobCredit
<1>3. owner[t] \in Users /\ coins[t] \in Nat
  BY <1>2 DEF IInv, TypeOK, RowsFilled
<1>4. Money!Move(owner[t], coins[t], t)
  BY <1>1, <1>2, KnownIffMatured DEF IInv, JobCredit, Apply
<1>5. /\ status' = [status EXCEPT ![t] = "matured"] /\ Release(p)
      /\ UNCHANGED <<owner, coins, maturesAt, flagged, now, crashes, returned>>
  BY <1>1 DEF JobCredit
<1>6. [session[p] EXCEPT !.tx = None] \in Sessions
  BY DEF IInv, TypeOK, Sessions
<1>7. session' \in [Procs -> Sessions] /\ pc' \in [Procs -> Steps] /\ pc'[p] = "j_batch"
  BY <1>6 DEF IInv, TypeOK, JobCredit, Goto, Steps
<1>8. \A q \in Procs \ {p} : pc'[q] = pc[q] /\ session'[q] = session[q]
  BY DEF IInv, TypeOK, JobCredit, Goto
<1>9. applied' = applied \cup {[user |-> owner[t], amount |-> coins[t], key |-> t]}
  BY <1>4 DEF Money!Move, Money!Entry
<1>10. TypeOK'
  <2>1. balance' \in [Users -> 0..MaxInt]
    BY <1>3, <1>4 DEF IInv, TypeOK, Money!Move, Money!Fits
  <2>2. applied' \subseteq [user : Users, amount : Nat, key : Txs]
    BY <1>3, <1>9 DEF IInv, TypeOK
  <2>3. status' \in [Txs -> Statuses]
    BY <1>5 DEF IInv, TypeOK, Statuses
  <2>4. QED
    BY <1>5, <1>7, <1>8, <2>1, <2>2, <2>3, ReleaseKeeps DEF IInv, TypeOK
<1>11. \A x \in Txs \ {t} : status'[x] = status[x]
  BY <1>5 DEF IInv, TypeOK
<1>12. status'[t] = "matured"
  BY <1>5 DEF IInv, TypeOK
<1>13. \A q \in Procs \ {p} :
          pc[q] \in {"r_locked", "j_row", "j_both"} => session[q].tx # t
  BY <1>1, <1>2, RowsApart
<1>14. SaleFilled' /\ CreditExists' /\ SeenIsStatus' /\ PendingUntilPaid'
  BY <1>7, <1>8, <1>11, <1>12, <1>13 DEF IInv, SaleFilled, CreditExists, SeenIsStatus,
                                         PendingUntilPaid
<1>15. RowOwned'
  BY <1>5, <1>7, <1>8, ReleaseKeeps DEF IInv, RowOwned, CreditExists
<1>16. RowsFilled' /\ ReturnsClosed'
  BY <1>2, <1>3, <1>5, <1>11, <1>12 DEF IInv, TypeOK, RowsFilled, ReturnsClosed
<1>17. PaidIffMatured'
  <2>1. {x \in Txs : status'[x] = "matured"} = {x \in Txs : status[x] = "matured"} \cup {t}
    BY <1>11, <1>12
  <2>2. QED
    BY <1>5, <1>9, <2>1 DEF IInv, PaidIffMatured
<1>18. QED
  BY <1>10, <1>14, <1>15, <1>16, <1>17 DEF IInv

-----------------------------------------------------------------------------
LEMMA InitInv == Init => IInv
<1> SUFFICES ASSUME Init PROVE IInv
  OBVIOUS
<1>1. TypeOK
  BY IdleSession, BoundsAreNat, OpeningFits DEF Init, TypeOK, Steps, Statuses
<1>2. PaidIffMatured
  BY DEF Init, PaidIffMatured
<1>3. QED
  BY <1>1, <1>2 DEF Init, IInv, SaleFilled, CreditExists, RowOwned, SeenIsStatus,
                    PendingUntilPaid, RowsFilled, ReturnsClosed

LEMMA NextInv == IInv /\ [Next]_vars => IInv'
<1> SUFFICES ASSUME IInv, [Next]_vars PROVE IInv'
  OBVIOUS
<1>1. CASE UNCHANGED vars
  BY <1>1 DEF vars, ledgerVars, rowVars, locks, IInv, TypeOK, SaleFilled, CreditExists,
              RowOwned, SeenIsStatus, PendingUntilPaid, RowsFilled, PaidIffMatured,
              ReturnsClosed
<1>2. CASE Tick
  <2>1. TypeOK'
    BY <1>2, BoundsAreNat DEF IInv, TypeOK, Tick, ledgerVars, rowVars, locks
  <2>2. SaleFilled' /\ CreditExists' /\ RowOwned' /\ SeenIsStatus' /\ PendingUntilPaid'
    BY <1>2 DEF IInv, SaleFilled, CreditExists, RowOwned, SeenIsStatus, PendingUntilPaid,
                Tick, rowVars, locks
  <2>3. RowsFilled' /\ PaidIffMatured' /\ ReturnsClosed'
    BY <1>2, RowsUnwritten DEF Tick
  <2>4. QED
    BY <2>1, <2>2, <2>3 DEF IInv
<1>3. ASSUME NEW p \in Procs,
             SaleReplay(p) \/ SaleTaken(p) \/ JobFails(p) \/ JobDone(p) \/ Victim(p) \/ Abort(p)
      PROVE  IInv'
  <2>1. Quit(p)
    BY <1>3 DEF SaleReplay, SaleTaken, JobFails, JobDone, Victim, Abort
  <2>2. crashes' \in 0..MaxCrashes
    BY <1>3, BoundsAreNat DEF IInv, TypeOK, SaleReplay, SaleTaken, JobFails, JobDone, Victim, Abort
  <2>3. QED
    BY <2>1, <2>2, QuitInv
<1>4. ASSUME NEW p \in Procs,
             \/ \E u \in Users, t \in Txs, c \in Sums : SaleBegin(p, u, t, c)
             \/ SaleFlag(p) \/ SaleLockUser(p) \/ SaleIsNew(p) \/ SaleRecord(p)
      PROVE  IInv'
  BY <1>4, SaleBeginInv, SaleStepInv, SaleRecordInv
<1>5. ASSUME NEW p \in Procs,
             \/ \E t \in Txs : RevBegin(p, t)
             \/ RevLock(p) \/ RevCancel(p) \/ RevFlag(p) \/ RevAgain(p)
      PROVE  IInv'
  BY <1>5, RevBeginInv, RevLockInv, AnswerInv
<1>6. ASSUME NEW p \in Procs,
             \/ JobBegin(p) \/ \E t \in Txs : JobSkip(p, t)
             \/ \E t \in Txs : JobTake(p, t)
             \/ JobLockUser(p) \/ JobCredit(p)
      PROVE  IInv'
  BY <1>6, JobBatchInv, JobTakeInv, JobLockUserInv, JobCreditInv
<1>7. QED
  BY <1>1, <1>2, <1>3, <1>4, <1>5, <1>6 DEF Next

\* The inductive invariant holds of every behaviour.
THEOREM Invariance == Spec => []IInv
<1>1. QED
  BY InitInv, NextInv, PTL DEF Spec

\* Type correctness: credits never take a balance past its column.
THEOREM TypeCorrect == Spec => []TypeOK
<1>1. IInv => TypeOK
  BY DEF IInv
<1>2. QED
  BY <1>1, Invariance, PTL

\* Each matured credit is in the ledger once, and nothing else is.
THEOREM PaidOnceWhenMatured == Spec => []PaidIffMatured
<1>1. IInv => PaidIffMatured
  BY DEF IInv
<1>2. QED
  BY <1>1, Invariance, PTL

\* A reversal that was answered is never lost under a payment.
THEOREM NoReturnLost == Spec => []ReturnsAccounted
<1>1. IInv => ReturnsAccounted
  BY KnownIffMatured DEF IInv, TypeOK, ReturnsClosed, ReturnsAccounted
<1>2. QED
  BY <1>1, Invariance, PTL

\* Neither a replay nor another user's postback rewrites a recorded sale.
THEOREM TermsAreFixed == Spec => FirstSaleWins
<1> DEFINE Kept == \A t \in Txs : status[t] # "none" =>
                      /\ status'[t] # "none"
                      /\ UNCHANGED <<owner[t], coins[t], maturesAt[t]>>
<1>1. IInv /\ [Next]_vars => [Kept]_vars
  <2> SUFFICES ASSUME IInv, Next PROVE Kept
    BY DEF vars
  <2>1. ASSUME NEW p \in Procs, SaleRecord(p) PROVE Kept
    BY <2>1 DEF IInv, TypeOK, SaleRecord, NewTx
  <2>2. ASSUME NEW p \in Procs, RevCancel(p) \/ RevFlag(p) \/ RevAgain(p) PROVE Kept
    BY <2>2 DEF IInv, TypeOK, RevCancel, RevFlag, RevAgain, Answer
  <2>3. ASSUME NEW p \in Procs, JobCredit(p) PROVE Kept
    BY <2>3 DEF IInv, TypeOK, JobCredit
  <2>4. CASE UNCHANGED rowVars
    BY <2>4 DEF rowVars
  <2>5. QED
    BY <2>1, <2>2, <2>3, <2>4 DEF Next, SaleBegin, SaleFlag, SaleLockUser, SaleReplay, SaleIsNew,
        SaleTaken, RevBegin, RevLock, JobBegin, JobSkip, JobTake, JobLockUser, JobFails, JobDone,
        Victim, Abort, Tick, Quit
<1>2. QED
  BY <1>1, Invariance, PTL DEF Spec, FirstSaleWins
=============================================================================
