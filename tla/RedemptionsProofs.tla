------------------------- MODULE RedemptionsProofs --------------------------
(***************************************************************************)
(* Theorems about Redemptions, for every set of users, redemptions and     *)
(* handlers, every catalog and all settings.  IInv ties what a handler has *)
(* read under its row locks to the rows as they are; GInv, on top of it,   *)
(* what the gates of a request found to what holds since; LInv the balance *)
(* to what the ledger will be asked.                                       *)
(***************************************************************************)
EXTENDS Redemptions, FiniteSetTheorems, TLAPS

\* Steps at which a handler works on an existing redemption; at which it
\* owns that row; and after its approval was committed.
Working == {"c_held", "a_loaded", "a_locked", "a_approved", "a_waiting", "a_placed",
            "d_loaded", "d_locked", "d_both"}
OwnsRow == {"a_locked", "d_locked", "d_both"}
Ordering == {"a_approved", "a_waiting", "a_placed"}

\* create owns the user's row from its gates to its commit
CreateLocked ==
    \A p \in Procs : pc[p] \in {"c_loaded", "c_locked", "c_gated"} =>
        /\ session[p].user \in Users /\ session[p].sku \in Skus
        /\ pc[p] # "c_loaded" => userLock[session[p].user] = p

\* ... so what its gates found still holds, and its new id is its own
GatesStillPass ==
    \A p \in Procs : pc[p] = "c_gated" =>
        /\ session[p].req \in Requests
        /\ status[session[p].req] = "none"
        /\ \A q \in Procs \ {p} : session[q].req # session[p].req
        /\ NothingPending(session[p].user)

WorkingOnRow ==
    \A p \in Procs : pc[p] \in Working =>
        session[p].req \in Requests /\ status[session[p].req] # "none"

\* approve and deny: the status read under the row lock is still the row's
SeenIsStatus ==
    \A p \in Procs : pc[p] \in OwnsRow =>
        /\ rowLock[session[p].req] = p
        /\ session[p].seen = status[session[p].req]

DenyLocked ==
    \A p \in Procs : pc[p] = "d_both" =>
        /\ session[p].seen = "pending"
        /\ userLock[owner[session[p].req]] = p

OrderingApproved ==
    \A p \in Procs : pc[p] \in Ordering => status[session[p].req] \in {"approved", "sent"}

PlacedHasOrder == \A p \in Procs : pc[p] = "a_placed" => session[p].req \in orders

\* a refund in the ledger is that of a denied redemption
RefundedDenied ==
    \A r \in Requests : (\E e \in applied : e.key = Refund(r)) => status[r] = "denied"

RowsFilled ==
    \A r \in Requests : IF status[r] = "none" THEN owner[r] = None
                                              ELSE owner[r] \in Users /\ sku[r] \in Skus

PaidApproved == \A r \in orders \cup inflight : status[r] \in {"approved", "sent"}

IInv ==
    /\ TypeOK
    /\ CreateLocked
    /\ GatesStillPass
    /\ WorkingOnRow
    /\ SeenIsStatus
    /\ DenyLocked
    /\ OrderingApproved
    /\ PlacedHasOrder
    /\ RefundedDenied
    /\ RowsFilled
    /\ PaidApproved
    /\ SentHasOrder
    /\ OnePending

-----------------------------------------------------------------------------
\* A new session is one.
LEMMA IdleSession == Idle \in Sessions
<1>1. 0 \in 0..MaxTime
  BY SettingsAreNat
<1>2. QED
  BY <1>1 DEF Idle, Sessions, Statuses

\* The keys of holds and refunds never meet.
LEMMA KeysDiffer ==
    ASSUME NEW r, NEW x
    PROVE  Hold(r) # Refund(x) /\ (Refund(r) = Refund(x) => r = x)
<1>1. QED
  BY DEF Hold, Refund

-----------------------------------------------------------------------------
\* A handler that gives up leaves the rows alone and frees its locks.
LEMMA RollbackInv ==
    ASSUME IInv, NEW p \in Procs, Rollback(p)
    PROVE  IInv'
<1>1. TypeOK'
  <2>1. session' \in [Procs -> Sessions] /\ \A q \in Procs : pc'[q] = "idle" => session'[q] = Idle
    BY IdleSession DEF IInv, TypeOK, Rollback, Finish, Goto
  <2>2. pc' \in [Procs -> Steps]
    BY DEF IInv, TypeOK, Rollback, Finish, Goto, Steps
  <2>3. userLock' \in [Users -> Procs \cup {None}] /\ rowLock' \in [Requests -> Procs \cup {None}]
    BY DEF IInv, TypeOK, Rollback, Release
  <2>4. QED
    BY <2>1, <2>2, <2>3 DEF IInv, TypeOK, Rollback, ledgerVars, rowVars, provider, history
<1>2. CreateLocked'
  BY NoneIsNew DEF IInv, TypeOK, CreateLocked, Rollback, Finish, Release, Goto,
      ledgerVars, rowVars, provider, history
<1>3. GatesStillPass'
  BY NoneIsNew DEF IInv, TypeOK, GatesStillPass, NothingPending, OwnedBy, CreateLocked,
      WorkingOnRow, Working, Idle, Rollback, Finish, Release, Goto, ledgerVars, rowVars,
      provider, history
<1>4. WorkingOnRow'
  BY DEF IInv, TypeOK, WorkingOnRow, Working, Rollback, Finish, Release, Goto,
      ledgerVars, rowVars, provider, history
<1>5. SeenIsStatus'
  BY NoneIsNew DEF IInv, TypeOK, SeenIsStatus, OwnsRow, Working, WorkingOnRow,
      GatesStillPass, Idle, Rollback, Finish, Release, Goto, ledgerVars, rowVars,
      provider, history
<1>6. DenyLocked'
  BY NoneIsNew DEF IInv, TypeOK, DenyLocked, WorkingOnRow, RowsFilled, Working, Idle,
      SeenIsStatus, OwnsRow, Rollback, Finish, Release, Goto, ledgerVars, rowVars,
      provider, history
<1>7. OrderingApproved'
  BY DEF IInv, TypeOK, OrderingApproved, Ordering, Rollback, Finish, Release, Goto,
      ledgerVars, rowVars, provider, history
<1>8. PlacedHasOrder'
  BY DEF IInv, TypeOK, PlacedHasOrder, Rollback, Finish, Release, Goto, ledgerVars,
      rowVars, provider, history
<1>9. RefundedDenied'
  BY DEF IInv, RefundedDenied, Rollback, Finish, Release, Goto, ledgerVars, rowVars,
      provider, history
<1>10. RowsFilled'
  BY DEF IInv, RowsFilled, Rollback, Finish, Release, Goto, ledgerVars, rowVars,
      provider, history
<1>11. PaidApproved'
  BY DEF IInv, PaidApproved, Rollback, Finish, Release, Goto, ledgerVars, rowVars,
      provider, history
<1>12. SentHasOrder'
  BY DEF IInv, SentHasOrder, Rollback, Finish, Release, Goto, ledgerVars, rowVars,
      provider, history
<1>13. OnePending'
  BY DEF IInv, OnePending, Rollback, Finish, Release, Goto, ledgerVars, rowVars,
      provider, history
<1>14. QED
  BY <1>1, <1>2, <1>3, <1>4, <1>5, <1>6, <1>7, <1>8, <1>9, <1>10, <1>11, <1>12, <1>13 DEF IInv

\* A request starts: nothing but the handler's own session changes.
LEMMA CreateBeginInv ==
    ASSUME IInv, NEW p \in Procs, NEW u \in Users, NEW k \in Skus, CreateBegin(p, u, k)
    PROVE  IInv'
<1>1. TypeOK'
  <2>1. [Idle EXCEPT !.user = u, !.sku = k, !.start = now] \in Sessions
    BY IdleSession DEF IInv, TypeOK, Sessions
  <2>2. session' \in [Procs -> Sessions] /\ \A q \in Procs : pc'[q] = "idle" => session'[q] = Idle
    BY <2>1 DEF IInv, TypeOK, CreateBegin, Goto
  <2>3. pc' \in [Procs -> Steps]
    BY DEF IInv, TypeOK, CreateBegin, Goto, Steps
  <2>4. QED
    BY <2>2, <2>3 DEF IInv, TypeOK, CreateBegin, ledgerVars, rowVars, locks, provider, history
<1>2. CreateLocked'
  BY NoneIsNew DEF IInv, TypeOK, CreateLocked, CreateBegin, Goto, ledgerVars, rowVars,
      locks, provider, history
<1>3. GatesStillPass'
  BY NoneIsNew DEF IInv, TypeOK, GatesStillPass, NothingPending, OwnedBy, CreateBegin,
      Goto, ledgerVars, rowVars, locks, provider, history
<1>4. WorkingOnRow'
  BY DEF IInv, WorkingOnRow, Working, CreateBegin, Goto, ledgerVars, rowVars, locks,
      provider, history
<1>5. SeenIsStatus'
  BY DEF IInv, SeenIsStatus, OwnsRow, CreateBegin, Goto, ledgerVars, rowVars, locks,
      provider, history
<1>6. DenyLocked'
  BY DEF IInv, DenyLocked, CreateBegin, Goto, ledgerVars, rowVars, locks, provider,
      history
<1>7. OrderingApproved'
  BY DEF IInv, OrderingApproved, Ordering, CreateBegin, Goto, ledgerVars, rowVars,
      locks, provider, history
<1>8. PlacedHasOrder'
  BY DEF IInv, PlacedHasOrder, CreateBegin, Goto, ledgerVars, rowVars, locks, provider,
      history
<1>9. RefundedDenied'
  BY DEF IInv, RefundedDenied, CreateBegin, Goto, ledgerVars, rowVars, locks, provider,
      history
<1>10. RowsFilled'
  BY DEF IInv, RowsFilled, CreateBegin, Goto, ledgerVars, rowVars, locks, provider,
      history
<1>11. PaidApproved'
  BY DEF IInv, PaidApproved, CreateBegin, Goto, ledgerVars, rowVars, locks, provider,
      history
<1>12. SentHasOrder'
  BY DEF IInv, SentHasOrder, CreateBegin, Goto, ledgerVars, rowVars, locks, provider,
      history
<1>13. OnePending'
  BY DEF IInv, OnePending, CreateBegin, Goto, ledgerVars, rowVars, locks, provider,
      history
<1>14. QED
  BY <1>1, <1>2, <1>3, <1>4, <1>5, <1>6, <1>7, <1>8, <1>9, <1>10, <1>11, <1>12, <1>13 DEF IInv

\* create takes the user's row.
LEMMA CreateLockUserInv ==
    ASSUME IInv, NEW p \in Procs, CreateLockUser(p)
    PROVE  IInv'
<1>1. TypeOK'
  <2>1. pc' \in [Procs -> Steps] /\ \A q \in Procs : pc'[q] = "idle" => session'[q] = Idle
    BY DEF IInv, TypeOK, CreateLockUser, Goto, Steps
  <2>2. userLock' \in [Users -> Procs \cup {None}]
    BY DEF IInv, TypeOK, CreateLockUser
  <2>3. QED
    BY <2>1, <2>2 DEF IInv, TypeOK, CreateLockUser, ledgerVars, rowVars, provider, history
<1>2. CreateLocked'
  BY NoneIsNew DEF IInv, TypeOK, CreateLocked, CreateLockUser, UserFree, Goto,
      ledgerVars, rowVars, provider, history
<1>3. GatesStillPass'
  BY DEF IInv, GatesStillPass, NothingPending, OwnedBy, CreateLockUser, UserFree, Goto,
      ledgerVars, rowVars, provider, history
<1>4. WorkingOnRow'
  BY DEF IInv, WorkingOnRow, Working, CreateLockUser, UserFree, Goto, ledgerVars,
      rowVars, provider, history
<1>5. SeenIsStatus'
  BY DEF IInv, SeenIsStatus, OwnsRow, CreateLockUser, UserFree, Goto, ledgerVars,
      rowVars, provider, history
<1>6. DenyLocked'
  BY NoneIsNew DEF IInv, TypeOK, DenyLocked, CreateLockUser, UserFree, Goto, ledgerVars,
      rowVars, provider, history
<1>7. OrderingApproved'
  BY DEF IInv, OrderingApproved, Ordering, CreateLockUser, UserFree, Goto, ledgerVars,
      rowVars, provider, history
<1>8. PlacedHasOrder'
  BY DEF IInv, PlacedHasOrder, CreateLockUser, UserFree, Goto, ledgerVars, rowVars,
      provider, history
<1>9. RefundedDenied'
  BY DEF IInv, RefundedDenied, CreateLockUser, UserFree, Goto, ledgerVars, rowVars,
      provider, history
<1>10. RowsFilled'
  BY DEF IInv, RowsFilled, CreateLockUser, UserFree, Goto, ledgerVars, rowVars,
      provider, history
<1>11. PaidApproved'
  BY DEF IInv, PaidApproved, CreateLockUser, UserFree, Goto, ledgerVars, rowVars,
      provider, history
<1>12. SentHasOrder'
  BY DEF IInv, SentHasOrder, CreateLockUser, UserFree, Goto, ledgerVars, rowVars,
      provider, history
<1>13. OnePending'
  BY DEF IInv, OnePending, CreateLockUser, UserFree, Goto, ledgerVars, rowVars,
      provider, history
<1>14. QED
  BY <1>1, <1>2, <1>3, <1>4, <1>5, <1>6, <1>7, <1>8, <1>9, <1>10, <1>11, <1>12, <1>13 DEF IInv

\* The gates pass under the user's lock and a new id is drawn.
LEMMA PassGatesInv ==
    ASSUME IInv, NEW p \in Procs, NEW r \in Requests, PassGates(p, r)
    PROVE  IInv'
<1>1. TypeOK'
  <2>1. [session[p] EXCEPT !.req = r] \in Sessions
    BY DEF IInv, TypeOK, Sessions
  <2>2. session' \in [Procs -> Sessions] /\ \A q \in Procs : pc'[q] = "idle" => session'[q] = Idle
    BY <2>1 DEF IInv, TypeOK, PassGates, Goto
  <2>3. pc' \in [Procs -> Steps]
    BY DEF IInv, TypeOK, PassGates, Goto, Steps
  <2>4. QED
    BY <2>2, <2>3 DEF IInv, TypeOK, PassGates, ledgerVars, rowVars, locks, provider, history
<1>2. CreateLocked'
  BY DEF IInv, CreateLocked, PassGates, Goto, ledgerVars, rowVars, locks, provider,
      history
<1>3. GatesStillPass'
  BY NoneIsNew DEF IInv, TypeOK, GatesStillPass, NothingPending, OwnedBy, PassGates,
      Goto, ledgerVars, rowVars, locks, provider, history
<1>4. WorkingOnRow'
  BY DEF IInv, WorkingOnRow, Working, PassGates, Goto, ledgerVars, rowVars, locks,
      provider, history
<1>5. SeenIsStatus'
  BY DEF IInv, SeenIsStatus, OwnsRow, PassGates, Goto, ledgerVars, rowVars, locks,
      provider, history
<1>6. DenyLocked'
  BY DEF IInv, DenyLocked, PassGates, Goto, ledgerVars, rowVars, locks, provider,
      history
<1>7. OrderingApproved'
  BY DEF IInv, OrderingApproved, Ordering, PassGates, Goto, ledgerVars, rowVars, locks,
      provider, history
<1>8. PlacedHasOrder'
  BY DEF IInv, PlacedHasOrder, PassGates, Goto, ledgerVars, rowVars, locks, provider,
      history
<1>9. RefundedDenied'
  BY DEF IInv, RefundedDenied, PassGates, Goto, ledgerVars, rowVars, locks, provider,
      history
<1>10. RowsFilled'
  BY DEF IInv, RowsFilled, PassGates, Goto, ledgerVars, rowVars, locks, provider,
      history
<1>11. PaidApproved'
  BY DEF IInv, PaidApproved, PassGates, Goto, ledgerVars, rowVars, locks, provider,
      history
<1>12. SentHasOrder'
  BY DEF IInv, SentHasOrder, PassGates, Goto, ledgerVars, rowVars, locks, provider,
      history
<1>13. OnePending'
  BY DEF IInv, OnePending, PassGates, Goto, ledgerVars, rowVars, locks, provider,
      history
<1>14. QED
  BY <1>1, <1>2, <1>3, <1>4, <1>5, <1>6, <1>7, <1>8, <1>9, <1>10, <1>11, <1>12, <1>13 DEF IInv

\* The redemption appears; its user had nothing pending and still has not,
\* since only the owner of the user's lock can add a row.
LEMMA HoldCoinsInv ==
    ASSUME IInv, NEW p \in Procs, HoldCoins(p)
    PROVE  IInv'
<1>1. TypeOK'
  <2> DEFINE s == session[p]
  <2>1. s.user \in Users /\ s.sku \in Skus /\ s.req \in Requests /\ s.start \in 0..MaxTime
    BY DEF IInv, TypeOK, CreateLocked, GatesStillPass, HoldCoins, Sessions
  <2>2. balance' \in [Users -> 0..MaxInt]
    BY <2>1 DEF IInv, TypeOK, HoldCoins, Money!Move, Money!Fits
  <2>3. applied' \subseteq [user : Users, amount : Int,
                            key : {Hold(r) : r \in Requests} \cup {Refund(r) : r \in Requests}]
    <3>1. -Cost[s.sku] \in Int
      BY <2>1, CostIsPositive
    <3>2. QED
      BY <2>1, <3>1 DEF IInv, TypeOK, HoldCoins, Money!Move, Money!Entry
  <2>4. /\ status' \in [Requests -> Statuses]
        /\ owner' \in [Requests -> Users \cup {None}]
        /\ sku' \in [Requests -> Skus \cup {None}]
        /\ createdAt' \in [Requests -> 0..MaxTime]
        /\ heldAt' \in [Requests -> 0..MaxTime]
    BY <2>1 DEF IInv, TypeOK, HoldCoins, Statuses
  <2>5. userLock' \in [Users -> Procs \cup {None}] /\ rowLock' \in [Requests -> Procs \cup {None}]
    BY DEF IInv, TypeOK, HoldCoins, Release
  <2>6. pc' \in [Procs -> Steps] /\ \A q \in Procs : pc'[q] = "idle" => session'[q] = Idle
    BY DEF IInv, TypeOK, HoldCoins, Goto, Steps
  <2>7. QED
    BY <2>2, <2>3, <2>4, <2>5, <2>6 DEF IInv, TypeOK, HoldCoins, provider
<1>2. CreateLocked'
  BY NoneIsNew DEF IInv, TypeOK, CreateLocked, HoldCoins, Release, Goto, provider
<1>3. GatesStillPass'
  BY NoneIsNew DEF IInv, TypeOK, GatesStillPass, NothingPending, OwnedBy, CreateLocked,
      WorkingOnRow, Working, Idle, HoldCoins, Release, Goto, provider
<1>4. WorkingOnRow'
  BY DEF IInv, TypeOK, WorkingOnRow, Working, GatesStillPass, Idle, HoldCoins, Release,
      Goto, provider
<1>5. SeenIsStatus'
  BY NoneIsNew DEF IInv, TypeOK, SeenIsStatus, OwnsRow, Working, WorkingOnRow,
      GatesStillPass, Idle, HoldCoins, Release, Goto, provider
<1>6. DenyLocked'
  BY NoneIsNew DEF IInv, TypeOK, DenyLocked, WorkingOnRow, RowsFilled, Working, Idle,
      SeenIsStatus, OwnsRow, CreateLocked, GatesStillPass, NothingPending, OwnedBy,
      Ordering, HoldCoins, Release, Goto, provider
<1>7. OrderingApproved'
  BY DEF IInv, TypeOK, OrderingApproved, Ordering, Working, WorkingOnRow, DenyLocked,
      SeenIsStatus, OwnsRow, GatesStillPass, HoldCoins, Release, Goto, provider
<1>8. PlacedHasOrder'
  BY DEF IInv, PlacedHasOrder, HoldCoins, Release, Goto, provider
<1>9. RefundedDenied'
  <2> DEFINE r == session[p].req
  <2>1. SUFFICES ASSUME NEW x \in Requests, NEW e \in applied', e.key = Refund(x)
                 PROVE  status'[x] = "denied"
    BY DEF RefundedDenied
  <2>2. e \in applied
    BY <2>1, KeysDiffer DEF HoldCoins, Money!Move, Money!Entry
  <2>3. status[x] = "denied" /\ status[r] = "none"
    BY <2>1, <2>2 DEF IInv, RefundedDenied, GatesStillPass, HoldCoins
  <2>4. QED
    BY <2>3 DEF IInv, TypeOK, HoldCoins
<1>10. RowsFilled'
  BY NoneIsNew DEF IInv, TypeOK, RowsFilled, GatesStillPass, CreateLocked, WorkingOnRow,
      Working, HoldCoins, Release, Goto, provider
<1>11. PaidApproved'
  BY DEF IInv, TypeOK, PaidApproved, OrderingApproved, Ordering, WorkingOnRow, Working,
      GatesStillPass, DenyLocked, SeenIsStatus, OwnsRow, HoldCoins, Release, Goto,
      provider
<1>12. SentHasOrder'
  BY DEF IInv, SentHasOrder, HoldCoins, Release, Goto, provider
<1>13. OnePending'
  BY DEF IInv, TypeOK, OnePending, GatesStillPass, NothingPending, OwnedBy,
      CreateLocked, WorkingOnRow, Working, SeenIsStatus, OwnsRow, HoldCoins, Release,
      Goto, provider
<1>14. QED
  BY <1>1, <1>2, <1>3, <1>4, <1>5, <1>6, <1>7, <1>8, <1>9, <1>10, <1>11, <1>12, <1>13 DEF IInv

\* The handler goes on to approve the row it has inserted.
LEMMA AutoApproveInv ==
    ASSUME IInv, NEW p \in Procs, AutoApprove(p)
    PROVE  IInv'
<1>1. TypeOK'
  <2>1. [session[p] EXCEPT !.auto = TRUE] \in Sessions
    BY DEF IInv, TypeOK, Sessions
  <2>2. session' \in [Procs -> Sessions] /\ \A q \in Procs : pc'[q] = "idle" => session'[q] = Idle
    BY <2>1 DEF IInv, TypeOK, AutoApprove, Goto
  <2>3. pc' \in [Procs -> Steps]
    BY DEF IInv, TypeOK, AutoApprove, Goto, Steps
  <2>4. QED
    BY <2>2, <2>3 DEF IInv, TypeOK, AutoApprove, ledgerVars, rowVars, locks, provider, history
<1>2. CreateLocked'
  BY DEF IInv, CreateLocked, AutoApprove, Goto, ledgerVars, rowVars, locks, provider,
      history
<1>3. GatesStillPass'
  BY DEF IInv, GatesStillPass, NothingPending, OwnedBy, AutoApprove, Goto, ledgerVars,
      rowVars, locks, provider, history
<1>4. WorkingOnRow'
  BY DEF IInv, WorkingOnRow, Working, AutoApprove, Goto, ledgerVars, rowVars, locks,
      provider, history
<1>5. SeenIsStatus'
  BY DEF IInv, SeenIsStatus, OwnsRow, AutoApprove, Goto, ledgerVars, rowVars, locks,
      provider, history
<1>6. DenyLocked'
  BY DEF IInv, DenyLocked, AutoApprove, Goto, ledgerVars, rowVars, locks, provider,
      history
<1>7. OrderingApproved'
  BY DEF IInv, OrderingApproved, Ordering, AutoApprove, Goto, ledgerVars, rowVars,
      locks, provider, history
<1>8. PlacedHasOrder'
  BY DEF IInv, PlacedHasOrder, AutoApprove, Goto, ledgerVars, rowVars, locks, provider,
      history
<1>9. RefundedDenied'
  BY DEF IInv, RefundedDenied, AutoApprove, Goto, ledgerVars, rowVars, locks, provider,
      history
<1>10. RowsFilled'
  BY DEF IInv, RowsFilled, AutoApprove, Goto, ledgerVars, rowVars, locks, provider,
      history
<1>11. PaidApproved'
  BY DEF IInv, PaidApproved, AutoApprove, Goto, ledgerVars, rowVars, locks, provider,
      history
<1>12. SentHasOrder'
  BY DEF IInv, SentHasOrder, AutoApprove, Goto, ledgerVars, rowVars, locks, provider,
      history
<1>13. OnePending'
  BY DEF IInv, OnePending, AutoApprove, Goto, ledgerVars, rowVars, locks, provider,
      history
<1>14. QED
  BY <1>1, <1>2, <1>3, <1>4, <1>5, <1>6, <1>7, <1>8, <1>9, <1>10, <1>11, <1>12, <1>13 DEF IInv

\* An approval starts.
LEMMA ApproveBeginInv ==
    ASSUME IInv, NEW p \in Procs, NEW r \in Requests, ApproveBegin(p, r)
    PROVE  IInv'
<1>1. TypeOK'
  <2>1. [Idle EXCEPT !.req = r] \in Sessions
    BY IdleSession DEF Sessions
  <2>2. session' \in [Procs -> Sessions] /\ \A q \in Procs : pc'[q] = "idle" => session'[q] = Idle
    BY <2>1 DEF IInv, TypeOK, ApproveBegin, Goto
  <2>3. pc' \in [Procs -> Steps]
    BY DEF IInv, TypeOK, ApproveBegin, Goto, Steps
  <2>4. QED
    BY <2>2, <2>3 DEF IInv, TypeOK, ApproveBegin, ledgerVars, rowVars, locks, provider, history
<1>2. CreateLocked'
  BY DEF IInv, CreateLocked, ApproveBegin, Goto, ledgerVars, rowVars, locks, provider,
      history
<1>3. GatesStillPass'
  BY DEF IInv, GatesStillPass, NothingPending, OwnedBy, ApproveBegin, Goto, ledgerVars,
      rowVars, locks, provider, history
<1>4. WorkingOnRow'
  BY DEF IInv, TypeOK, WorkingOnRow, Working, ApproveBegin, Goto, ledgerVars, rowVars,
      locks, provider, history
<1>5. SeenIsStatus'
  BY DEF IInv, SeenIsStatus, OwnsRow, ApproveBegin, Goto, ledgerVars, rowVars, locks,
      provider, history
<1>6. DenyLocked'
  BY DEF IInv, DenyLocked, ApproveBegin, Goto, ledgerVars, rowVars, locks, provider,
      history
<1>7. OrderingApproved'
  BY DEF IInv, OrderingApproved, Ordering, ApproveBegin, Goto, ledgerVars, rowVars,
      locks, provider, history
<1>8. PlacedHasOrder'
  BY DEF IInv, PlacedHasOrder, ApproveBegin, Goto, ledgerVars, rowVars, locks, provider,
      history
<1>9. RefundedDenied'
  BY DEF IInv, RefundedDenied, ApproveBegin, Goto, ledgerVars, rowVars, locks, provider,
      history
<1>10. RowsFilled'
  BY DEF IInv, RowsFilled, ApproveBegin, Goto, ledgerVars, rowVars, locks, provider,
      history
<1>11. PaidApproved'
  BY DEF IInv, PaidApproved, ApproveBegin, Goto, ledgerVars, rowVars, locks, provider,
      history
<1>12. SentHasOrder'
  BY DEF IInv, SentHasOrder, ApproveBegin, Goto, ledgerVars, rowVars, locks, provider,
      history
<1>13. OnePending'
  BY DEF IInv, OnePending, ApproveBegin, Goto, ledgerVars, rowVars, locks, provider,
      history
<1>14. QED
  BY <1>1, <1>2, <1>3, <1>4, <1>5, <1>6, <1>7, <1>8, <1>9, <1>10, <1>11, <1>12, <1>13 DEF IInv

\* approve takes the row and reads its status.
LEMMA ApproveLockInv ==
    ASSUME IInv, NEW p \in Procs, ApproveLock(p)
    PROVE  IInv'
<1>1. TypeOK'
  <2>1. [session[p] EXCEPT !.seen = status[session[p].req]] \in Sessions
    BY DEF IInv, TypeOK, WorkingOnRow, Working, ApproveLock, LockRow, Sessions
  <2>2. session' \in [Procs -> Sessions] /\ \A q \in Procs : pc'[q] = "idle" => session'[q] = Idle
    BY <2>1 DEF IInv, TypeOK, ApproveLock, LockRow, Goto
  <2>3. pc' \in [Procs -> Steps]
    BY DEF IInv, TypeOK, ApproveLock, LockRow, Goto, Steps
  <2>4. rowLock' \in [Requests -> Procs \cup {None}]
    BY DEF IInv, TypeOK, ApproveLock, LockRow
  <2>5. QED
    BY <2>2, <2>3, <2>4 DEF IInv, TypeOK, ApproveLock, LockRow, ledgerVars, rowVars, provider, history
<1>2. CreateLocked'
  BY DEF IInv, CreateLocked, ApproveLock, LockRow, RowFree, Goto, ledgerVars, rowVars,
      provider, history
<1>3. GatesStillPass'
  BY DEF IInv, GatesStillPass, NothingPending, OwnedBy, ApproveLock, LockRow, RowFree,
      Goto, ledgerVars, rowVars, provider, history
<1>4. WorkingOnRow'
  BY DEF IInv, WorkingOnRow, Working, ApproveLock, LockRow, RowFree, Goto, ledgerVars,
      rowVars, provider, history
<1>5. SeenIsStatus'
  BY NoneIsNew DEF IInv, TypeOK, SeenIsStatus, OwnsRow, Working, WorkingOnRow,
      GatesStillPass, Idle, ApproveLock, LockRow, RowFree, Goto, ledgerVars, rowVars,
      provider, history
<1>6. DenyLocked'
  BY DEF IInv, DenyLocked, ApproveLock, LockRow, RowFree, Goto, ledgerVars, rowVars,
      provider, history
<1>7. OrderingApproved'
  BY DEF IInv, OrderingApproved, Ordering, ApproveLock, LockRow, RowFree, Goto,
      ledgerVars, rowVars, provider, history
<1>8. PlacedHasOrder'
  BY DEF IInv, PlacedHasOrder, ApproveLock, LockRow, RowFree, Goto, ledgerVars, rowVars,
      provider, history
<1>9. RefundedDenied'
  BY DEF IInv, RefundedDenied, ApproveLock, LockRow, RowFree, Goto, ledgerVars, rowVars,
      provider, history
<1>10. RowsFilled'
  BY DEF IInv, RowsFilled, ApproveLock, LockRow, RowFree, Goto, ledgerVars, rowVars,
      provider, history
<1>11. PaidApproved'
  BY DEF IInv, PaidApproved, ApproveLock, LockRow, RowFree, Goto, ledgerVars, rowVars,
      provider, history
<1>12. SentHasOrder'
  BY DEF IInv, SentHasOrder, ApproveLock, LockRow, RowFree, Goto, ledgerVars, rowVars,
      provider, history
<1>13. OnePending'
  BY DEF IInv, OnePending, ApproveLock, LockRow, RowFree, Goto, ledgerVars, rowVars,
      provider, history
<1>14. QED
  BY <1>1, <1>2, <1>3, <1>4, <1>5, <1>6, <1>7, <1>8, <1>9, <1>10, <1>11, <1>12, <1>13 DEF IInv

\* pending becomes approved under the row lock; the lock is let go.
LEMMA ApproveCommitInv ==
    ASSUME IInv, NEW p \in Procs, ApproveCommit(p)
    PROVE  IInv'
<1>1. TypeOK'
  <2>1. pc' \in [Procs -> Steps] /\ \A q \in Procs : pc'[q] = "idle" => session'[q] = Idle
    BY DEF IInv, TypeOK, ApproveCommit, Goto, Steps
  <2>2. session[p].req \in Requests
    BY DEF IInv, WorkingOnRow, Working, ApproveCommit
  <2>3. status' \in [Requests -> Statuses] /\ auto' \subseteq Requests
    BY <2>2 DEF IInv, TypeOK, ApproveCommit, Statuses
  <2>4. userLock' \in [Users -> Procs \cup {None}] /\ rowLock' \in [Requests -> Procs \cup {None}]
    BY DEF IInv, TypeOK, ApproveCommit, Release
  <2>5. QED
    BY <2>1, <2>3, <2>4 DEF IInv, TypeOK, ApproveCommit, ledgerVars, provider
<1>2. CreateLocked'
  BY DEF IInv, CreateLocked, ApproveCommit, Approvable, Release, Goto, ledgerVars,
      provider
<1>3. GatesStillPass'
  BY NoneIsNew DEF IInv, TypeOK, GatesStillPass, NothingPending, OwnedBy, ApproveCommit,
      Approvable, Release, Goto, ledgerVars, provider
<1>4. WorkingOnRow'
  BY DEF IInv, TypeOK, WorkingOnRow, Working, ApproveCommit, Approvable, Release, Goto,
      ledgerVars, provider
<1>5. SeenIsStatus'
  BY NoneIsNew DEF IInv, TypeOK, SeenIsStatus, OwnsRow, Working, WorkingOnRow,
      GatesStillPass, Idle, ApproveCommit, Approvable, Release, Goto, ledgerVars,
      provider
<1>6. DenyLocked'
  BY NoneIsNew DEF IInv, TypeOK, DenyLocked, WorkingOnRow, RowsFilled, Working, Idle,
      SeenIsStatus, OwnsRow, ApproveCommit, Approvable, Release, Goto, ledgerVars,
      provider
<1>7. OrderingApproved'
  BY DEF IInv, TypeOK, OrderingApproved, Ordering, Working, WorkingOnRow, DenyLocked,
      SeenIsStatus, OwnsRow, GatesStillPass, ApproveCommit, Approvable, Release, Goto,
      ledgerVars, provider
<1>8. PlacedHasOrder'
  BY DEF IInv, PlacedHasOrder, ApproveCommit, Approvable, Release, Goto, ledgerVars,
      provider
<1>9. RefundedDenied'
  BY DEF IInv, TypeOK, RefundedDenied, GatesStillPass, OrderingApproved, Ordering,
      WorkingOnRow, Working, SeenIsStatus, OwnsRow, ApproveCommit, Approvable, Release,
      Goto, ledgerVars, provider
<1>10. RowsFilled'
  BY NoneIsNew DEF IInv, TypeOK, RowsFilled, GatesStillPass, CreateLocked, WorkingOnRow,
      Working, ApproveCommit, Approvable, Release, Goto, ledgerVars, provider
<1>11. PaidApproved'
  BY DEF IInv, TypeOK, PaidApproved, ApproveCommit, Approvable, Release, Goto,
      ledgerVars, provider
<1>12. SentHasOrder'
  BY DEF IInv, TypeOK, SentHasOrder, ApproveCommit, Approvable, Release, Goto,
      ledgerVars, provider
<1>13. OnePending'
  BY DEF IInv, TypeOK, OnePending, ApproveCommit, Approvable, Release, Goto, ledgerVars,
      provider
<1>14. QED
  BY <1>1, <1>2, <1>3, <1>4, <1>5, <1>6, <1>7, <1>8, <1>9, <1>10, <1>11, <1>12, <1>13 DEF IInv

\* An order leaves for a redemption that is approved.
LEMMA SendOrderInv ==
    ASSUME IInv, NEW p \in Procs, SendOrder(p)
    PROVE  IInv'
<1>1. TypeOK'
  <2>1. pc' \in [Procs -> Steps] /\ \A q \in Procs : pc'[q] = "idle" => session'[q] = Idle
    BY DEF IInv, TypeOK, SendOrder, Goto, Steps
  <2>2. inflight' \subseteq Requests
    BY DEF IInv, TypeOK, WorkingOnRow, Working, SendOrder
  <2>3. QED
    BY <2>1, <2>2 DEF IInv, TypeOK, SendOrder, ledgerVars, rowVars, locks, history
<1>2. CreateLocked'
  BY DEF IInv, CreateLocked, SendOrder, Goto, ledgerVars, rowVars, locks, history
<1>3. GatesStillPass'
  BY DEF IInv, GatesStillPass, NothingPending, OwnedBy, SendOrder, Goto, ledgerVars,
      rowVars, locks, history
<1>4. WorkingOnRow'
  BY DEF IInv, WorkingOnRow, Working, SendOrder, Goto, ledgerVars, rowVars, locks,
      history
<1>5. SeenIsStatus'
  BY DEF IInv, SeenIsStatus, OwnsRow, SendOrder, Goto, ledgerVars, rowVars, locks,
      history
<1>6. DenyLocked'
  BY DEF IInv, DenyLocked, SendOrder, Goto, ledgerVars, rowVars, locks, history
<1>7. OrderingApproved'
  BY DEF IInv, OrderingApproved, Ordering, SendOrder, Goto, ledgerVars, rowVars, locks,
      history
<1>8. PlacedHasOrder'
  BY DEF IInv, PlacedHasOrder, SendOrder, Goto, ledgerVars, rowVars, locks, history
<1>9. RefundedDenied'
  BY DEF IInv, RefundedDenied, SendOrder, Goto, ledgerVars, rowVars, locks, history
<1>10. RowsFilled'
  BY DEF IInv, RowsFilled, SendOrder, Goto, ledgerVars, rowVars, locks, history
<1>11. PaidApproved'
  BY DEF IInv, TypeOK, PaidApproved, OrderingApproved, Ordering, WorkingOnRow, Working,
      GatesStillPass, DenyLocked, SeenIsStatus, OwnsRow, SendOrder, Goto, ledgerVars,
      rowVars, locks, history
<1>12. SentHasOrder'
  BY DEF IInv, SentHasOrder, SendOrder, Goto, ledgerVars, rowVars, locks, history
<1>13. OnePending'
  BY DEF IInv, OnePending, SendOrder, Goto, ledgerVars, rowVars, locks, history
<1>14. QED
  BY <1>1, <1>2, <1>3, <1>4, <1>5, <1>6, <1>7, <1>8, <1>9, <1>10, <1>11, <1>12, <1>13 DEF IInv

\* The answer means the provider has the order.
LEMMA OrderAnsweredInv ==
    ASSUME IInv, NEW p \in Procs, OrderAnswered(p)
    PROVE  IInv'
<1>1. TypeOK'
  <2>1. pc' \in [Procs -> Steps] /\ \A q \in Procs : pc'[q] = "idle" => session'[q] = Idle
    BY DEF IInv, TypeOK, OrderAnswered, Goto, Steps
  <2>2. QED
    BY <2>1 DEF IInv, TypeOK, OrderAnswered, ledgerVars, rowVars, locks, provider, history
<1>2. CreateLocked'
  BY DEF IInv, CreateLocked, OrderAnswered, Answered, Goto, ledgerVars, rowVars, locks,
      provider, history
<1>3. GatesStillPass'
  BY DEF IInv, GatesStillPass, NothingPending, OwnedBy, OrderAnswered, Answered, Goto,
      ledgerVars, rowVars, locks, provider, history
<1>4. WorkingOnRow'
  BY DEF IInv, WorkingOnRow, Working, OrderAnswered, Answered, Goto, ledgerVars,
      rowVars, locks, provider, history
<1>5. SeenIsStatus'
  BY DEF IInv, SeenIsStatus, OwnsRow, OrderAnswered, Answered, Goto, ledgerVars,
      rowVars, locks, provider, history
<1>6. DenyLocked'
  BY DEF IInv, DenyLocked, OrderAnswered, Answered, Goto, ledgerVars, rowVars, locks,
      provider, history
<1>7. OrderingApproved'
  BY DEF IInv, OrderingApproved, Ordering, OrderAnswered, Answered, Goto, ledgerVars,
      rowVars, locks, provider, history
<1>8. PlacedHasOrder'
  BY DEF IInv, PlacedHasOrder, OrderAnswered, Answered, Goto, ledgerVars, rowVars,
      locks, provider, history
<1>9. RefundedDenied'
  BY DEF IInv, RefundedDenied, OrderAnswered, Answered, Goto, ledgerVars, rowVars,
      locks, provider, history
<1>10. RowsFilled'
  BY DEF IInv, RowsFilled, OrderAnswered, Answered, Goto, ledgerVars, rowVars, locks,
      provider, history
<1>11. PaidApproved'
  BY DEF IInv, PaidApproved, OrderAnswered, Answered, Goto, ledgerVars, rowVars, locks,
      provider, history
<1>12. SentHasOrder'
  BY DEF IInv, SentHasOrder, OrderAnswered, Answered, Goto, ledgerVars, rowVars, locks,
      provider, history
<1>13. OnePending'
  BY DEF IInv, OnePending, OrderAnswered, Answered, Goto, ledgerVars, rowVars, locks,
      provider, history
<1>14. QED
  BY <1>1, <1>2, <1>3, <1>4, <1>5, <1>6, <1>7, <1>8, <1>9, <1>10, <1>11, <1>12, <1>13 DEF IInv

\* sent is written without a look at the status: an approved row cannot have
\* become anything but sent, so this never overwrites a denial.
LEMMA RecordSentInv ==
    ASSUME IInv, NEW p \in Procs, RecordSent(p)
    PROVE  IInv'
<1>1. TypeOK'
  <2>1. session' \in [Procs -> Sessions] /\ \A q \in Procs : pc'[q] = "idle" => session'[q] = Idle
    BY IdleSession DEF IInv, TypeOK, RecordSent, Finish, Goto
  <2>2. pc' \in [Procs -> Steps]
    BY DEF IInv, TypeOK, RecordSent, Finish, Goto, Steps
  <2>3. status' \in [Requests -> Statuses] /\ sentAt' \in [Requests -> 0..MaxTime]
    BY DEF IInv, TypeOK, RecordSent, Statuses
  <2>4. QED
    BY <2>1, <2>2, <2>3 DEF IInv, TypeOK, RecordSent, ledgerVars, locks, provider, history
<1>2. CreateLocked'
  BY DEF IInv, CreateLocked, RecordSent, RowFree, Finish, Goto, ledgerVars, locks,
      provider, history
<1>3. GatesStillPass'
  BY NoneIsNew DEF IInv, TypeOK, GatesStillPass, NothingPending, OwnedBy, CreateLocked,
      WorkingOnRow, Working, Idle, RecordSent, RowFree, Finish, Goto, ledgerVars, locks,
      provider, history
<1>4. WorkingOnRow'
  BY DEF IInv, TypeOK, WorkingOnRow, Working, RecordSent, RowFree, Finish, Goto,
      ledgerVars, locks, provider, history
<1>5. SeenIsStatus'
  BY NoneIsNew DEF IInv, TypeOK, SeenIsStatus, OwnsRow, RecordSent, RowFree, Finish,
      Goto, ledgerVars, locks, provider, history
<1>6. DenyLocked'
  BY DEF IInv, DenyLocked, RecordSent, RowFree, Finish, Goto, ledgerVars, locks,
      provider, history
<1>7. OrderingApproved'
  BY DEF IInv, TypeOK, OrderingApproved, Ordering, RecordSent, RowFree, Finish, Goto,
      ledgerVars, locks, provider, history
<1>8. PlacedHasOrder'
  BY DEF IInv, TypeOK, PlacedHasOrder, RecordSent, RowFree, Finish, Goto, ledgerVars,
      locks, provider, history
<1>9. RefundedDenied'
  BY DEF IInv, TypeOK, RefundedDenied, GatesStillPass, OrderingApproved, Ordering,
      WorkingOnRow, Working, SeenIsStatus, OwnsRow, RecordSent, RowFree, Finish, Goto,
      ledgerVars, locks, provider, history
<1>10. RowsFilled'
  BY NoneIsNew DEF IInv, TypeOK, RowsFilled, GatesStillPass, CreateLocked, WorkingOnRow,
      Working, RecordSent, RowFree, Finish, Goto, ledgerVars, locks, provider, history
<1>11. PaidApproved'
  BY DEF IInv, PaidApproved, RecordSent, RowFree, Finish, Goto, ledgerVars, locks,
      provider, history
<1>12. SentHasOrder'
  BY DEF IInv, TypeOK, SentHasOrder, PlacedHasOrder, WorkingOnRow, Working, OwnsRow,
      SeenIsStatus, GatesStillPass, RecordSent, RowFree, Finish, Goto, ledgerVars,
      locks, provider, history
<1>13. OnePending'
  BY DEF IInv, OnePending, RecordSent, RowFree, Finish, Goto, ledgerVars, locks,
      provider, history
<1>14. QED
  BY <1>1, <1>2, <1>3, <1>4, <1>5, <1>6, <1>7, <1>8, <1>9, <1>10, <1>11, <1>12, <1>13 DEF IInv

\* A denial starts.
LEMMA DenyBeginInv ==
    ASSUME IInv, NEW p \in Procs, NEW r \in Requests, DenyBegin(p, r)
    PROVE  IInv'
<1>1. TypeOK'
  <2>1. [Idle EXCEPT !.req = r] \in Sessions
    BY IdleSession DEF Sessions
  <2>2. session' \in [Procs -> Sessions] /\ \A q \in Procs : pc'[q] = "idle" => session'[q] = Idle
    BY <2>1 DEF IInv, TypeOK, DenyBegin, Goto
  <2>3. pc' \in [Procs -> Steps]
    BY DEF IInv, TypeOK, DenyBegin, Goto, Steps
  <2>4. QED
    BY <2>2, <2>3 DEF IInv, TypeOK, DenyBegin, ledgerVars, rowVars, locks, provider, history
<1>2. CreateLocked'
  BY DEF IInv, CreateLocked, DenyBegin, Goto, ledgerVars, rowVars, locks, provider,
      history
<1>3. GatesStillPass'
  BY DEF IInv, GatesStillPass, NothingPending, OwnedBy, DenyBegin, Goto, ledgerVars,
      rowVars, locks, provider, history
<1>4. WorkingOnRow'
  BY DEF IInv, TypeOK, WorkingOnRow, Working, DenyBegin, Goto, ledgerVars, rowVars,
      locks, provider, history
<1>5. SeenIsStatus'
  BY DEF IInv, SeenIsStatus, OwnsRow, DenyBegin, Goto, ledgerVars, rowVars, locks,
      provider, history
<1>6. DenyLocked'
  BY DEF IInv, DenyLocked, DenyBegin, Goto, ledgerVars, rowVars, locks, provider,
      history
<1>7. OrderingApproved'
  BY DEF IInv, OrderingApproved, Ordering, DenyBegin, Goto, ledgerVars, rowVars, locks,
      provider, history
<1>8. PlacedHasOrder'
  BY DEF IInv, PlacedHasOrder, DenyBegin, Goto, ledgerVars, rowVars, locks, provider,
      history
<1>9. RefundedDenied'
  BY DEF IInv, RefundedDenied, DenyBegin, Goto, ledgerVars, rowVars, locks, provider,
      history
<1>10. RowsFilled'
  BY DEF IInv, RowsFilled, DenyBegin, Goto, ledgerVars, rowVars, locks, provider,
      history
<1>11. PaidApproved'
  BY DEF IInv, PaidApproved, DenyBegin, Goto, ledgerVars, rowVars, locks, provider,
      history
<1>12. SentHasOrder'
  BY DEF IInv, SentHasOrder, DenyBegin, Goto, ledgerVars, rowVars, locks, provider,
      history
<1>13. OnePending'
  BY DEF IInv, OnePending, DenyBegin, Goto, ledgerVars, rowVars, locks, provider,
      history
<1>14. QED
  BY <1>1, <1>2, <1>3, <1>4, <1>5, <1>6, <1>7, <1>8, <1>9, <1>10, <1>11, <1>12, <1>13 DEF IInv

\* deny takes the row and reads its status.
LEMMA DenyLockInv ==
    ASSUME IInv, NEW p \in Procs, DenyLock(p)
    PROVE  IInv'
<1>1. TypeOK'
  <2>1. [session[p] EXCEPT !.seen = status[session[p].req]] \in Sessions
    BY DEF IInv, TypeOK, WorkingOnRow, Working, DenyLock, LockRow, Sessions
  <2>2. session' \in [Procs -> Sessions] /\ \A q \in Procs : pc'[q] = "idle" => session'[q] = Idle
    BY <2>1 DEF IInv, TypeOK, DenyLock, LockRow, Goto
  <2>3. pc' \in [Procs -> Steps]
    BY DEF IInv, TypeOK, DenyLock, LockRow, Goto, Steps
  <2>4. rowLock' \in [Requests -> Procs \cup {None}]
    BY DEF IInv, TypeOK, DenyLock, LockRow
  <2>5. QED
    BY <2>2, <2>3, <2>4 DEF IInv, TypeOK, DenyLock, LockRow, ledgerVars, rowVars, provider, history
<1>2. CreateLocked'
  BY DEF IInv, CreateLocked, DenyLock, LockRow, RowFree, Goto, ledgerVars, rowVars,
      provider, history
<1>3. GatesStillPass'
  BY DEF IInv, GatesStillPass, NothingPending, OwnedBy, DenyLock, LockRow, RowFree,
      Goto, ledgerVars, rowVars, provider, history
<1>4. WorkingOnRow'
  BY DEF IInv, WorkingOnRow, Working, DenyLock, LockRow, RowFree, Goto, ledgerVars,
      rowVars, provider, history
<1>5. SeenIsStatus'
  BY NoneIsNew DEF IInv, TypeOK, SeenIsStatus, OwnsRow, Working, WorkingOnRow,
      GatesStillPass, Idle, DenyLock, LockRow, RowFree, Goto, ledgerVars, rowVars,
      provider, history
<1>6. DenyLocked'
  BY DEF IInv, DenyLocked, DenyLock, LockRow, RowFree, Goto, ledgerVars, rowVars,
      provider, history
<1>7. OrderingApproved'
  BY DEF IInv, OrderingApproved, Ordering, DenyLock, LockRow, RowFree, Goto, ledgerVars,
      rowVars, provider, history
<1>8. PlacedHasOrder'
  BY DEF IInv, PlacedHasOrder, DenyLock, LockRow, RowFree, Goto, ledgerVars, rowVars,
      provider, history
<1>9. RefundedDenied'
  BY DEF IInv, RefundedDenied, DenyLock, LockRow, RowFree, Goto, ledgerVars, rowVars,
      provider, history
<1>10. RowsFilled'
  BY DEF IInv, RowsFilled, DenyLock, LockRow, RowFree, Goto, ledgerVars, rowVars,
      provider, history
<1>11. PaidApproved'
  BY DEF IInv, PaidApproved, DenyLock, LockRow, RowFree, Goto, ledgerVars, rowVars,
      provider, history
<1>12. SentHasOrder'
  BY DEF IInv, SentHasOrder, DenyLock, LockRow, RowFree, Goto, ledgerVars, rowVars,
      provider, history
<1>13. OnePending'
  BY DEF IInv, OnePending, DenyLock, LockRow, RowFree, Goto, ledgerVars, rowVars,
      provider, history
<1>14. QED
  BY <1>1, <1>2, <1>3, <1>4, <1>5, <1>6, <1>7, <1>8, <1>9, <1>10, <1>11, <1>12, <1>13 DEF IInv

\* deny takes the user's row while it has the redemption's.
LEMMA DenyLockUserInv ==
    ASSUME IInv, NEW p \in Procs, DenyLockUser(p)
    PROVE  IInv'
<1>1. TypeOK'
  <2>1. pc' \in [Procs -> Steps] /\ \A q \in Procs : pc'[q] = "idle" => session'[q] = Idle
    BY DEF IInv, TypeOK, DenyLockUser, Goto, Steps
  <2>2. userLock' \in [Users -> Procs \cup {None}]
    BY DEF IInv, TypeOK, DenyLockUser
  <2>3. QED
    BY <2>1, <2>2 DEF IInv, TypeOK, DenyLockUser, ledgerVars, rowVars, provider, history
<1>2. CreateLocked'
  BY NoneIsNew DEF IInv, TypeOK, CreateLocked, DenyLockUser, Deniable, UserFree, Goto,
      ledgerVars, rowVars, provider, history
<1>3. GatesStillPass'
  BY DEF IInv, GatesStillPass, NothingPending, OwnedBy, DenyLockUser, Deniable,
      UserFree, Goto, ledgerVars, rowVars, provider, history
<1>4. WorkingOnRow'
  BY DEF IInv, WorkingOnRow, Working, DenyLockUser, Deniable, UserFree, Goto,
      ledgerVars, rowVars, provider, history
<1>5. SeenIsStatus'
  BY DEF IInv, SeenIsStatus, OwnsRow, DenyLockUser, Deniable, UserFree, Goto,
      ledgerVars, rowVars, provider, history
<1>6. DenyLocked'
  BY NoneIsNew DEF IInv, TypeOK, DenyLocked, WorkingOnRow, RowsFilled, Working, Idle,
      SeenIsStatus, OwnsRow, DenyLockUser, Deniable, UserFree, Goto, ledgerVars,
      rowVars, provider, history
<1>7. OrderingApproved'
  BY DEF IInv, OrderingApproved, Ordering, DenyLockUser, Deniable, UserFree, Goto,
      ledgerVars, rowVars, provider, history
<1>8. PlacedHasOrder'
  BY DEF IInv, PlacedHasOrder, DenyLockUser, Deniable, UserFree, Goto, ledgerVars,
      rowVars, provider, history
<1>9. RefundedDenied'
  BY DEF IInv, RefundedDenied, DenyLockUser, Deniable, UserFree, Goto, ledgerVars,
      rowVars, provider, history
<1>10. RowsFilled'
  BY DEF IInv, RowsFilled, DenyLockUser, Deniable, UserFree, Goto, ledgerVars, rowVars,
      provider, history
<1>11. PaidApproved'
  BY DEF IInv, PaidApproved, DenyLockUser, Deniable, UserFree, Goto, ledgerVars,
      rowVars, provider, history
<1>12. SentHasOrder'
  BY DEF IInv, SentHasOrder, DenyLockUser, Deniable, UserFree, Goto, ledgerVars,
      rowVars, provider, history
<1>13. OnePending'
  BY DEF IInv, OnePending, DenyLockUser, Deniable, UserFree, Goto, ledgerVars, rowVars,
      provider, history
<1>14. QED
  BY <1>1, <1>2, <1>3, <1>4, <1>5, <1>6, <1>7, <1>8, <1>9, <1>10, <1>11, <1>12, <1>13 DEF IInv

\* The refund: under the row lock the status is still pending, so nobody is
\* ordering for this row and no order for it exists.
LEMMA DenyCommitInv ==
    ASSUME IInv, NEW p \in Procs, DenyCommit(p)
    PROVE  IInv'
<1>1. TypeOK'
  <2> DEFINE r == session[p].req
  <2>1. r \in Requests /\ owner[r] \in Users /\ sku[r] \in Skus
    BY DEF IInv, WorkingOnRow, Working, RowsFilled, DenyCommit
  <2>2. balance' \in [Users -> 0..MaxInt]
    BY <2>1 DEF IInv, TypeOK, DenyCommit, Money!Move, Money!Fits
  <2>3. applied' \subseteq [user : Users, amount : Int,
                            key : {Hold(x) : x \in Requests} \cup {Refund(x) : x \in Requests}]
    <3>1. RefundAmount(r) \in Int
      BY <2>1, CostIsPositive DEF RefundAmount
    <3>2. QED
      BY <2>1, <3>1 DEF IInv, TypeOK, DenyCommit, Money!Move, Money!Entry
  <2>4. status' \in [Requests -> Statuses]
    BY DEF IInv, TypeOK, DenyCommit, Statuses
  <2>5. userLock' \in [Users -> Procs \cup {None}] /\ rowLock' \in [Requests -> Procs \cup {None}]
    BY DEF IInv, TypeOK, DenyCommit, Release
  <2>6. session' \in [Procs -> Sessions] /\ \A q \in Procs : pc'[q] = "idle" => session'[q] = Idle
    BY IdleSession DEF IInv, TypeOK, DenyCommit, Finish, Goto
  <2>7. pc' \in [Procs -> Steps]
    BY DEF IInv, TypeOK, DenyCommit, Finish, Goto, Steps
  <2>8. QED
    BY <2>2, <2>3, <2>4, <2>5, <2>6, <2>7 DEF IInv, TypeOK, DenyCommit, provider, history
<1>2. CreateLocked'
  BY DEF IInv, CreateLocked, DenyCommit, Finish, Release, Goto, provider, history
<1>3. GatesStillPass'
  BY NoneIsNew DEF IInv, TypeOK, GatesStillPass, NothingPending, OwnedBy, CreateLocked,
      WorkingOnRow, Working, Idle, DenyCommit, Finish, Release, Goto, provider, history
<1>4. WorkingOnRow'
  BY DEF IInv, TypeOK, WorkingOnRow, Working, DenyCommit, Finish, Release, Goto,
      provider, history
<1>5. SeenIsStatus'
  BY NoneIsNew DEF IInv, TypeOK, SeenIsStatus, OwnsRow, Working, WorkingOnRow,
      GatesStillPass, Idle, DenyCommit, Finish, Release, Goto, provider, history
<1>6. DenyLocked'
  BY NoneIsNew DEF IInv, TypeOK, DenyLocked, WorkingOnRow, RowsFilled, Working, Idle,
      SeenIsStatus, OwnsRow, DenyCommit, Finish, Release, Goto, provider, history
<1>7. OrderingApproved'
  BY DEF IInv, TypeOK, OrderingApproved, Ordering, Working, WorkingOnRow, DenyLocked,
      SeenIsStatus, OwnsRow, GatesStillPass, DenyCommit, Finish, Release, Goto,
      provider, history
<1>8. PlacedHasOrder'
  BY DEF IInv, PlacedHasOrder, DenyCommit, Finish, Release, Goto, provider, history
<1>9. RefundedDenied'
  <2> DEFINE r == session[p].req
  <2>1. SUFFICES ASSUME NEW x \in Requests, NEW e \in applied', e.key = Refund(x)
                 PROVE  status'[x] = "denied"
    BY DEF RefundedDenied
  <2>2. e \in applied \/ x = r
    BY <2>1, KeysDiffer DEF DenyCommit, Money!Move, Money!Entry
  <2>3. e \in applied => status[x] = "denied"
    BY <2>1 DEF IInv, RefundedDenied
  <2>4. QED
    BY <2>1, <2>2, <2>3 DEF IInv, TypeOK, DenyCommit
<1>10. RowsFilled'
  BY NoneIsNew DEF IInv, TypeOK, RowsFilled, GatesStillPass, CreateLocked, WorkingOnRow,
      Working, DenyCommit, Finish, Release, Goto, provider, history
<1>11. PaidApproved'
  BY DEF IInv, TypeOK, PaidApproved, OrderingApproved, Ordering, WorkingOnRow, Working,
      GatesStillPass, DenyLocked, SeenIsStatus, OwnsRow, DenyCommit, Finish, Release,
      Goto, provider, history
<1>12. SentHasOrder'
  BY DEF IInv, SentHasOrder, DenyCommit, Finish, Release, Goto, provider, history
<1>13. OnePending'
  BY DEF IInv, OnePending, DenyCommit, Finish, Release, Goto, provider, history
<1>14. QED
  BY <1>1, <1>2, <1>3, <1>4, <1>5, <1>6, <1>7, <1>8, <1>9, <1>10, <1>11, <1>12, <1>13 DEF IInv

\* The provider takes or loses an order; the clock moves.
LEMMA EnvironmentInv ==
    ASSUME IInv, Tick \/ \E r \in Requests : Deliver(r) \/ Lose(r)
    PROVE  IInv'
<1>1. UNCHANGED <<ledgerVars, rowVars, locks, pc, session, history>>
  BY DEF Tick, Deliver, Lose, history
<1>2. /\ orders' \cup inflight' \subseteq orders \cup inflight
      /\ orders \subseteq orders'
      /\ now' \in 0..MaxTime
  BY SettingsAreNat DEF Tick, Deliver, Lose, provider, IInv, TypeOK
<1>3. TypeOK'
  BY <1>1, <1>2 DEF IInv, TypeOK, ledgerVars, rowVars, locks, history
<1>4. CreateLocked' /\ GatesStillPass' /\ WorkingOnRow' /\ SeenIsStatus' /\ DenyLocked'
  BY <1>1 DEF IInv, CreateLocked, GatesStillPass, NothingPending, OwnedBy, WorkingOnRow,
              SeenIsStatus, DenyLocked, ledgerVars, rowVars, locks
<1>5. OrderingApproved' /\ PlacedHasOrder' /\ RefundedDenied' /\ RowsFilled'
  BY <1>1, <1>2 DEF IInv, OrderingApproved, PlacedHasOrder, RefundedDenied, RowsFilled,
                    ledgerVars, rowVars
<1>6. PaidApproved' /\ SentHasOrder' /\ OnePending'
  BY <1>1, <1>2 DEF IInv, PaidApproved, SentHasOrder, OnePending, rowVars
<1>7. QED
  BY <1>3, <1>4, <1>5, <1>6 DEF IInv

-----------------------------------------------------------------------------
LEMMA InitInv == Init => IInv
<1> SUFFICES ASSUME Init PROVE IInv
  OBVIOUS
<1>1. TypeOK
  BY IdleSession, SettingsAreNat, OpeningFits DEF Init, TypeOK, Steps, Statuses
<1>2. QED
  BY <1>1 DEF Init, IInv, CreateLocked, GatesStillPass, WorkingOnRow, SeenIsStatus, DenyLocked,
              OrderingApproved, PlacedHasOrder, RefundedDenied, RowsFilled, PaidApproved,
              SentHasOrder, OnePending, Working, OwnsRow, Ordering

LEMMA NextInv == IInv /\ [Next]_vars => IInv'
<1> SUFFICES ASSUME IInv, [Next]_vars PROVE IInv'
  OBVIOUS
<1>1. CASE UNCHANGED vars
  BY <1>1 DEF vars, ledgerVars, rowVars, locks, provider, history, IInv, TypeOK, CreateLocked,
              GatesStillPass, NothingPending, OwnedBy, WorkingOnRow, SeenIsStatus, DenyLocked,
              OrderingApproved, PlacedHasOrder, RefundedDenied, RowsFilled, PaidApproved,
              SentHasOrder, OnePending
<1>2. ASSUME NEW p \in Procs,
             \/ CreateRefused(p) \/ LeaveToReview(p) \/ NotApprovable(p)
             \/ OrderFails(p) \/ NotDeniable(p) \/ Abort(p)
      PROVE  IInv'
  BY <1>2, RollbackInv DEF CreateRefused, LeaveToReview, NotApprovable, OrderFails,
                           NotDeniable, Abort
<1>3. ASSUME NEW p \in Procs,
             \/ \E u \in Users, k \in Skus : CreateBegin(p, u, k)
             \/ CreateLockUser(p)
             \/ \E r \in Requests : PassGates(p, r)
             \/ HoldCoins(p)
             \/ AutoApprove(p)
      PROVE  IInv'
  BY <1>3, CreateBeginInv, CreateLockUserInv, PassGatesInv, HoldCoinsInv, AutoApproveInv
<1>4. ASSUME NEW p \in Procs,
             \/ \E r \in Requests : ApproveBegin(p, r)
             \/ ApproveLock(p) \/ ApproveCommit(p) \/ SendOrder(p)
             \/ OrderAnswered(p) \/ RecordSent(p)
      PROVE  IInv'
  BY <1>4, ApproveBeginInv, ApproveLockInv, ApproveCommitInv, SendOrderInv,
     OrderAnsweredInv, RecordSentInv
<1>5. ASSUME NEW p \in Procs,
             \/ \E r \in Requests : DenyBegin(p, r)
             \/ DenyLock(p) \/ DenyLockUser(p) \/ DenyCommit(p)
      PROVE  IInv'
  BY <1>5, DenyBeginInv, DenyLockInv, DenyLockUserInv, DenyCommitInv
<1>6. CASE Tick \/ \E r \in Requests : Deliver(r) \/ Lose(r)
  BY <1>6, EnvironmentInv
<1>7. QED
  BY <1>1, <1>2, <1>3, <1>4, <1>5, <1>6 DEF Next

\* The inductive invariant holds of every behaviour.
THEOREM Invariance == Spec => []IInv
<1>1. QED
  BY InitInv, NextInv, PTL DEF Spec

\* Type correctness: balances stay non-negative and within the column.
THEOREM TypeCorrect == Spec => []TypeOK
<1>1. IInv => TypeOK
  BY DEF IInv
<1>2. QED
  BY <1>1, Invariance, PTL

\* No card is ordered, or on its way to be, for coins that were given back.
THEOREM NeverPaidAndRefunded == Spec => []NoDoublePayout
<1>1. IInv => NoDoublePayout
  BY DEF IInv, TypeOK, PaidApproved, RefundedDenied, NoDoublePayout
<1>2. QED
  BY <1>1, Invariance, PTL

\* A row says sent only when the provider has the order.
THEOREM SentIsOrdered == Spec => []SentHasOrder
<1>1. IInv => SentHasOrder
  BY DEF IInv
<1>2. QED
  BY <1>1, Invariance, PTL

\* A user never has two undecided redemptions.
THEOREM OneAtATime == Spec => []OnePending
<1>1. IInv => OnePending
  BY DEF IInv
<1>2. QED
  BY <1>1, Invariance, PTL
-----------------------------------------------------------------------------
(* Redemptions implements GiftCards                                        *)

\* What the promise tracks: the balances, the rows and the orders.
LEMMA OthersMap ==
    ASSUME UNCHANGED <<balance, status, owner, sku, orders>>
    PROVE  UNCHANGED Promise!vars
<1>1. QED
  BY DEF Promise!vars, Card

\* The commit of create is the promise's Hold.
LEMMA HoldCoinsMaps ==
    ASSUME IInv, NEW p \in Procs, HoldCoins(p)
    PROVE  Promise!Next
<1> DEFINE s == session[p]
<1>1. s.user \in Users /\ s.sku \in Skus /\ s.req \in Requests /\ status[s.req] = "none"
  BY DEF IInv, CreateLocked, GatesStillPass, HoldCoins
<1>2. balance \in [Users -> 0..MaxInt] /\ MaxInt \in Nat /\ Cost[s.sku] \in Nat
  BY <1>1, OpeningFits, CostIsPositive DEF IInv, TypeOK
<1>3. balance[s.user] >= Cost[s.sku]
  BY <1>1, <1>2 DEF HoldCoins, Money!Move, Money!Fits
<1>4. balance' = [balance EXCEPT ![s.user] = @ - Cost[s.sku]]
  BY <1>1, <1>2 DEF HoldCoins, Money!Move
<1>5. \A x \in Requests : Card(x) = "held" => owner[x] # s.user
  <2>1. NothingPending(s.user)
    BY DEF IInv, GatesStillPass, HoldCoins
  <2>2. \A x \in Requests : Card(x) = "held" => status[x] = "pending"
    BY DEF IInv, TypeOK, Statuses, Card
  <2>3. QED
    BY <2>1, <2>2 DEF NothingPending, OwnedBy
<1>6. Card(s.req) = "none"
  BY <1>1 DEF Card
<1>7. [r \in Requests |-> Card(r)]' = [[r \in Requests |-> Card(r)] EXCEPT ![s.req] = "held"]
  <2>1. UNCHANGED orders /\ status' = [status EXCEPT ![s.req] = "pending"]
    BY DEF HoldCoins, provider
  <2>2. PICK x \in Requests : x = s.req
    BY <1>1
  <2>3. Card(x)' = "held" /\ \A y \in Requests \ {x} : Card(y)' = Card(y)
    BY <2>1, <2>2 DEF IInv, TypeOK, Card
  <2>4. QED
    BY <2>2, <2>3
<1>8. Promise!Hold(s.user, s.req, s.sku)
  BY <1>1, <1>3, <1>4, <1>5, <1>6, <1>7 DEF Promise!Hold, HoldCoins
<1>9. QED
  BY <1>1, <1>8 DEF Promise!Next

\* The commit of deny is its Return.
LEMMA DenyCommitMaps ==
    ASSUME IInv, NEW p \in Procs, DenyCommit(p)
    PROVE  Promise!Next
<1>1. PICK r \in Requests : r = session[p].req
  BY DEF IInv, WorkingOnRow, Working, DenyCommit
<1>2. status[r] = "pending"
  BY <1>1 DEF IInv, SeenIsStatus, DenyLocked, OwnsRow, DenyCommit
<1>3. [x \in Requests |-> Card(x)]' = [[x \in Requests |-> Card(x)] EXCEPT ![r] = "returned"]
  <2>1. UNCHANGED orders /\ status' = [status EXCEPT ![r] = "denied"]
    BY <1>1 DEF DenyCommit, provider
  <2>2. Card(r)' = "returned" /\ \A x \in Requests \ {r} : Card(x)' = Card(x)
    BY <2>1 DEF IInv, TypeOK, Card
  <2>3. QED
    BY <2>2
<1>4. balance' = [balance EXCEPT ![owner[r]] = @ + Cost[sku[r]]]
  BY <1>1 DEF DenyCommit, Money!Move, RefundAmount
<1>5. Promise!Return(r)
  BY <1>1, <1>2, <1>3, <1>4 DEF Promise!Return, DenyCommit, Card
<1>6. QED
  BY <1>5 DEF Promise!Next

\* The first approval is its Decide; a repeated one changes nothing.
LEMMA ApproveCommitMaps ==
    ASSUME IInv, NEW p \in Procs, ApproveCommit(p)
    PROVE  Promise!Next \/ UNCHANGED Promise!vars
<1>1. PICK r \in Requests : r = session[p].req
  BY DEF IInv, WorkingOnRow, Working, ApproveCommit
<1>2. UNCHANGED <<balance, owner, sku, orders>>
  BY DEF ApproveCommit, ledgerVars, provider
<1>3. CASE session[p].seen = "pending"
  <2>1. status[r] = "pending" /\ r \notin orders
    BY <1>1, <1>3 DEF IInv, SeenIsStatus, OwnsRow, PaidApproved, ApproveCommit
  <2>2. [x \in Requests |-> Card(x)]' = [[x \in Requests |-> Card(x)] EXCEPT ![r] = "committed"]
    <3>1. status' = [status EXCEPT ![r] = "approved"]
      BY <1>1, <1>3 DEF ApproveCommit
    <3>2. Card(r)' = "committed" /\ \A x \in Requests \ {r} : Card(x)' = Card(x)
      BY <1>2, <2>1, <3>1 DEF IInv, TypeOK, Card
    <3>3. QED
      BY <3>2
  <2>3. Promise!Decide(r)
    BY <1>2, <2>1, <2>2 DEF Promise!Decide, Card
  <2>4. QED
    BY <2>3 DEF Promise!Next
<1>4. CASE session[p].seen # "pending"
  <2>1. UNCHANGED status
    BY <1>4 DEF ApproveCommit
  <2>2. QED
    BY <1>2, <2>1, OthersMap
<1>5. QED
  BY <1>3, <1>4

\* An order that reaches the provider is its Pay, the first time.
LEMMA DeliverMaps ==
    ASSUME IInv, NEW r \in Requests, Deliver(r)
    PROVE  Promise!Next \/ UNCHANGED Promise!vars
<1>1. status[r] \in {"approved", "sent"}
  BY DEF IInv, PaidApproved, Deliver
<1>2. UNCHANGED <<balance, status, owner, sku>> /\ orders' = orders \cup {r}
  BY DEF Deliver, ledgerVars, rowVars
<1>3. CASE r \in orders
  <2>1. UNCHANGED orders
    BY <1>2, <1>3
  <2>2. QED
    BY <1>2, <2>1, OthersMap
<1>4. CASE r \notin orders
  <2>1. [x \in Requests |-> Card(x)]' = [[x \in Requests |-> Card(x)] EXCEPT ![r] = "paid"]
    <3>1. Card(r)' = "paid" /\ \A x \in Requests \ {r} : Card(x)' = Card(x)
      BY <1>1, <1>2 DEF Card
    <3>2. QED
      BY <3>1
  <2>2. Promise!Pay(r)
    BY <1>1, <1>2, <1>4, <2>1 DEF Promise!Pay, Card
  <2>3. QED
    BY <2>2 DEF Promise!Next
<1>5. QED
  BY <1>3, <1>4

\* 'sent' is recorded of an order that exists, so the promise sees nothing.
LEMMA RecordSentMaps ==
    ASSUME IInv, NEW p \in Procs, RecordSent(p)
    PROVE  UNCHANGED Promise!vars
<1>1. PICK r \in Requests : r = session[p].req
  BY DEF IInv, WorkingOnRow, Working, RecordSent
<1>2. r \in orders /\ status[r] \in {"approved", "sent"}
  BY <1>1 DEF IInv, PlacedHasOrder, OrderingApproved, Ordering, RecordSent
<1>3. UNCHANGED <<balance, owner, sku, orders>>
  BY DEF RecordSent, ledgerVars, provider
<1>4. \A x \in Requests : Card(x)' = Card(x)
  BY <1>1, <1>2, <1>3 DEF IInv, TypeOK, RecordSent, Card
<1>5. QED
  BY <1>3, <1>4 DEF Promise!vars

\* Redemptions implements the promise of GiftCards: coins taken once, then
\* given back once or spent on one card.
THEOREM Refinement == Spec => RefinesGiftCards
<1>1. Init => Promise!Init
  BY DEF Init, Promise!Init, Card
<1>2. IInv /\ [Next]_vars => [Promise!Next]_(Promise!vars)
  <2> SUFFICES ASSUME IInv, [Next]_vars PROVE Promise!Next \/ UNCHANGED Promise!vars
    OBVIOUS
  <2>1. CASE UNCHANGED vars
    BY <2>1, OthersMap DEF vars, ledgerVars, rowVars, provider
  <2>2. ASSUME NEW p \in Procs,
               \/ CreateRefused(p) \/ LeaveToReview(p) \/ NotApprovable(p)
               \/ OrderFails(p) \/ NotDeniable(p) \/ Abort(p)
        PROVE  UNCHANGED Promise!vars
    BY <2>2, OthersMap DEF CreateRefused, LeaveToReview, NotApprovable, OrderFails,
                           NotDeniable, Abort, Rollback, ledgerVars, rowVars, provider
  <2>3. ASSUME NEW p \in Procs,
               \/ \E u \in Users, k \in Skus : CreateBegin(p, u, k)
               \/ CreateLockUser(p)
               \/ \E r \in Requests : PassGates(p, r)
               \/ AutoApprove(p)
               \/ \E r \in Requests : ApproveBegin(p, r)
               \/ ApproveLock(p) \/ SendOrder(p) \/ OrderAnswered(p)
        PROVE  UNCHANGED Promise!vars
    BY <2>3, OthersMap DEF CreateBegin, CreateLockUser, PassGates, AutoApprove, ApproveBegin,
                           ApproveLock, LockRow, SendOrder, OrderAnswered, ledgerVars, rowVars,
                           provider
  <2>4. ASSUME NEW p \in Procs,
               \/ \E r \in Requests : DenyBegin(p, r)
               \/ DenyLock(p) \/ DenyLockUser(p)
        PROVE  UNCHANGED Promise!vars
    BY <2>4, OthersMap DEF DenyBegin, DenyLock, LockRow, DenyLockUser, ledgerVars, rowVars,
                           provider
  <2>5. ASSUME NEW p \in Procs,
               HoldCoins(p) \/ ApproveCommit(p) \/ RecordSent(p) \/ DenyCommit(p)
        PROVE  Promise!Next \/ UNCHANGED Promise!vars
    BY <2>5, HoldCoinsMaps, ApproveCommitMaps, RecordSentMaps, DenyCommitMaps
  <2>6. CASE Tick \/ \E r \in Requests : Deliver(r) \/ Lose(r)
    <3>1. ASSUME NEW r \in Requests, Deliver(r)
          PROVE  Promise!Next \/ UNCHANGED Promise!vars
      BY <3>1, DeliverMaps
    <3>2. ASSUME NEW r \in Requests, Lose(r) PROVE UNCHANGED Promise!vars
      BY <3>2, OthersMap DEF Lose, ledgerVars, rowVars
    <3>3. CASE Tick
      BY <3>3, OthersMap DEF Tick, ledgerVars, rowVars, provider
    <3>4. QED
      BY <2>6, <3>1, <3>2, <3>3
  <2>7. QED
    BY <2>1, <2>2, <2>3, <2>4, <2>5, <2>6 DEF Next
<1>3. QED
  BY <1>1, <1>2, Invariance, PTL DEF Spec, RefinesGiftCards, Promise!Spec

-----------------------------------------------------------------------------
(* The gates of a request: what create found stays found until its hold,   *)
(* and who was counted as reviewed by an auto-approval stays reviewed.     *)

\* u's redemptions that a reviewer has approved
Reviewed(u) == {x \in OwnedBy(u) \ auto : status[x] \in {"approved", "sent"}}

EnoughReviewed(u) == Cardinality(Reviewed(u)) >= AutoAfter

\* Cardinality means something only for finite sets
RowsFinite == IsFiniteSet({r \in Requests : status[r] # "none"})

\* an auto-approval, once decided, is at one of the steps of approve
Approving == {"a_loaded", "a_locked", "a_approved", "a_waiting", "a_placed"}

StillCooled == \A p \in Procs : pc[p] = "c_gated" => CooledDown(session[p].user)

\* the count of auto_approvable() holds for as long as its handler lives
CountStands ==
    \A p \in Procs : session[p].auto =>
        /\ pc[p] \in Approving
        /\ session[p].req \in Requests
        /\ status[session[p].req] # "none"
        /\ EnoughReviewed(owner[session[p].req])

AutoApproved == \A r \in auto : status[r] \in {"approved", "sent"} /\ EnoughReviewed(owner[r])

GInv == RowsFinite /\ StillCooled /\ CountStands /\ AutoApproved /\ CooldownFromStart

\* Whoever was reviewed stays reviewed, so a count that was enough stays so.
LEMMA EnoughStays ==
    ASSUME NEW u, RowsFinite', EnoughReviewed(u), Reviewed(u) \subseteq Reviewed(u)',
           AutoAfter \in Nat
    PROVE  EnoughReviewed(u)'
<1>1. Reviewed(u)' \subseteq {r \in Requests : status'[r] # "none"}
  BY DEF Reviewed, OwnedBy
<1>2. IsFiniteSet(Reviewed(u)')
  BY <1>1, FS_Subset DEF RowsFinite
<1>3. /\ IsFiniteSet(Reviewed(u))
      /\ Cardinality(Reviewed(u)) <= Cardinality(Reviewed(u)')
  BY <1>2, FS_Subset
<1>4. Cardinality(Reviewed(u)) \in Nat /\ Cardinality(Reviewed(u)') \in Nat
  BY <1>2, <1>3, FS_CardinalityType
<1>5. QED
  BY <1>3, <1>4 DEF EnoughReviewed

\* A step that leaves the rows alone, as most do.
LEMMA QuietGates ==
    ASSUME IInv, GInv, UNCHANGED <<status, owner, createdAt, heldAt, auto>>,
           now' \in Nat, now' >= now,
           \A q \in Procs : /\ pc'[q] = "c_gated" => CooledDown(session'[q].user)
                            /\ session'[q].auto => /\ pc'[q] \in Approving
                                                   /\ session[q].auto /\ session'[q].req = session[q].req
    PROVE  GInv'
<1>1. RowsFinite'
  BY DEF GInv, RowsFinite
<1>2. StillCooled'
  <2> SUFFICES ASSUME NEW q \in Procs, pc'[q] = "c_gated", NEW r \in OwnedBy(session'[q].user)
               PROVE  now' - createdAt[r] >= Cooldown
    BY DEF StillCooled, CooledDown, OwnedBy
  <2>1. now - createdAt[r] >= Cooldown
    BY DEF CooledDown
  <2>2. now \in Nat /\ createdAt[r] \in Nat /\ Cooldown \in Nat
    BY SettingsAreNat DEF IInv, TypeOK, OwnedBy
  <2>3. QED
    BY <2>1, <2>2
<1>3. \A u : EnoughReviewed(u)' <=> EnoughReviewed(u)
  BY DEF EnoughReviewed, Reviewed, OwnedBy
<1>4. CountStands'
  BY <1>3 DEF GInv, CountStands
<1>5. AutoApproved'
  BY <1>3 DEF GInv, AutoApproved
<1>6. CooldownFromStart'
  BY DEF GInv, CooldownFromStart
<1>7. QED
  BY <1>1, <1>2, <1>4, <1>5, <1>6 DEF GInv

\* The same for a step of one handler that is not about to hold coins.
LEMMA QuietStep ==
    ASSUME IInv, GInv, NEW p \in Procs, UNCHANGED <<status, owner, createdAt, heldAt, auto, now>>,
           NEW step, NEW s, pc' = [pc EXCEPT ![p] = step], session' = [session EXCEPT ![p] = s],
           step = "c_gated" => CooledDown(s.user),
           s.auto => step \in Approving /\ session[p].auto /\ s.req = session[p].req
    PROVE  GInv'
<1>1. \A q \in Procs : IF q = p THEN pc'[q] = step /\ session'[q] = s
                                ELSE pc'[q] = pc[q] /\ session'[q] = session[q]
  BY DEF IInv, TypeOK
<1>2. \A q \in Procs : /\ pc'[q] = "c_gated" => CooledDown(session'[q].user)
                       /\ session'[q].auto => /\ pc'[q] \in Approving
                                              /\ session[q].auto /\ session'[q].req = session[q].req
  BY <1>1 DEF GInv, StillCooled, CountStands
<1>3. now' \in Nat /\ now' >= now
  BY SettingsAreNat DEF IInv, TypeOK
<1>4. QED
  BY <1>2, <1>3, QuietGates

\* An approved row is marked sent: nobody's count loses it.
LEMMA RowsApproved ==
    ASSUME IInv, GInv, NEW p \in Procs, NEW r \in Requests, NEW st \in {"approved", "sent"},
           status[r] # "none", status' = [status EXCEPT ![r] = st],
           UNCHANGED <<owner, createdAt, heldAt, now>>,
           \A q \in Procs \ {p} : pc'[q] = pc[q] /\ session'[q] = session[q],
           pc'[p] # "c_gated",
           session'[p].auto => /\ pc'[p] \in Approving
                               /\ session[p].auto /\ session'[p].req = session[p].req,
           \/ auto' = auto
           \/ status[r] = "pending" /\ EnoughReviewed(owner[r]) /\ auto' = auto \cup {r}
    PROVE  GInv'
<1>1. RowsFinite'
  <2>1. {x \in Requests : status'[x] # "none"} = {x \in Requests : status[x] # "none"}
    BY DEF IInv, TypeOK
  <2>2. QED
    BY <2>1 DEF GInv, RowsFinite
<1>2. \A u : EnoughReviewed(u) => EnoughReviewed(u)'
  <2> SUFFICES ASSUME NEW u, EnoughReviewed(u) PROVE EnoughReviewed(u)'
    OBVIOUS
  <2>1. Reviewed(u) \subseteq Reviewed(u)'
    BY DEF IInv, TypeOK, Reviewed, OwnedBy
  <2>2. QED
    BY <1>1, <2>1, EnoughStays, SettingsAreNat
<1>3. StillCooled'
  BY DEF GInv, StillCooled, CooledDown, OwnedBy
<1>4. CountStands'
  BY <1>2 DEF IInv, TypeOK, GInv, CountStands
<1>5. AutoApproved'
  BY <1>2 DEF IInv, TypeOK, GInv, AutoApproved
<1>6. CooldownFromStart'
  BY DEF GInv, CooldownFromStart
<1>7. QED
  BY <1>1, <1>3, <1>4, <1>5, <1>6 DEF GInv

\* The hold: the distance to the user's earlier requests is that of the gate.
LEMMA HoldGates ==
    ASSUME IInv, GInv, NEW p \in Procs, HoldCoins(p)
    PROVE  GInv'
<1> DEFINE r == session[p].req
           u == session[p].user
<1>1. /\ r \in Requests /\ status[r] = "none"
      /\ \A q \in Procs \ {p} : session[q].req # r
      /\ u \in Users /\ userLock[u] = p
  BY DEF IInv, GatesStillPass, CreateLocked, HoldCoins
<1>2. /\ status' = [status EXCEPT ![r] = "pending"]
      /\ owner' = [owner EXCEPT ![r] = u]
      /\ createdAt' = [createdAt EXCEPT ![r] = session[p].start]
      /\ heldAt' = [heldAt EXCEPT ![r] = now]
      /\ UNCHANGED <<auto, now, session>>
      /\ pc' = [pc EXCEPT ![p] = "c_held"]
  BY DEF HoldCoins, Goto
<1>3. owner[r] = None
  BY <1>1 DEF IInv, RowsFilled
<1>4. RowsFinite'
  <2>1. {x \in Requests : status'[x] # "none"} = {x \in Requests : status[x] # "none"} \cup {r}
    BY <1>1, <1>2 DEF IInv, TypeOK
  <2>2. IsFiniteSet({x \in Requests : status[x] # "none"})
    BY DEF GInv, RowsFinite
  <2>3. IsFiniteSet({x \in Requests : status[x] # "none"} \cup {r})
    BY <2>2, FS_AddElement
  <2>4. QED
    BY <2>1, <2>3 DEF RowsFinite
<1>5. \A v : EnoughReviewed(v) => EnoughReviewed(v)'
  <2> SUFFICES ASSUME NEW v, EnoughReviewed(v) PROVE EnoughReviewed(v)'
    OBVIOUS
  <2>1. Reviewed(v) \subseteq Reviewed(v)'
    BY <1>1, <1>2 DEF IInv, TypeOK, Reviewed, OwnedBy
  <2>2. QED
    BY <1>4, <2>1, EnoughStays, SettingsAreNat
<1>6. StillCooled'
  <2> SUFFICES ASSUME NEW q \in Procs, pc'[q] = "c_gated", NEW x \in OwnedBy(session[q].user)'
               PROVE  now - createdAt'[x] >= Cooldown
    BY <1>2 DEF StillCooled, CooledDown
  <2>1. q # p /\ pc[q] = "c_gated"
    BY <1>2 DEF IInv, TypeOK
  <2>2. userLock[session[q].user] = q /\ session[q].user # u
    BY <1>1, <2>1 DEF IInv, CreateLocked
  <2>3. x # r /\ x \in OwnedBy(session[q].user)
    BY <1>1, <1>2, <2>2 DEF IInv, TypeOK, OwnedBy
  <2>4. QED
    BY <1>2, <2>1, <2>3 DEF GInv, StillCooled, CooledDown, IInv, TypeOK
<1>7. CountStands'
  <2>1. ~session[p].auto
    BY DEF GInv, CountStands, Approving, HoldCoins
  <2>2. QED
    BY <1>1, <1>2, <1>5, <2>1 DEF IInv, TypeOK, GInv, CountStands
<1>8. AutoApproved'
  BY <1>1, <1>2, <1>5 DEF IInv, TypeOK, GInv, AutoApproved
<1>9. \A x \in Requests \ {r} : owner[x] = u => now - createdAt[x] >= Cooldown
  BY DEF GInv, StillCooled, CooledDown, OwnedBy, HoldCoins
<1>10. CooldownFromStart'
  BY <1>1, <1>2, <1>9 DEF IInv, TypeOK, GInv, CooldownFromStart
<1>11. QED
  BY <1>4, <1>6, <1>7, <1>8, <1>10 DEF GInv

\* auto_approvable() counts approvals, of which some may be automatic; but
\* then as many reviewed ones stand behind them.
LEMMA AutoApproveGates ==
    ASSUME IInv, GInv, NEW p \in Procs, AutoApprove(p)
    PROVE  GInv'
<1> DEFINE r == session[p].req
           u == owner[r]
           counted == {x \in OwnedBy(u) \ {r} : status[x] \in {"approved", "sent"}}
<1>1. r \in Requests /\ status[r] # "none"
  BY DEF IInv, WorkingOnRow, Working, AutoApprove
<1>2. EnoughReviewed(u)
  <2>1. CASE \E x \in counted : x \in auto
    BY <2>1 DEF GInv, AutoApproved, OwnedBy
  <2>2. CASE counted \cap auto = {}
    <3>1. counted \subseteq Reviewed(u)
      BY <2>2 DEF Reviewed
    <3>2. Reviewed(u) \subseteq {x \in Requests : status[x] # "none"}
      BY DEF Reviewed, OwnedBy
    <3>3. IsFiniteSet(Reviewed(u))
      BY <3>2, FS_Subset DEF GInv, RowsFinite
    <3>4. IsFiniteSet(counted) /\ Cardinality(counted) <= Cardinality(Reviewed(u))
      BY <3>1, <3>3, FS_Subset
    <3>5. Cardinality(counted) \in Nat /\ Cardinality(Reviewed(u)) \in Nat
      BY <3>3, <3>4, FS_CardinalityType
    <3>6. Cardinality(counted) >= AutoAfter
      BY DEF AutoApprove, EnoughApproved
    <3>7. QED
      BY <3>4, <3>5, <3>6, SettingsAreNat DEF EnoughReviewed
  <2>3. QED
    BY <2>1, <2>2
<1>3. /\ UNCHANGED <<status, owner, createdAt, heldAt, auto, now>>
      /\ pc' = [pc EXCEPT ![p] = "a_loaded"]
      /\ session' = [session EXCEPT ![p].auto = TRUE]
  BY DEF AutoApprove, Goto, rowVars, history
<1>4. RowsFinite' /\ AutoApproved' /\ CooldownFromStart'
  BY <1>3 DEF GInv, RowsFinite, AutoApproved, EnoughReviewed, Reviewed, OwnedBy,
              CooldownFromStart
<1>5. StillCooled'
  BY <1>3 DEF IInv, TypeOK, GInv, StillCooled, CooledDown, OwnedBy
<1>6. CountStands'
  <2> SUFFICES ASSUME NEW q \in Procs, session'[q].auto
               PROVE  /\ pc'[q] \in Approving
                      /\ session'[q].req \in Requests
                      /\ status[session'[q].req] # "none"
                      /\ EnoughReviewed(owner[session'[q].req])
    BY <1>3 DEF CountStands, EnoughReviewed, Reviewed, OwnedBy
  <2>1. session'[q].req = session[q].req /\ (q # p => session[q].auto)
    BY <1>3 DEF IInv, TypeOK, Sessions
  <2>2. pc'[q] = IF q = p THEN "a_loaded" ELSE pc[q]
    BY <1>3 DEF IInv, TypeOK
  <2>3. QED
    BY <1>1, <1>2, <2>1, <2>2 DEF GInv, CountStands, Approving
<1>7. QED
  BY <1>4, <1>5, <1>6 DEF GInv

\* The gates of create are read under the user's lock, at the step before
\* the hold.
LEMMA CreateGates ==
    ASSUME IInv, GInv, NEW p \in Procs,
           \/ \E u \in Users, k \in Skus : CreateBegin(p, u, k)
           \/ CreateLockUser(p)
           \/ \E r \in Requests : PassGates(p, r)
    PROVE  GInv'
<1>1. UNCHANGED <<status, owner, createdAt, heldAt, auto, now>>
  BY DEF CreateBegin, CreateLockUser, PassGates, rowVars, history
<1>2. ASSUME NEW u \in Users, NEW k \in Skus, CreateBegin(p, u, k) PROVE GInv'
  <2>1. ~[Idle EXCEPT !.user = u, !.sku = k, !.start = now].auto
    BY DEF Idle
  <2>2. QED
    BY <1>1, <1>2, <2>1, QuietStep DEF CreateBegin, Goto
<1>3. CASE CreateLockUser(p)
  <2>1. session' = [session EXCEPT ![p] = session[p]] /\ ~session[p].auto
    BY <1>3 DEF CreateLockUser, IInv, TypeOK, GInv, CountStands, Approving
  <2>2. QED
    BY <1>1, <1>3, <2>1, QuietStep DEF CreateLockUser, Goto
<1>4. ASSUME NEW r \in Requests, PassGates(p, r) PROVE GInv'
  <2>1. ~session[p].auto
    BY <1>4 DEF PassGates, GInv, CountStands, Approving
  <2>2. session' = [session EXCEPT ![p] = [session[p] EXCEPT !.req = r]]
    BY <1>4 DEF PassGates
  <2>3. /\ [session[p] EXCEPT !.req = r].auto = session[p].auto
        /\ [session[p] EXCEPT !.req = r].user = session[p].user
    BY DEF IInv, TypeOK, Sessions
  <2>4. QED
    BY <1>1, <1>4, <2>1, <2>2, <2>3, QuietStep DEF PassGates, Goto
<1>5. QED
  BY <1>2, <1>3, <1>4

\* Approve and deny, but for what they commit.
LEMMA DecideGates ==
    ASSUME IInv, GInv, NEW p \in Procs,
           \/ \E r \in Requests : ApproveBegin(p, r) \/ DenyBegin(p, r)
           \/ ApproveLock(p) \/ SendOrder(p) \/ OrderAnswered(p)
           \/ DenyLock(p) \/ DenyLockUser(p)
    PROVE  GInv'
<1>1. UNCHANGED <<status, owner, createdAt, heldAt, auto, now>>
  BY DEF ApproveBegin, DenyBegin, ApproveLock, DenyLock, LockRow, SendOrder, OrderAnswered,
         DenyLockUser, rowVars, history
<1>2. ASSUME NEW r \in Requests, ApproveBegin(p, r) \/ DenyBegin(p, r) PROVE GInv'
  <2>1. ~[Idle EXCEPT !.req = r].auto
    BY DEF Idle
  <2>2. CASE ApproveBegin(p, r)
    BY <1>1, <2>1, <2>2, QuietStep DEF ApproveBegin, Goto
  <2>3. CASE DenyBegin(p, r)
    BY <1>1, <2>1, <2>3, QuietStep DEF DenyBegin, Goto
  <2>4. QED
    BY <1>2, <2>2, <2>3
<1>3. CASE SendOrder(p) \/ OrderAnswered(p)
  <2>1. session' = [session EXCEPT ![p] = session[p]]
    BY <1>3 DEF SendOrder, OrderAnswered, IInv, TypeOK
  <2>2. QED
    BY <1>1, <1>3, <2>1, QuietStep DEF SendOrder, OrderAnswered, Goto, Approving
<1>4. CASE DenyLockUser(p)
  <2>1. session' = [session EXCEPT ![p] = session[p]] /\ ~session[p].auto
    BY <1>4 DEF DenyLockUser, IInv, TypeOK, GInv, CountStands, Approving
  <2>2. QED
    BY <1>1, <1>4, <2>1, QuietStep DEF DenyLockUser, Goto
<1>5. CASE ApproveLock(p) \/ DenyLock(p)
  <2> DEFINE s == [session[p] EXCEPT !.seen = status[session[p].req]]
  <2>1. session' = [session EXCEPT ![p] = s]
    BY <1>5 DEF ApproveLock, DenyLock, LockRow
  <2>2. s.auto = session[p].auto /\ s.req = session[p].req
    BY DEF IInv, TypeOK, Sessions
  <2>3. DenyLock(p) => ~session[p].auto
    BY DEF DenyLock, LockRow, GInv, CountStands, Approving
  <2> HIDE DEF s
  <2>4. CASE ApproveLock(p)
    BY <1>1, <2>1, <2>2, <2>4, QuietStep DEF ApproveLock, LockRow, Goto, Approving
  <2>5. CASE DenyLock(p)
    BY <1>1, <2>1, <2>2, <2>3, <2>5, QuietStep DEF DenyLock, LockRow, Goto
  <2>6. QED
    BY <1>5, <2>4, <2>5
<1>6. QED
  BY <1>2, <1>3, <1>4, <1>5

\* A handler that gives up or answers with a refusal.
LEMMA RollbackGates ==
    ASSUME IInv, GInv, NEW p \in Procs, Rollback(p)
    PROVE  GInv'
<1>1. ~Idle.auto
  BY DEF Idle
<1>2. QED
  BY <1>1, QuietStep DEF Rollback, Finish, Goto, rowVars, history

\* The approval: an automatic one joins those that reviewed ones stand behind.
LEMMA ApproveCommitGates ==
    ASSUME IInv, GInv, NEW p \in Procs, ApproveCommit(p)
    PROVE  GInv'
<1> DEFINE r == session[p].req
<1>1. r \in Requests /\ status[r] = session[p].seen /\ status[r] # "none"
  BY DEF IInv, WorkingOnRow, Working, SeenIsStatus, OwnsRow, ApproveCommit
<1>2. session[p].auto => EnoughReviewed(owner[r])
  BY DEF GInv, CountStands
<1>3. /\ UNCHANGED <<owner, createdAt, heldAt, now, session>>
      /\ pc' = [pc EXCEPT ![p] = "a_approved"]
  BY DEF ApproveCommit, Goto
<1>4. pc'[p] = "a_approved" /\ \A q \in Procs \ {p} : pc'[q] = pc[q]
  BY <1>3 DEF IInv, TypeOK
<1>5. CASE session[p].seen = "pending"
  <2>1. /\ status' = [status EXCEPT ![r] = "approved"]
        /\ auto' = IF session[p].auto THEN auto \cup {r} ELSE auto
    BY <1>5 DEF ApproveCommit
  <2>2. \/ auto' = auto
        \/ status[r] = "pending" /\ EnoughReviewed(owner[r]) /\ auto' = auto \cup {r}
    BY <1>1, <1>2, <1>5, <2>1
  <2>3. QED
    BY <1>1, <1>3, <1>4, <2>1, <2>2, RowsApproved DEF Approving
<1>6. CASE session[p].seen # "pending"
  <2>1. UNCHANGED <<status, auto>> /\ session' = [session EXCEPT ![p] = session[p]]
    BY <1>3, <1>6 DEF ApproveCommit, IInv, TypeOK
  <2>2. QED
    BY <1>3, <2>1, QuietStep DEF Approving
<1>7. QED
  BY <1>5, <1>6

\* The row of an order that was placed is marked sent.
LEMMA RecordSentGates ==
    ASSUME IInv, GInv, NEW p \in Procs, RecordSent(p)
    PROVE  GInv'
<1>1. session[p].req \in Requests /\ status[session[p].req] # "none"
  BY DEF IInv, WorkingOnRow, Working, RecordSent
<1>2. /\ \A q \in Procs \ {p} : pc'[q] = pc[q] /\ session'[q] = session[q]
      /\ pc'[p] = "idle" /\ ~session'[p].auto
  BY DEF IInv, TypeOK, RecordSent, Finish, Goto, Idle
<1>3. QED
  BY <1>1, <1>2, RowsApproved DEF RecordSent, history

\* Only an undecided redemption is denied, so no count loses one.
LEMMA DenyCommitGates ==
    ASSUME IInv, GInv, NEW p \in Procs, DenyCommit(p)
    PROVE  GInv'
<1> DEFINE r == session[p].req
<1>1. r \in Requests /\ status[r] = "pending"
  BY DEF IInv, WorkingOnRow, Working, SeenIsStatus, OwnsRow, DenyLocked, DenyCommit
<1>2. /\ UNCHANGED <<owner, createdAt, heldAt, now, auto>>
      /\ status' = [status EXCEPT ![r] = "denied"]
      /\ pc' = [pc EXCEPT ![p] = "idle"]
      /\ session' = [session EXCEPT ![p] = Idle]
  BY DEF DenyCommit, Finish, Goto, history
<1>3. RowsFinite'
  <2>1. {x \in Requests : status'[x] # "none"} = {x \in Requests : status[x] # "none"}
    BY <1>1, <1>2 DEF IInv, TypeOK
  <2>2. QED
    BY <2>1 DEF GInv, RowsFinite
<1>4. \A u : EnoughReviewed(u) => EnoughReviewed(u)'
  <2> SUFFICES ASSUME NEW u, EnoughReviewed(u) PROVE EnoughReviewed(u)'
    OBVIOUS
  <2>1. Reviewed(u) \subseteq Reviewed(u)'
    BY <1>1, <1>2 DEF IInv, TypeOK, Reviewed, OwnedBy
  <2>2. QED
    BY <1>3, <2>1, EnoughStays, SettingsAreNat
<1>5. StillCooled'
  BY <1>2 DEF IInv, TypeOK, GInv, StillCooled, CooledDown, OwnedBy
<1>6. CountStands'
  BY <1>1, <1>2, <1>4 DEF IInv, TypeOK, GInv, CountStands, Idle
<1>7. AutoApproved'
  BY <1>1, <1>2, <1>4 DEF IInv, TypeOK, GInv, AutoApproved
<1>8. CooldownFromStart'
  BY <1>2 DEF GInv, CooldownFromStart
<1>9. QED
  BY <1>3, <1>5, <1>6, <1>7, <1>8 DEF GInv

\* The provider and the clock.
LEMMA OutsideGates ==
    ASSUME IInv, GInv, Tick \/ \E r \in Requests : Deliver(r) \/ Lose(r)
    PROVE  GInv'
<1>1. UNCHANGED <<status, owner, createdAt, heldAt, auto, pc, session>>
  BY DEF Tick, Deliver, Lose, rowVars, history
<1>2. now' \in Nat /\ now' >= now
  BY SettingsAreNat DEF IInv, TypeOK, Tick, Deliver, Lose
<1>3. \A q \in Procs : /\ pc'[q] = "c_gated" => CooledDown(session'[q].user)
                       /\ session'[q].auto => /\ pc'[q] \in Approving
                                              /\ session[q].auto /\ session'[q].req = session[q].req
  BY <1>1 DEF GInv, StillCooled, CountStands
<1>4. QED
  BY <1>1, <1>2, <1>3, QuietGates

\* GInv is an invariant, on top of IInv.
LEMMA GatesHold == Spec => []GInv
<1>1. Init => GInv
  <2> SUFFICES ASSUME Init PROVE GInv
    OBVIOUS
  <2>1. {r \in Requests : status[r] # "none"} = {}
    BY DEF Init
  <2>2. RowsFinite
    BY <2>1, FS_EmptySet DEF RowsFinite
  <2>3. QED
    BY <2>2, NoneIsNew DEF Init, GInv, StillCooled, CountStands, AutoApproved, CooldownFromStart, Idle
<1>2. IInv /\ GInv /\ [Next]_vars => GInv'
  <2> SUFFICES ASSUME IInv, GInv, [Next]_vars PROVE GInv'
    OBVIOUS
  <2>1. CASE UNCHANGED vars
    BY <2>1 DEF vars, rowVars, history, GInv, RowsFinite, StillCooled, CooledDown, CountStands,
                AutoApproved, CooldownFromStart, EnoughReviewed, Reviewed, OwnedBy
  <2>2. ASSUME NEW p \in Procs,
               \/ CreateRefused(p) \/ LeaveToReview(p) \/ NotApprovable(p)
               \/ OrderFails(p) \/ NotDeniable(p) \/ Abort(p)
        PROVE  GInv'
    BY <2>2, RollbackGates DEF CreateRefused, LeaveToReview, NotApprovable, OrderFails,
                               NotDeniable, Abort
  <2>3. ASSUME NEW p \in Procs,
               \/ \E u \in Users, k \in Skus : CreateBegin(p, u, k)
               \/ CreateLockUser(p)
               \/ \E r \in Requests : PassGates(p, r)
        PROVE  GInv'
    BY <2>3, CreateGates
  <2>4. ASSUME NEW p \in Procs,
               \/ \E r \in Requests : ApproveBegin(p, r) \/ DenyBegin(p, r)
               \/ ApproveLock(p) \/ SendOrder(p) \/ OrderAnswered(p)
               \/ DenyLock(p) \/ DenyLockUser(p)
        PROVE  GInv'
    BY <2>4, DecideGates
  <2>5. ASSUME NEW p \in Procs,
               \/ HoldCoins(p) \/ AutoApprove(p) \/ ApproveCommit(p)
               \/ RecordSent(p) \/ DenyCommit(p)
        PROVE  GInv'
    BY <2>5, HoldGates, AutoApproveGates, ApproveCommitGates, RecordSentGates, DenyCommitGates
  <2>6. CASE Tick \/ \E r \in Requests : Deliver(r) \/ Lose(r)
    BY <2>6, OutsideGates
  <2>7. QED
    BY <2>1, <2>2, <2>3, <2>4, <2>5, <2>6 DEF Next
<1>3. QED
  BY <1>1, <1>2, Invariance, PTL DEF Spec

\* "First N redemptions per user are always manual" (auto_approvable), for
\* every N: although auto-approvals count each other, and without a lock,
\* that many reviewed redemptions stand behind each.
THEOREM ReviewsComeFirst == Spec => []FirstOnesReviewed
<1>1. GInv => FirstOnesReviewed
  BY DEF GInv, AutoApproved, EnoughReviewed, Reviewed, FirstOnesReviewed
<1>2. QED
  BY <1>1, GatesHold, PTL

\* redemption_cooldown_seconds: of two redemptions of a user, the later hold
\* comes at least the cooldown after the earlier request started.
THEOREM HoldsKeepDistance == Spec => []CooldownFromStart
<1>1. GInv => CooldownFromStart
  BY DEF GInv
<1>2. QED
  BY <1>1, GatesHold, PTL

-----------------------------------------------------------------------------
(* The ledger never refuses what a gate has promised.  Both Money!Move of  *)
(* Redemptions come after a check whose answer could have changed.         *)

\* a hold in the ledger is that of an existing redemption
HeldExists ==
    \A r \in Requests : (\E e \in applied : e.key = Hold(r)) => status[r] # "none"

\* the balance a create has seen still covers the cost
StillCovered ==
    \A p \in Procs : pc[p] = "c_gated" => balance[session[p].user] >= Cost[session[p].sku]

\* there is room for the coins of an undecided redemption
RoomForRefund ==
    /\ \A u \in Users : balance[u] <= Opening[u]
    /\ \A r \in Requests :
          status[r] = "pending" => balance[owner[r]] + Cost[sku[r]] <= Opening[owner[r]]

LInv == HeldExists /\ StillCovered /\ RoomForRefund

\* HoldCoins and DenyCommit have no branch for an error of the ledger, and
\* need none: whoever is about to hold or to refund finds its key unused
\* and its amount fitting.
MovesAccepted ==
    /\ \A p \in Procs : pc[p] = "c_gated" =>
          /\ ~Money!Known(Hold(session[p].req))
          /\ Money!Fits(session[p].user, -Cost[session[p].sku])
    /\ \A p \in Procs : pc[p] = "d_both" =>
          /\ ~Money!Known(Refund(session[p].req))
          /\ Money!Fits(owner[session[p].req], RefundAmount(session[p].req))

\* Steps that leave the coins alone, put nothing before review and send no
\* handler to its hold.
LEMMA QuietLedger ==
    ASSUME LInv, UNCHANGED <<ledgerVars, owner, sku>>,
           \A r \in Requests : /\ status[r] # "none" => status'[r] # "none"
                               /\ status'[r] = "pending" => status[r] = "pending",
           \A q \in Procs : pc'[q] = "c_gated" =>
               /\ pc[q] = "c_gated"
               /\ session'[q].user = session[q].user /\ session'[q].sku = session[q].sku
    PROVE  LInv'
<1>1. HeldExists'
  BY DEF LInv, HeldExists, ledgerVars
<1>2. StillCovered'
  BY DEF LInv, StillCovered, ledgerVars
<1>3. RoomForRefund'
  BY DEF LInv, RoomForRefund, ledgerVars
<1>4. QED
  BY <1>1, <1>2, <1>3 DEF LInv

\* The gate on the balance, read under the lock of the user.
LEMMA PassGatesLedger ==
    ASSUME IInv, LInv, NEW p \in Procs, NEW r \in Requests, PassGates(p, r)
    PROVE  LInv'
<1>1. UNCHANGED <<balance, applied, status, owner, sku>>
  BY DEF PassGates, ledgerVars, rowVars
<1>2. StillCovered'
  BY <1>1 DEF IInv, TypeOK, LInv, StillCovered, PassGates, Goto
<1>3. QED
  BY <1>1, <1>2 DEF LInv, HeldExists, RoomForRefund

\* A hold takes from one user only, who has nothing else undecided, and
\* nobody else holds that user's lock.
LEMMA HoldCoinsLedger ==
    ASSUME IInv, LInv, NEW p \in Procs, HoldCoins(p)
    PROVE  LInv'
<1> DEFINE s == session[p]
           u == s.user
           r == s.req
           c == Cost[s.sku]
<1>1. u \in Users /\ r \in Requests /\ s.sku \in Skus /\ c \in Nat
  BY CostIsPositive DEF IInv, CreateLocked, GatesStillPass, HoldCoins
<1>2. /\ balance \in [Users -> Int] /\ Opening \in [Users -> Int]
      /\ balance' = [balance EXCEPT ![u] = @ + (-c)]
      /\ applied' = applied \cup {Money!Entry(u, -c, Hold(r))}
  <2>1. /\ balance \in [Users -> 0..MaxInt] /\ Opening \in [Users -> 0..MaxInt]
        /\ 0..MaxInt \subseteq Int
    BY OpeningFits DEF IInv, TypeOK
  <2>2. balance \in [Users -> Int] /\ Opening \in [Users -> Int]
    BY <2>1
  <2>3. QED
    BY <2>2 DEF HoldCoins, Money!Move
<1>3. /\ status[r] = "none" /\ status' = [status EXCEPT ![r] = "pending"]
      /\ owner' = [owner EXCEPT ![r] = u] /\ sku' = [sku EXCEPT ![r] = s.sku]
      /\ status \in [Requests -> Statuses] /\ owner \in [Requests -> Users \cup {None}]
      /\ sku \in [Requests -> Skus \cup {None}]
  BY DEF IInv, TypeOK, GatesStillPass, HoldCoins
<1>4. balance'[u] = balance[u] - c /\ \A v \in Users \ {u} : balance'[v] = balance[v]
  BY <1>1, <1>2
<1>5. HeldExists'
  <2>1. SUFFICES ASSUME NEW x \in Requests, NEW e \in applied', e.key = Hold(x)
                 PROVE  status'[x] # "none"
    BY DEF HeldExists
  <2>2. e \in applied \/ x = r
    BY <1>2, <2>1 DEF Money!Entry, Hold
  <2>3. QED
    BY <1>1, <1>3, <2>1, <2>2 DEF LInv, HeldExists
<1>6. StillCovered'
  <2>1. SUFFICES ASSUME NEW q \in Procs, pc'[q] = "c_gated"
                 PROVE  balance'[session'[q].user] >= Cost[session'[q].sku]
    BY DEF StillCovered
  <2>2. q # p /\ pc[q] = "c_gated" /\ session' = session
    BY <2>1 DEF HoldCoins, Goto, IInv, TypeOK
  <2>3. session[q].user \in Users /\ session[q].user # u
    BY <1>1, <2>2 DEF IInv, CreateLocked, HoldCoins
  <2>4. QED
    BY <1>4, <2>2, <2>3 DEF LInv, StillCovered
<1>7. RoomForRefund'
  <2>1. \A v \in Users : balance'[v] <= balance[v] /\ balance'[v] \in Int
    BY <1>1, <1>2, <1>4
  <2>2. \A v \in Users : balance'[v] <= Opening[v]
    BY <1>2, <2>1 DEF LInv, RoomForRefund
  <2>3. ASSUME NEW x \in Requests, status'[x] = "pending"
        PROVE  balance'[owner'[x]] + Cost[sku'[x]] <= Opening[owner'[x]]
    <3>1. CASE x = r
      <4>1. owner'[x] = u /\ sku'[x] = s.sku
        BY <1>1, <1>3, <3>1
      <4>2. balance[u] <= Opening[u] /\ balance[u] \in Int /\ Opening[u] \in Int
        BY <1>1, <1>2 DEF LInv, RoomForRefund
      <4>3. QED
        BY <1>1, <1>4, <4>1, <4>2
    <3>2. CASE x # r
      <4>1. owner'[x] = owner[x] /\ sku'[x] = sku[x] /\ status[x] = "pending"
        BY <1>3, <2>3, <3>2
      <4>2. owner[x] \in Users /\ sku[x] \in Skus
        BY <4>1 DEF IInv, RowsFilled
      <4>3. PICK v \in Users, d \in Nat : v = owner[x] /\ d = Cost[sku[x]]
        BY <4>2, CostIsPositive
      <4>4. balance[v] + d <= Opening[v] /\ balance[v] \in Int /\ Opening[v] \in Int
        BY <1>2, <4>1, <4>3 DEF LInv, RoomForRefund
      <4>5. QED
        BY <2>1, <4>1, <4>3, <4>4
    <3>3. QED
      BY <3>1, <3>2
  <2>4. QED
    BY <2>2, <2>3 DEF RoomForRefund
<1>8. QED
  BY <1>5, <1>6, <1>7 DEF LInv

\* A refund returns what the redemption took: it was the user's only
\* undecided one, so nobody else counts on that room.
LEMMA DenyCommitLedger ==
    ASSUME IInv, LInv, NEW p \in Procs, DenyCommit(p)
    PROVE  LInv'
<1> DEFINE r == session[p].req
           u == owner[r]
           c == RefundAmount(r)
<1>1. /\ r \in Requests /\ u \in Users /\ sku[r] \in Skus /\ c \in Nat
      /\ status[r] = "pending"
  BY CostIsPositive DEF IInv, WorkingOnRow, Working, RowsFilled, SeenIsStatus, OwnsRow,
                        DenyLocked, DenyCommit, RefundAmount
<1>2. /\ balance \in [Users -> Int] /\ Opening \in [Users -> Int]
      /\ balance' = [balance EXCEPT ![u] = @ + c]
      /\ applied' = applied \cup {Money!Entry(u, c, Refund(r))}
  <2>1. /\ balance \in [Users -> 0..MaxInt] /\ Opening \in [Users -> 0..MaxInt]
        /\ 0..MaxInt \subseteq Int
    BY OpeningFits DEF IInv, TypeOK
  <2>2. balance \in [Users -> Int] /\ Opening \in [Users -> Int]
    BY <2>1
  <2>3. QED
    BY <2>2 DEF DenyCommit, Money!Move
<1>3. /\ status' = [status EXCEPT ![r] = "denied"] /\ status \in [Requests -> Statuses]
      /\ UNCHANGED <<owner, sku>>
  BY DEF IInv, TypeOK, DenyCommit
<1>4. balance'[u] = balance[u] + c /\ \A v \in Users \ {u} : balance'[v] = balance[v]
  BY <1>1, <1>2
<1>5. HeldExists'
  <2>1. SUFFICES ASSUME NEW x \in Requests, NEW e \in applied', e.key = Hold(x)
                 PROVE  status'[x] # "none"
    BY DEF HeldExists
  <2>2. e \in applied
    BY <1>2, <2>1, KeysDiffer DEF Money!Entry
  <2>3. QED
    BY <1>1, <1>3, <2>1, <2>2 DEF LInv, HeldExists
<1>6. StillCovered'
  <2>1. SUFFICES ASSUME NEW q \in Procs, pc'[q] = "c_gated"
                 PROVE  balance'[session'[q].user] >= Cost[session'[q].sku]
    BY DEF StillCovered
  <2>2. q # p /\ pc[q] = "c_gated" /\ session'[q] = session[q]
    BY <2>1 DEF DenyCommit, Finish, Goto, IInv, TypeOK
  <2>3. session[q].user \in Users /\ session[q].user # u
    BY <1>1, <2>2 DEF IInv, CreateLocked, DenyLocked, DenyCommit
  <2>4. QED
    BY <1>4, <2>2, <2>3 DEF LInv, StillCovered
<1>7. RoomForRefund'
  <2>1. balance[u] + c <= Opening[u]
    BY <1>1 DEF LInv, RoomForRefund, RefundAmount
  <2>2. \A v \in Users : balance'[v] <= Opening[v]
    BY <1>1, <1>4, <2>1 DEF LInv, RoomForRefund
  <2>3. ASSUME NEW x \in Requests, status'[x] = "pending"
        PROVE  balance'[owner'[x]] + Cost[sku'[x]] <= Opening[owner'[x]]
    <3>1. x # r /\ status[x] = "pending"
      BY <1>1, <1>3, <2>3
    <3>2. owner[x] \in Users /\ owner[x] # u
      BY <1>1, <3>1 DEF IInv, RowsFilled, OnePending
    <3>3. QED
      BY <1>3, <1>4, <3>1, <3>2 DEF LInv, RoomForRefund
  <2>4. QED
    BY <2>2, <2>3 DEF RoomForRefund
<1>8. QED
  BY <1>5, <1>6, <1>7 DEF LInv

\* LInv is an invariant, on top of IInv.
LEMMA LedgerHolds == Spec => []LInv
<1>1. Init => LInv
  <2> SUFFICES ASSUME Init PROVE LInv
    OBVIOUS
  <2>1. \A u \in Users : Opening[u] \in Int
    BY OpeningFits
  <2>2. QED
    BY <2>1 DEF Init, LInv, HeldExists, StillCovered, RoomForRefund
<1>2. IInv /\ LInv /\ [Next]_vars => LInv'
  <2> SUFFICES ASSUME IInv, LInv, [Next]_vars PROVE LInv'
    OBVIOUS
  <2>1. CASE UNCHANGED vars
    BY <2>1, QuietLedger DEF vars, rowVars
  <2>2. ASSUME NEW p \in Procs,
               \/ CreateRefused(p) \/ LeaveToReview(p) \/ NotApprovable(p)
               \/ OrderFails(p) \/ NotDeniable(p) \/ Abort(p)
        PROVE  LInv'
    <3>1. Rollback(p)
      BY <2>2 DEF CreateRefused, LeaveToReview, NotApprovable, OrderFails, NotDeniable, Abort
    <3>2. \A q \in Procs : pc'[q] = "c_gated" => pc[q] = "c_gated" /\ session'[q] = session[q]
      BY <3>1 DEF Rollback, Finish, Goto, IInv, TypeOK
    <3>3. QED
      BY <3>1, <3>2, QuietLedger DEF Rollback, rowVars
  <2>3. ASSUME NEW p \in Procs,
               \/ \E u \in Users, k \in Skus : CreateBegin(p, u, k)
               \/ CreateLockUser(p) \/ AutoApprove(p)
               \/ \E r \in Requests : ApproveBegin(p, r) \/ DenyBegin(p, r)
               \/ ApproveLock(p) \/ SendOrder(p) \/ OrderAnswered(p)
               \/ DenyLock(p) \/ DenyLockUser(p)
        PROVE  LInv'
    <3>1. UNCHANGED <<ledgerVars, rowVars>>
      BY <2>3 DEF CreateBegin, CreateLockUser, AutoApprove, ApproveBegin, DenyBegin, ApproveLock,
                  DenyLock, LockRow, SendOrder, OrderAnswered, DenyLockUser
    <3>2. \A q \in Procs : pc'[q] = "c_gated" => pc[q] = "c_gated" /\ session'[q] = session[q]
      BY <2>3 DEF IInv, TypeOK, CreateBegin, CreateLockUser, AutoApprove, ApproveBegin, DenyBegin,
                  ApproveLock, DenyLock, LockRow, SendOrder, OrderAnswered, DenyLockUser, Goto
    <3>3. QED
      BY <3>1, <3>2, QuietLedger DEF rowVars
  <2>4. ASSUME NEW p \in Procs, ApproveCommit(p) \/ RecordSent(p)
        PROVE  LInv'
    <3>1. UNCHANGED <<ledgerVars, owner, sku>>
      BY <2>4 DEF ApproveCommit, RecordSent
    <3>2. \A x \in Requests : status'[x] \in {status[x], "approved", "sent"}
      BY <2>4 DEF IInv, TypeOK, ApproveCommit, RecordSent
    <3>3. \A q \in Procs : pc'[q] = "c_gated" => pc[q] = "c_gated" /\ session'[q] = session[q]
      BY <2>4 DEF IInv, TypeOK, ApproveCommit, RecordSent, Finish, Goto
    <3>4. QED
      BY <3>1, <3>2, <3>3, QuietLedger
  <2>5. ASSUME NEW p \in Procs,
               \/ \E r \in Requests : PassGates(p, r)
               \/ HoldCoins(p) \/ DenyCommit(p)
        PROVE  LInv'
    BY <2>5, PassGatesLedger, HoldCoinsLedger, DenyCommitLedger
  <2>6. CASE Tick \/ \E r \in Requests : Deliver(r) \/ Lose(r)
    <3>1. UNCHANGED <<ledgerVars, rowVars, pc, session>>
      BY <2>6 DEF Tick, Deliver, Lose
    <3>2. QED
      BY <3>1, QuietLedger DEF rowVars
  <2>7. QED
    BY <2>1, <2>2, <2>3, <2>4, <2>5, <2>6 DEF Next
<1>3. QED
  BY <1>1, <1>2, Invariance, PTL DEF Spec

\* The hold and the refund of create_redemption() and deny_redemption()
\* never meet a used key, a short balance or a full column, whatever ran
\* between the check and the write.
THEOREM LedgerNeverRefuses == Spec => []MovesAccepted
<1>1. IInv /\ LInv => MovesAccepted
  <2> SUFFICES ASSUME IInv, LInv PROVE MovesAccepted
    OBVIOUS
  <2>1. \A u \in Users : balance[u] \in 0..MaxInt /\ Opening[u] \in 0..MaxInt /\ MaxInt \in Int
    BY OpeningFits DEF IInv, TypeOK
  <2>2. ASSUME NEW p \in Procs, pc[p] = "c_gated"
        PROVE  /\ ~Money!Known(Hold(session[p].req))
               /\ Money!Fits(session[p].user, -Cost[session[p].sku])
    <3>1. session[p].req \in Requests /\ status[session[p].req] = "none"
      BY <2>2 DEF IInv, GatesStillPass
    <3>2. PICK u \in Users, c \in Nat : u = session[p].user /\ c = Cost[session[p].sku]
      BY <2>2, CostIsPositive DEF IInv, CreateLocked
    <3>3. balance[u] >= c
      BY <2>2, <3>2 DEF LInv, StillCovered
    <3>4. QED
      BY <2>1, <3>1, <3>2, <3>3 DEF LInv, HeldExists, Money!Known, Money!Fits
  <2>3. ASSUME NEW p \in Procs, pc[p] = "d_both"
        PROVE  /\ ~Money!Known(Refund(session[p].req))
               /\ Money!Fits(owner[session[p].req], RefundAmount(session[p].req))
    <3>1. session[p].req \in Requests /\ status[session[p].req] = "pending"
      BY <2>3 DEF IInv, WorkingOnRow, Working, SeenIsStatus, OwnsRow, DenyLocked
    <3>2. owner[session[p].req] \in Users /\ sku[session[p].req] \in Skus
      BY <3>1 DEF IInv, RowsFilled
    <3>3. PICK u \in Users, c \in Nat : u = owner[session[p].req] /\ c = Cost[sku[session[p].req]]
      BY <3>2, CostIsPositive
    <3>4. balance[u] + c <= Opening[u]
      BY <3>1, <3>3 DEF LInv, RoomForRefund
    <3>5. ~Money!Known(Refund(session[p].req))
      BY <3>1 DEF IInv, RefundedDenied, Money!Known
    <3>6. Money!Fits(u, c)
      BY <2>1, <3>4 DEF Money!Fits
    <3>7. QED
      BY <3>3, <3>5, <3>6 DEF RefundAmount
  <2>4. QED
    BY <2>2, <2>3 DEF MovesAccepted
<1>2. QED
  BY <1>1, Invariance, LedgerHolds, PTL
=============================================================================
