--------------------------- MODULE WebhooksProofs ---------------------------
(***************************************************************************)
(* Theorems about Webhooks, for every set of users, transactions, calls    *)
(* and handlers.  IInv says what a handler at a step knows of the user it  *)
(* has locked; only the unique index speaks for transactions of others.    *)
(***************************************************************************)
EXTENDS Webhooks, TLAPS

Granting == {"g_locked", "g_missing", "g_inserted"}
Holding == Granting \cup {"e_locked", "e_read"}

Fits(step, s) ==
    LET u == s.call.user
        t == s.call.tx
    IN  /\ IF step = "idle" THEN s = Idle ELSE s.call \in Calls
        /\ step \in Holding => s.base = boostUntil[u]
        /\ step \in Granting => t \in Txs
        /\ step \in {"g_missing", "g_inserted"} /\ Sort[t] = "boost" =>
              s.until \in (s.base + Length)..BoostFrom(s.base)
        /\ step = "g_inserted" => owner[t] = None
        /\ step \in {"e_locked", "e_read"} => t = Expire
        /\ step = "e_read" => s.rows = ActiveGold(u)
        /\ step = "answer" => t = Expire \/ owner[t] # None

HoldsLock == \A p \in Procs : pc[p] \in Holding => userLock[User(p)] = p

OneInsert ==
    \A p, q \in Procs : p # q /\ pc[p] = "g_inserted" /\ pc[q] = "g_inserted" => Tx(p) # Tx(q)

ExpiredIsOwned == \A t \in expired : owner[t] # None

IInv ==
    /\ TypeOK
    /\ \A p \in Procs : Fits(pc[p], session[p])
    /\ HoldsLock /\ OneInsert /\ ExpiredIsOwned
    /\ PaidByReceipt /\ AckedIsGranted /\ GoldIsLastWord

LEMMA IdleFits == Idle \in Sessions /\ Fits("idle", Idle)
BY DEF Idle, Sessions, Fits, Holding, Granting

LEMMA InitInv == Init => IInv
<1> SUFFICES ASSUME Init PROVE IInv
  OBVIOUS
<1>1. TypeOK
  BY TimesAreNat, IdleFits DEF Init, TypeOK, Steps
<1>2. \A p \in Procs : Fits(pc[p], session[p])
  BY IdleFits DEF Init
<1>3. HoldsLock /\ OneInsert /\ ExpiredIsOwned
  BY DEF Init, HoldsLock, OneInsert, ExpiredIsOwned, Holding, Granting
<1>4. PaidByReceipt /\ AckedIsGranted /\ GoldIsLastWord
  BY NoneIsNew DEF Init, PaidByReceipt, AckedIsGranted, GoldIsLastWord, ActiveGold
<1>5. QED
  BY <1>1, <1>2, <1>3, <1>4 DEF IInv

\* A call names a user, and what a handler that is not idle works on is one.
LEMMA CallsNameUsers ==
    ASSUME IInv, NEW p \in Procs, pc[p] # "idle"
    PROVE  /\ session[p] \in Sessions /\ session[p].call \in Calls
           /\ User(p) \in Users /\ Tx(p) \in Txs \cup {Expire}
           /\ pc[p] \in Granting => Tx(p) \in Txs
BY CallsGiven DEF IInv, TypeOK, Fits, User, Tx

\* A handler goes on with session s and writes no table.
LEMMA QuietInv ==
    ASSUME IInv, UNCHANGED <<tables, gold>>,
           NEW p \in Procs, NEW step \in Steps, NEW s \in Sessions,
           pc' = [pc EXCEPT ![p] = step], session' = [session EXCEPT ![p] = s],
           \/ Release(p) /\ step \notin Holding
           \/ /\ userLock' = userLock
              /\ step \in Holding => pc[p] \in Holding /\ s.call = session[p].call,
           now' = now, crashes' \in 0..MaxCrashes,
           acked' \subseteq Calls, AckedIsGranted',
           Fits(step, s),
           step = "g_inserted" => UniqueAllows(p)
    PROVE  IInv'
<1>1. UNCHANGED <<owner, paid, expired, boostUntil>>
  BY DEF tables
<1>2. /\ pc'[p] = step /\ session'[p] = s
      /\ \A q \in Procs \ {p} : pc'[q] = pc[q] /\ session'[q] = session[q]
      /\ pc' \in [Procs -> Steps] /\ session' \in [Procs -> Sessions]
  BY DEF IInv, TypeOK
<1>3. /\ userLock' \in [Users -> Procs \cup {None}]
      /\ \A q \in Procs \ {p}, u \in Users : userLock[u] = q => userLock'[u] = q
  BY DEF IInv, TypeOK, Release
<1>4. \A q \in Procs : Fits(pc[q], session[q])'
  <2>1. Fits(pc[p], session[p])'
    BY <1>1, <1>2 DEF Fits, ActiveGold, BoostFrom
  <2>2. ASSUME NEW q \in Procs \ {p} PROVE Fits(pc[q], session[q])'
    <3>1. Fits(pc[q], session[q])
      BY DEF IInv
    <3>2. QED
      BY <1>1, <1>2, <3>1 DEF Fits, ActiveGold, BoostFrom
  <2>3. QED
    BY <2>1, <2>2
<1>5. TypeOK'
  <2>1. \A q \in Procs : IF pc'[q] = "idle" THEN session'[q] = Idle
                         ELSE session'[q].call \in Calls
    BY <1>4 DEF Fits
  <2>2. QED
    BY <1>1, <1>2, <1>3, <2>1 DEF IInv, TypeOK
<1>6. HoldsLock'
  <2>1. SUFFICES ASSUME NEW q \in Procs, pc'[q] \in Holding
                 PROVE  userLock'[session'[q].call.user] = q
    BY DEF HoldsLock, User
  <2>2. CASE q = p
    BY <1>2, <2>1, <2>2 DEF IInv, HoldsLock, User
  <2>3. CASE q # p
    <3>1. pc[q] \in Holding /\ pc[q] # "idle"
      BY <1>2, <2>1, <2>3 DEF Holding, Granting
    <3>2. User(q) \in Users /\ userLock[User(q)] = q
      BY <3>1, CallsNameUsers DEF IInv, HoldsLock
    <3>3. QED
      BY <1>2, <1>3, <2>3, <3>2 DEF User
  <2>4. QED
    BY <2>2, <2>3
<1>7. OneInsert'
  <2>1. SUFFICES ASSUME NEW a \in Procs, NEW b \in Procs, a # b,
                        pc'[a] = "g_inserted", pc'[b] = "g_inserted"
                 PROVE  session'[a].call.tx # session'[b].call.tx
    BY DEF OneInsert, Tx
  <2>2. CASE a # p /\ b # p
    BY <1>2, <2>1, <2>2 DEF IInv, OneInsert, Tx
  <2>3. CASE a = p \/ b = p
    <3>1. s.call = session[p].call
      BY <1>2, <2>1, <2>3 DEF Holding, Granting
    <3>2. QED
      BY <1>2, <2>1, <2>3, <3>1 DEF UniqueAllows, Tx
  <2>4. QED
    BY <2>2, <2>3
<1>8. ExpiredIsOwned' /\ PaidByReceipt' /\ GoldIsLastWord'
  BY <1>1 DEF IInv, ExpiredIsOwned, PaidByReceipt, GoldIsLastWord, ActiveGold
<1>9. QED
  BY <1>4, <1>5, <1>6, <1>7, <1>8 DEF IInv

LEMMA Ranges ==
    IInv => /\ now \in 0..MaxTime /\ crashes \in 0..MaxCrashes /\ acked \subseteq Calls
            /\ UNCHANGED <<tables, acked>> => AckedIsGranted'
BY DEF IInv, TypeOK, AckedIsGranted, tables

LEMMA FinishInv ==
    ASSUME IInv, UNCHANGED <<tables, gold>>, NEW p \in Procs, Finish(p),
           userLock' = userLock \/ Release(p),
           now' = now, crashes' \in 0..MaxCrashes,
           acked' \subseteq Calls, AckedIsGranted'
    PROVE  IInv'
<1>1. /\ pc' = [pc EXCEPT ![p] = "idle"] /\ session' = [session EXCEPT ![p] = Idle]
      /\ "idle" \in Steps \ Holding
  BY DEF Finish, Goto, Steps, Holding, Granting
<1>2. QED
  BY <1>1, IdleFits, QuietInv

\* the pc moves on and the session stays
LEMMA MovesOn ==
    ASSUME IInv, UNCHANGED <<tables, gold, session, now, crashes, acked>>,
           NEW p \in Procs, NEW step \in Steps \ {"idle"}, Goto(p, step),
           \/ Release(p) /\ step \notin Holding
           \/ userLock' = userLock /\ (step \in Holding => pc[p] \in Holding),
           Fits(step, session[p]),
           step = "g_inserted" => UniqueAllows(p)
    PROVE  IInv'
<1>1. PICK s \in Sessions : s = session[p]
  BY DEF IInv, TypeOK
<1>2. pc' = [pc EXCEPT ![p] = step] /\ session' = [session EXCEPT ![p] = s]
  BY <1>1 DEF Goto, IInv, TypeOK
<1>3. /\ now' = now /\ crashes' \in 0..MaxCrashes
      /\ acked' \subseteq Calls /\ AckedIsGranted'
  BY Ranges
<1>4. QED
  BY <1>1, <1>2, <1>3, QuietInv

\* a session with one field changed
LEMMA WithCall ==
    ASSUME NEW s \in Sessions, NEW c \in Calls
    PROVE  \E x \in Sessions : x = [s EXCEPT !.call = c] /\ x.call = c
<1>1. [s EXCEPT !.call = c] \in Sessions
  BY DEF Sessions
<1>2. PICK x : x = [s EXCEPT !.call = c]
  OBVIOUS
<1>3. x.call = c
  BY <1>2 DEF Sessions
<1>4. QED
  BY <1>1, <1>2, <1>3

LEMMA WithBase ==
    ASSUME NEW s \in Sessions, NEW b \in Nat
    PROVE  \E x \in Sessions : x = [s EXCEPT !.base = b] /\ x.base = b /\ x.call = s.call
<1>1. [s EXCEPT !.base = b] \in Sessions
  BY DEF Sessions
<1>2. PICK x : x = [s EXCEPT !.base = b]
  OBVIOUS
<1>3. x.base = b /\ x.call = s.call
  BY <1>2 DEF Sessions
<1>4. QED
  BY <1>1, <1>2, <1>3

LEMMA WithUntil ==
    ASSUME NEW s \in Sessions, NEW n \in Nat
    PROVE  \E x \in Sessions : x = [s EXCEPT !.until = n] /\ x.until = n /\ x.call = s.call /\ x.base = s.base
<1>1. [s EXCEPT !.until = n] \in Sessions
  BY DEF Sessions
<1>2. PICK x : x = [s EXCEPT !.until = n]
  OBVIOUS
<1>3. x.until = n /\ x.call = s.call /\ x.base = s.base
  BY <1>2 DEF Sessions
<1>4. QED
  BY <1>1, <1>2, <1>3

LEMMA WithRows ==
    ASSUME NEW s \in Sessions, NEW rs \in SUBSET Txs
    PROVE  \E x \in Sessions : x = [s EXCEPT !.rows = rs] /\ x.rows = rs /\ x.call = s.call /\ x.base = s.base
<1>1. [s EXCEPT !.rows = rs] \in Sessions
  BY DEF Sessions
<1>2. PICK x : x = [s EXCEPT !.rows = rs]
  OBVIOUS
<1>3. x.rows = rs /\ x.call = s.call /\ x.base = s.base
  BY <1>2 DEF Sessions
<1>4. QED
  BY <1>1, <1>2, <1>3

LEMMA ReceiveInv ==
    ASSUME IInv, NEW p \in Procs, NEW c \in Calls, Receive(p, c)
    PROVE  IInv'
<1>1. PICK s \in Sessions : s = [Idle EXCEPT !.call = c] /\ s.call = c
  BY IdleFits, WithCall
<1>2. /\ session' = [session EXCEPT ![p] = s] /\ pc' = [pc EXCEPT ![p] = "start"]
      /\ UNCHANGED <<tables, gold, now, crashes, acked>> /\ userLock' = userLock
  BY <1>1 DEF Receive, Goto
<1>3. Fits("start", s) /\ "start" \in Steps \ Holding
  BY <1>1 DEF Fits, Holding, Granting, Steps
<1>4. /\ now' = now /\ crashes' \in 0..MaxCrashes
      /\ acked' \subseteq Calls /\ AckedIsGranted'
  BY <1>2, Ranges
<1>5. QED
  BY <1>2, <1>3, <1>4, QuietInv

LEMMA LockInv ==
    ASSUME IInv, NEW p \in Procs, Lock(p)
    PROVE  IInv'
<1>1. PICK u \in Users, t \in Txs \cup {Expire}, b \in Nat :
          u = User(p) /\ t = Tx(p) /\ b = boostUntil[u]
  BY CallsNameUsers DEF Lock, IInv, TypeOK
<1>2. PICK step \in {"g_locked", "e_locked"} :
          /\ step = "e_locked" <=> t = Expire
          /\ pc' = [pc EXCEPT ![p] = step]
  BY <1>1 DEF Lock, Goto
<1>3. PICK s \in Sessions : s = [session[p] EXCEPT !.base = b] /\ s.base = b
                             /\ s.call = session[p].call
  <2>1. session[p] \in Sessions
    BY DEF IInv, TypeOK
  <2>2. QED
    BY <1>1, <2>1, WithBase
<1>4. /\ pc[p] = "start" /\ userLock[u] = None
      /\ userLock' = [userLock EXCEPT ![u] = p]
      /\ session' = [session EXCEPT ![p] = s]
      /\ UNCHANGED <<owner, paid, expired, boostUntil, now, crashes, acked, gold>>
  BY <1>1, <1>3 DEF Lock, UserFree, IInv, TypeOK, tables
<1>5. /\ pc'[p] = step /\ session'[p] = s
      /\ \A q \in Procs \ {p} : pc'[q] = pc[q] /\ session'[q] = session[q]
      /\ pc' \in [Procs -> Steps] /\ session' \in [Procs -> Sessions]
      /\ userLock' \in [Users -> Procs \cup {None}]
      /\ userLock'[u] = p /\ \A v \in Users \ {u} : userLock'[v] = userLock[v]
  BY <1>2, <1>4 DEF IInv, TypeOK, Steps
<1>6. \A q \in Procs : Fits(pc[q], session[q])'
  <2>1. Fits(pc[p], session[p])'
    <3>1. s.call \in Calls /\ s.call.user = u /\ s.call.tx = t
      BY <1>1, <1>3, <1>4 DEF IInv, Fits, User, Tx
    <3>2. QED
      BY <1>1, <1>2, <1>3, <1>4, <1>5, <3>1 DEF Fits, Holding, Granting
  <2>2. ASSUME NEW q \in Procs \ {p} PROVE Fits(pc[q], session[q])'
    <3>1. Fits(pc[q], session[q])
      BY DEF IInv
    <3>2. QED
      BY <1>4, <1>5, <3>1 DEF Fits, ActiveGold, BoostFrom
  <2>3. QED
    BY <2>1, <2>2
<1>7. TypeOK'
  <2>1. \A q \in Procs : IF pc'[q] = "idle" THEN session'[q] = Idle
                         ELSE session'[q].call \in Calls
    BY <1>6 DEF Fits
  <2>2. QED
    BY <1>4, <1>5, <2>1 DEF IInv, TypeOK
<1>8. HoldsLock'
  <2>1. SUFFICES ASSUME NEW q \in Procs, pc'[q] \in Holding
                 PROVE  userLock'[session'[q].call.user] = q
    BY DEF HoldsLock, User
  <2>2. CASE q = p
    BY <1>1, <1>3, <1>5, <2>2 DEF User
  <2>3. CASE q # p
    <3>1. pc[q] \in Holding /\ pc[q] # "idle"
      BY <1>5, <2>1, <2>3 DEF Holding, Granting
    <3>2. User(q) \in Users /\ userLock[User(q)] = q
      BY <3>1, CallsNameUsers DEF IInv, HoldsLock
    <3>3. User(q) # u
      BY <1>4, <3>2, NoneIsNew
    <3>4. QED
      BY <1>5, <2>3, <3>2, <3>3 DEF User
  <2>4. QED
    BY <2>2, <2>3
<1>9. OneInsert'
  BY <1>2, <1>5 DEF IInv, OneInsert, Tx
<1>10. (ExpiredIsOwned /\ PaidByReceipt /\ AckedIsGranted /\ GoldIsLastWord)'
  BY <1>4 DEF IInv, ExpiredIsOwned, PaidByReceipt, AckedIsGranted, GoldIsLastWord, ActiveGold
<1>11. QED
  BY <1>6, <1>7, <1>8, <1>9, <1>10 DEF IInv

LEMMA ReplayInv ==
    ASSUME IInv, NEW p \in Procs, Replay(p)
    PROVE  IInv'
<1>1. Fits("answer", session[p]) /\ "answer" \in Steps \ {"idle"} /\ "answer" \notin Holding
  BY DEF Replay, Known, Tx, IInv, Fits, Steps, Holding, Granting
<1>2. QED
  BY <1>1, MovesOn DEF Replay

LEMMA MissingInv ==
    ASSUME IInv, NEW p \in Procs, Missing(p)
    PROVE  IInv'
<1>1. PICK t \in Txs, b \in Nat, n \in Nat, x \in Nat :
          /\ t = Tx(p) /\ b = session[p].base /\ n = now
          /\ x = IF Sort[t] = "boost" THEN BoostFrom(b) ELSE session[p].until
          /\ Sort[t] = "boost" => x \in (b + Length)..BoostFrom(b)
  <2>1. Tx(p) \in Txs /\ session[p] \in Sessions
    BY CallsNameUsers DEF Missing, Granting
  <2>2. session[p].base \in Nat /\ session[p].until \in Nat /\ now \in Nat /\ Length \in Nat
    BY <2>1, TimesAreNat DEF Sessions, IInv, TypeOK
  <2>3. QED
    BY <2>1, <2>2 DEF BoostFrom
<1>2. PICK s \in Sessions : /\ s = [session[p] EXCEPT !.until = x] /\ s.until = x
                            /\ s.base = b /\ s.call = session[p].call
  <2>1. session[p] \in Sessions
    BY DEF IInv, TypeOK
  <2>2. PICK s \in Sessions : /\ s = [session[p] EXCEPT !.until = x] /\ s.until = x
                              /\ s.base = session[p].base /\ s.call = session[p].call
    BY <2>1, WithUntil
  <2>3. QED
    BY <1>1, <2>2
<1>3. /\ pc[p] = "g_locked" /\ session' = [session EXCEPT ![p] = s]
      /\ pc' = [pc EXCEPT ![p] = "g_missing"]
      /\ UNCHANGED <<tables, gold, now, crashes, acked>> /\ userLock' = userLock
  BY <1>1, <1>2 DEF Missing, Goto, IInv, TypeOK
<1>4. Fits("g_missing", s)
  BY <1>1, <1>2, <1>3 DEF IInv, Fits, Holding, Granting, Tx
<1>5. pc[p] \in Holding /\ "g_missing" \in Steps
  BY <1>3 DEF Holding, Granting, Steps
<1>6. /\ now' = now /\ crashes' \in 0..MaxCrashes
      /\ acked' \subseteq Calls /\ AckedIsGranted'
  BY <1>3, Ranges
<1>7. QED
  BY <1>2, <1>3, <1>4, <1>5, <1>6, QuietInv

LEMMA InsertInv ==
    ASSUME IInv, NEW p \in Procs, Insert(p)
    PROVE  IInv'
<1>1. Fits("g_inserted", session[p]) /\ "g_inserted" \in Steps \ {"idle"} /\ pc[p] \in Holding
  BY DEF Insert, UniqueAllows, Known, Tx, IInv, Fits, Steps, Holding, Granting
<1>2. QED
  BY <1>1, MovesOn DEF Insert

LEMMA ExpireReadInv ==
    ASSUME IInv, NEW p \in Procs, ExpireRead(p)
    PROVE  IInv'
<1>1. PICK rs \in SUBSET Txs : rs = ActiveGold(User(p))
  BY DEF ActiveGold
<1>2. PICK s \in Sessions : /\ s = [session[p] EXCEPT !.rows = rs] /\ s.rows = rs
                            /\ s.base = session[p].base /\ s.call = session[p].call
  <2>1. session[p] \in Sessions
    BY DEF IInv, TypeOK
  <2>2. QED
    BY <2>1, WithRows
<1>3. /\ pc[p] = "e_locked" /\ session' = [session EXCEPT ![p] = s]
      /\ pc' = [pc EXCEPT ![p] = "e_read"]
      /\ UNCHANGED <<tables, gold, now, crashes, acked>> /\ userLock' = userLock
  BY <1>1, <1>2 DEF ExpireRead, Goto, IInv, TypeOK
<1>4. Fits("e_read", s)
  BY <1>1, <1>2, <1>3 DEF IInv, Fits, Holding, Granting, User
<1>5. pc[p] \in Holding /\ "e_read" \in Steps
  BY <1>3 DEF Holding, Granting, Steps
<1>6. /\ now' = now /\ crashes' \in 0..MaxCrashes
      /\ acked' \subseteq Calls /\ AckedIsGranted'
  BY <1>3, Ranges
<1>7. QED
  BY <1>2, <1>3, <1>4, <1>5, <1>6, QuietInv

LEMMA AnswerInv ==
    ASSUME IInv, NEW p \in Procs, Answer(p)
    PROVE  IInv'
<1>1. /\ pc[p] = "answer" /\ acked' = acked \cup {session[p].call} /\ Finish(p)
      /\ UNCHANGED <<tables, userLock, now, crashes, gold>>
  BY DEF Answer
<1>2. session[p].call \in Calls /\ (session[p].call.tx = Expire \/ owner[session[p].call.tx] # None)
  BY <1>1 DEF IInv, Fits
<1>3. acked' \subseteq Calls /\ AckedIsGranted'
  BY <1>1, <1>2 DEF IInv, TypeOK, AckedIsGranted, tables
<1>4. QED
  BY <1>1, <1>3, Ranges, FinishInv

-----------------------------------------------------------------------------
\* What the handlers of other users know is not about the tables that the
\* holder of u's lock writes, if these writes keep what concerns others.
LEMMA CommitInv ==
    ASSUME IInv, NEW p \in Procs, pc[p] \in Holding, NEW u \in Users, u = User(p),
           Release(p), UNCHANGED <<session, now, crashes, acked>>, Goto(p, "answer"),
           owner' \in [Txs -> Users \cup {None}],
           \A t \in Txs : owner[t] # None => owner'[t] = owner[t],
           \A q \in Procs \ {p} : pc[q] = "g_inserted" => owner'[Tx(q)] = None,
           paid' \in [Txs -> [Users -> Nat]], expired' \subseteq Txs,
           boostUntil' \in [Users -> Nat], gold' \in [Users -> BOOLEAN],
           \A v \in Users \ {u} : /\ boostUntil'[v] = boostUntil[v] /\ gold'[v] = gold[v]
                                 /\ ActiveGold(v)' = ActiveGold(v),
           Tx(p) = Expire \/ owner'[Tx(p)] # None,
           ExpiredIsOwned', PaidByReceipt', gold'[u] <=> ActiveGold(u)' # {}
    PROVE  IInv'
<1>1. pc[p] # "idle" /\ session[p].call \in Calls /\ pc' = [pc EXCEPT ![p] = "answer"]
  BY CallsNameUsers DEF Holding, Granting, Goto
<1>2. /\ pc'[p] = "answer" /\ \A q \in Procs \ {p} : pc'[q] = pc[q]
      /\ \A q \in Procs : session'[q] = session[q]
      /\ pc' \in [Procs -> Steps] /\ session' \in [Procs -> Sessions]
      /\ userLock' \in [Users -> Procs \cup {None}]
      /\ \A q \in Procs \ {p}, v \in Users : userLock[v] = q => userLock'[v] = q
  BY <1>1 DEF IInv, TypeOK, Steps, Release
<1>3. \A q \in Procs \ {p} : pc[q] \in Holding =>
          User(q) \in Users \ {u} /\ userLock[User(q)] = q
  <2>1. SUFFICES ASSUME NEW q \in Procs \ {p}, pc[q] \in Holding
                 PROVE  User(q) \in Users \ {u} /\ userLock[User(q)] = q
    OBVIOUS
  <2>2. pc[q] # "idle"
    BY <2>1 DEF Holding, Granting
  <2>3. QED
    BY <2>1, <2>2, CallsNameUsers DEF IInv, HoldsLock
<1>4. \A q \in Procs : Fits(pc[q], session[q])'
  <2>1. Fits(pc[p], session[p])'
    BY <1>1, <1>2 DEF Fits, Holding, Granting, Tx
  <2>2. ASSUME NEW q \in Procs \ {p} PROVE Fits(pc[q], session[q])'
    <3>1. PICK s \in Sessions, step \in Steps :
              /\ s = session[q] /\ step = pc[q] /\ Fits(step, s)
              /\ session'[q] = s /\ pc'[q] = step
      BY <1>2 DEF IInv, TypeOK
    <3>2. step \in Holding => s.base = boostUntil'[s.call.user]
      BY <1>3, <3>1 DEF Fits, User
    <3>3. step = "e_read" => s.rows = ActiveGold(s.call.user)'
      <4>1. SUFFICES ASSUME step = "e_read" PROVE s.rows = ActiveGold(s.call.user)'
        OBVIOUS
      <4>2. PICK v \in Users \ {u} : v = s.call.user /\ s.rows = ActiveGold(v)
        BY <1>3, <3>1, <4>1 DEF Fits, User, Holding
      <4>3. QED
        BY <4>2
    <3>4. step = "g_inserted" => owner'[s.call.tx] = None
      <4>1. pc[q] = "g_inserted" => owner'[session[q].call.tx] = None
        BY DEF Tx
      <4>2. QED
        BY <3>1, <4>1
    <3>5. step = "answer" => s.call.tx = Expire \/ owner'[s.call.tx] # None
      <4>1. SUFFICES ASSUME step = "answer", s.call.tx # Expire PROVE owner'[s.call.tx] # None
        OBVIOUS
      <4>2. s.call.tx \in Txs /\ owner[s.call.tx] # None
        BY <3>1, <4>1, CallsGiven DEF Fits
      <4>3. QED
        BY <4>2
    <3>6. QED
      BY <3>1, <3>2, <3>3, <3>4, <3>5 DEF Fits, BoostFrom
  <2>3. QED
    BY <2>1, <2>2
<1>5. TypeOK'
  <2>1. \A q \in Procs : IF pc'[q] = "idle" THEN session'[q] = Idle
                         ELSE session'[q].call \in Calls
    BY <1>4 DEF Fits
  <2>2. QED
    BY <1>2, <2>1 DEF IInv, TypeOK
<1>6. HoldsLock' /\ OneInsert'
  <2>1. ASSUME NEW q \in Procs, pc'[q] \in Holding PROVE userLock'[session'[q].call.user] = q
    <3>1. q # p /\ pc[q] \in Holding
      BY <1>2, <2>1 DEF Holding, Granting
    <3>2. QED
      BY <1>2, <1>3, <3>1 DEF User
  <2>2. HoldsLock'
    BY <2>1 DEF HoldsLock, User
  <2>3. OneInsert'
    BY <1>2 DEF IInv, OneInsert, Tx
  <2>4. QED
    BY <2>2, <2>3
<1>7. AckedIsGranted'
  <2>1. SUFFICES ASSUME NEW c \in acked, c.tx # Expire PROVE owner'[c.tx] # None
    BY DEF AckedIsGranted
  <2>2. c.tx \in Txs /\ owner[c.tx] # None
    BY <2>1, CallsGiven DEF IInv, TypeOK, AckedIsGranted
  <2>3. QED
    BY <2>2
<1>8. GoldIsLastWord'
  <2>1. SUFFICES ASSUME NEW v \in Users PROVE gold'[v] <=> ActiveGold(v)' # {}
    BY DEF GoldIsLastWord
  <2>2. CASE v = u
    BY <2>2
  <2>3. CASE v # u
    BY <2>3 DEF IInv, GoldIsLastWord
  <2>4. QED
    BY <2>2, <2>3
<1>9. QED
  BY <1>4, <1>5, <1>6, <1>7, <1>8 DEF IInv

LEMMA GrantCommitInv ==
    ASSUME IInv, NEW p \in Procs, GrantCommit(p)
    PROVE  IInv'
<1>1. PICK u \in Users, t \in Txs, x \in Nat :
          u = User(p) /\ t = Tx(p) /\ x = session[p].until
  BY CallsNameUsers DEF GrantCommit, Granting, IInv, TypeOK, Sessions
<1>2. /\ pc[p] = "g_inserted"
      /\ owner' = [owner EXCEPT ![t] = u]
      /\ paid' = IF Sort[t] = "reward" THEN [paid EXCEPT ![t][u] = @ + 1] ELSE paid
      /\ boostUntil' = IF Sort[t] = "boost" THEN [boostUntil EXCEPT ![u] = x] ELSE boostUntil
      /\ gold' = IF Sort[t] = "gold" THEN [gold EXCEPT ![u] = TRUE] ELSE gold
      /\ Goto(p, "answer") /\ Release(p)
      /\ UNCHANGED <<expired, session, now, crashes, acked>>
  BY <1>1 DEF GrantCommit
<1>3. owner[t] = None /\ t \notin expired /\ pc[p] \in Holding /\ u # None
  BY <1>1, <1>2, NoneIsNew DEF IInv, Fits, ExpiredIsOwned, Tx, Holding, Granting
<1>4. /\ owner'[t] = u /\ \A y \in Txs \ {t} : owner'[y] = owner[y]
      /\ owner' \in [Txs -> Users \cup {None}]
  BY <1>2 DEF IInv, TypeOK
<1>5. \A q \in Procs \ {p} : pc[q] = "g_inserted" => owner'[Tx(q)] = None
  <2>1. SUFFICES ASSUME NEW q \in Procs \ {p}, pc[q] = "g_inserted" PROVE owner'[Tx(q)] = None
    OBVIOUS
  <2>2. Tx(q) \in Txs \ {t}
    BY <1>1, <1>2, <2>1, CallsNameUsers DEF IInv, OneInsert, Granting
  <2>3. owner[Tx(q)] = None
    BY <2>1 DEF IInv, Fits, Tx
  <2>4. QED
    BY <1>4, <2>2, <2>3
<1>6. /\ boostUntil' \in [Users -> Nat] /\ gold' \in [Users -> BOOLEAN]
      /\ \A v \in Users \ {u} : boostUntil'[v] = boostUntil[v] /\ gold'[v] = gold[v]
  <2>1. boostUntil' \in [Users -> Nat] /\ \A v \in Users \ {u} : boostUntil'[v] = boostUntil[v]
    BY <1>2 DEF IInv, TypeOK
  <2>2. gold' \in [Users -> BOOLEAN] /\ \A v \in Users \ {u} : gold'[v] = gold[v]
    BY <1>2 DEF IInv, TypeOK
  <2>3. QED
    BY <2>1, <2>2
<1>7. \A v \in Users \ {u} : ActiveGold(v)' = ActiveGold(v)
  BY <1>2, <1>3, <1>4, NoneIsNew DEF ActiveGold
<1>8. gold'[u] <=> ActiveGold(u)' # {}
  <2>1. CASE Sort[t] = "gold"
    <3>1. gold'[u] = TRUE
      BY <1>2, <2>1 DEF IInv, TypeOK
    <3>2. t \in ActiveGold(u)'
      BY <1>2, <1>3, <1>4, <2>1 DEF ActiveGold
    <3>3. QED
      BY <3>1, <3>2
  <2>2. CASE Sort[t] # "gold"
    <3>1. ActiveGold(u)' = ActiveGold(u)
      BY <1>2, <1>4, <2>2 DEF ActiveGold
    <3>2. QED
      BY <1>2, <2>2, <3>1 DEF IInv, GoldIsLastWord
  <2>3. QED
    BY <2>1, <2>2
<1>9. paid' \in [Txs -> [Users -> Nat]] /\ PaidByReceipt'
  <2>1. \A y \in Txs, v \in Users :
            paid[y][v] = IF Sort[y] = "reward" /\ owner[y] = v THEN 1 ELSE 0
    BY DEF IInv, PaidByReceipt
  <2>2. CASE Sort[t] = "reward"
    <3>0. paid[t][u] = 0
      BY <1>3, <2>1
    <3>1. paid' = [paid EXCEPT ![t][u] = 1]
      <4>1. paid' = [paid EXCEPT ![t][u] = paid[t][u] + 1]
        BY <1>2, <2>2, Zenon
      <4>2. paid[t][u] + 1 = 1
        BY <3>0
      <4>3. QED
        BY <4>1, <4>2, Zenon
    <3>2. /\ paid' \in [Txs -> [Users -> Nat]]
          /\ paid'[t][u] = 1
          /\ \A v \in Users \ {u} : paid'[t][v] = paid[t][v]
          /\ \A y \in Txs \ {t}, v \in Users : paid'[y][v] = paid[y][v]
      BY <3>1 DEF IInv, TypeOK
    <3>3. PaidByReceipt'
      <4>1. SUFFICES ASSUME NEW y \in Txs, NEW v \in Users
                     PROVE  paid'[y][v] = IF Sort[y] = "reward" /\ owner'[y] = v THEN 1 ELSE 0
        BY DEF PaidByReceipt
      <4>2. CASE y # t
        BY <1>4, <2>1, <3>2, <4>2
      <4>3. CASE y = t /\ v = u
        BY <1>4, <2>2, <3>2, <4>3
      <4>4. CASE y = t /\ v # u
        BY <1>3, <1>4, <2>1, <3>2, <4>4, NoneIsNew
      <4>5. QED
        BY <4>2, <4>3, <4>4
    <3>4. QED
      BY <3>2, <3>3
  <2>3. CASE Sort[t] # "reward"
    <3>1. paid' = paid
      BY <1>2, <2>3
    <3>2. QED
      BY <1>4, <2>1, <2>3, <3>1 DEF IInv, TypeOK, PaidByReceipt
  <2>4. QED
    BY <2>2, <2>3
<1>10. ExpiredIsOwned' /\ expired' \subseteq Txs
  BY <1>2, <1>3, <1>4 DEF IInv, TypeOK, ExpiredIsOwned
<1>11. \A y \in Txs : owner[y] # None => owner'[y] = owner[y]
  BY <1>3, <1>4
<1>12. UNCHANGED <<session, now, crashes, acked>>
  BY <1>2
<1>13. Tx(p) = Expire \/ owner'[Tx(p)] # None
  BY <1>1, <1>3, <1>4
<1>14. \A v \in Users \ {u} : /\ boostUntil'[v] = boostUntil[v] /\ gold'[v] = gold[v]
                             /\ ActiveGold(v)' = ActiveGold(v)
  BY <1>6, <1>7
<1>15. Release(p) /\ Goto(p, "answer") /\ pc[p] \in Holding /\ u = User(p)
  BY <1>1, <1>2, <1>3
<1>16. QED
  BY <1>4, <1>5, <1>6, <1>8, <1>9, <1>10, <1>11, <1>12, <1>13, <1>14, <1>15, CommitInv

LEMMA ExpireCommitInv ==
    ASSUME IInv, NEW p \in Procs, ExpireCommit(p)
    PROVE  IInv'
<1>1. PICK u \in Users, rs \in SUBSET Txs : u = User(p) /\ rs = session[p].rows
  BY CallsNameUsers DEF ExpireCommit, IInv, TypeOK, Sessions
<1>2. /\ pc[p] = "e_read"
      /\ expired' = expired \cup rs
      /\ gold' = [gold EXCEPT ![u] = FALSE]
      /\ Goto(p, "answer") /\ Release(p)
      /\ UNCHANGED <<owner, paid, boostUntil, session, now, crashes, acked>>
  BY <1>1 DEF ExpireCommit
<1>3. rs = ActiveGold(u) /\ Tx(p) = Expire /\ pc[p] \in Holding
  BY <1>1, <1>2 DEF IInv, Fits, User, Tx, Holding
<1>4. /\ gold' \in [Users -> BOOLEAN] /\ gold'[u] = FALSE
      /\ \A v \in Users \ {u} : gold'[v] = gold[v]
  BY <1>2 DEF IInv, TypeOK
<1>5. ActiveGold(u)' = {}
  BY <1>2, <1>3 DEF ActiveGold
<1>6. \A v \in Users \ {u} : ActiveGold(v)' = ActiveGold(v)
  BY <1>2, <1>3 DEF ActiveGold
<1>7. ExpiredIsOwned' /\ expired' \subseteq Txs
  BY <1>1, <1>2, <1>3, NoneIsNew DEF IInv, TypeOK, ExpiredIsOwned, ActiveGold
<1>8. PaidByReceipt'
  BY <1>2 DEF IInv, PaidByReceipt
<1>9. \A q \in Procs \ {p} : pc[q] = "g_inserted" => owner'[Tx(q)] = None
  BY <1>2 DEF IInv, Fits, Tx
<1>10. /\ owner' \in [Txs -> Users \cup {None}] /\ paid' \in [Txs -> [Users -> Nat]]
       /\ boostUntil' \in [Users -> Nat] /\ UNCHANGED <<session, now, crashes, acked>>
       /\ \A y \in Txs : owner'[y] = owner[y]
       /\ \A v \in Users : boostUntil'[v] = boostUntil[v]
  BY <1>2 DEF IInv, TypeOK
<1>11. gold'[u] <=> ActiveGold(u)' # {}
  BY <1>4, <1>5
<1>12. QED
  BY <1>1, <1>2, <1>3, <1>4, <1>6, <1>7, <1>8, <1>9, <1>10, <1>11, CommitInv

-----------------------------------------------------------------------------
LEMMA NextInv == IInv /\ [Next]_vars => IInv'
<1> SUFFICES ASSUME IInv, [Next]_vars PROVE IInv'
  OBVIOUS
<1>1. ASSUME NEW p \in Procs, NEW c \in Calls, Receive(p, c) PROVE IInv'
  BY <1>1, ReceiveInv
<1>2. ASSUME NEW p \in Procs, Lock(p) PROVE IInv'
  BY <1>2, LockInv
<1>3. ASSUME NEW p \in Procs, Replay(p) PROVE IInv'
  BY <1>3, ReplayInv
<1>4. ASSUME NEW p \in Procs, Missing(p) PROVE IInv'
  BY <1>4, MissingInv
<1>5. ASSUME NEW p \in Procs, Insert(p) PROVE IInv'
  BY <1>5, InsertInv
<1>6. ASSUME NEW p \in Procs, InsertFails(p) PROVE IInv'
  BY <1>6, Ranges, FinishInv DEF InsertFails
<1>7. ASSUME NEW p \in Procs, GrantCommit(p) PROVE IInv'
  BY <1>7, GrantCommitInv
<1>8. ASSUME NEW p \in Procs, ExpireRead(p) PROVE IInv'
  BY <1>8, ExpireReadInv
<1>9. ASSUME NEW p \in Procs, ExpireCommit(p) PROVE IInv'
  BY <1>9, ExpireCommitInv
<1>10. ASSUME NEW p \in Procs, Answer(p) PROVE IInv'
  BY <1>10, AnswerInv
<1>11. ASSUME NEW p \in Procs, Abort(p) PROVE IInv'
  <2>1. crashes' \in 0..MaxCrashes
    BY <1>11, TimesAreNat DEF Abort, IInv, TypeOK
  <2>2. QED
    BY <1>11, <2>1, Ranges, FinishInv DEF Abort
<1>12. ASSUME Tick PROVE IInv'
  <2>1. /\ UNCHANGED <<owner, paid, expired, boostUntil, userLock, pc, session, crashes,
                       acked, gold>>
        /\ now' \in 0..MaxTime /\ now' = now + 1 /\ now \in Nat /\ Length \in Nat
    BY <1>12, TimesAreNat DEF Tick, tables, IInv, TypeOK
  <2>2. ASSUME NEW q \in Procs PROVE Fits(pc[q], session[q])'
    <3>1. PICK s \in Sessions, step \in Steps :
              s = session[q] /\ step = pc[q] /\ Fits(step, s)
      BY DEF IInv, TypeOK
    <3>2. \A n : n \in (s.base + Length)..BoostFrom(s.base) =>
                     n \in (s.base + Length)..BoostFrom(s.base)'
      BY <2>1, <3>1 DEF BoostFrom, Sessions
    <3>3. s = session'[q] /\ step = pc'[q] /\ ActiveGold(s.call.user)' = ActiveGold(s.call.user)
      BY <2>1, <3>1 DEF ActiveGold
    <3>4. QED
      BY <2>1, <3>1, <3>2, <3>3 DEF Fits
  <2>3. QED
    BY <2>1, <2>2 DEF IInv, TypeOK, HoldsLock, OneInsert, ExpiredIsOwned, PaidByReceipt,
                AckedIsGranted, GoldIsLastWord, ActiveGold, BoostFrom, User, Tx
<1>13. ASSUME UNCHANGED vars PROVE IInv'
  BY <1>13 DEF vars, IInv, TypeOK, Fits, HoldsLock, OneInsert, ExpiredIsOwned, PaidByReceipt,
               AckedIsGranted, GoldIsLastWord, ActiveGold, BoostFrom, User, Tx
<1>14. QED
  BY <1>1, <1>2, <1>3, <1>4, <1>5, <1>6, <1>7, <1>8, <1>9, <1>10, <1>11, <1>12, <1>13 DEF Next

LEMMA AlwaysIInv == Spec => []IInv
  BY InitInv, NextInv, PTL DEF Spec

-----------------------------------------------------------------------------
\* Every variable has its type: no boost ends before time began.
THEOREM TypeCorrect == Spec => []TypeOK
<1>1. IInv => TypeOK
  BY DEF IInv
<1>2. QED
  BY <1>1, AlwaysIInv, PTL

\* credit_verified_reward: a receipt pays once, its own user.
THEOREM RewardsPaidOnce == Spec => []PaidByReceipt
<1>1. IInv => PaidByReceipt
  BY DEF IInv
<1>2. QED
  BY <1>1, AlwaysIInv, PTL

\* The four handlers answer 200 only for what is on file.
THEOREM AcksAreTrue == Spec => []AckedIsGranted
<1>1. IInv => AckedIsGranted
  BY DEF IInv
<1>2. QED
  BY <1>1, AlwaysIInv, PTL

\* apply_entitlement_purchase and expire_gold: gold is what the last of
\* them said.
THEOREM GoldFollowsEvents == Spec => []GoldIsLastWord
<1>1. IInv => GoldIsLastWord
  BY DEF IInv
<1>2. QED
  BY <1>1, AlwaysIInv, PTL

\* apply_entitlement_purchase: a boost bought adds its length once, however
\* purchases overlap, and no other step moves the end of the boost.
THEOREM BoostsAdd == Spec => BoostStacks
<1> DEFINE Bought(u) == {t \in Txs : Sort[t] = "boost" /\ owner[t] = None /\ owner'[t] = u}
           Added(u) ==
               /\ boostUntil'[u] >= boostUntil[u] + Length
               /\ boostUntil'[u] <= (IF boostUntil[u] > now THEN boostUntil[u] ELSE now) + Length
           Stacks == \A u \in Users : IF Bought(u) = {} THEN boostUntil'[u] = boostUntil[u]
                                      ELSE Added(u)
<1>1. ASSUME IInv, NEW p \in Procs, GrantCommit(p) PROVE Stacks
  <2>1. PICK v \in Users, t \in Txs, x \in Nat :
            v = User(p) /\ t = Tx(p) /\ x = session[p].until
    BY <1>1, CallsNameUsers DEF GrantCommit, Granting, IInv, TypeOK, Sessions
  <2>2. /\ owner'[t] = v /\ \A y \in Txs \ {t} : owner'[y] = owner[y]
        /\ boostUntil' = IF Sort[t] = "boost" THEN [boostUntil EXCEPT ![v] = x] ELSE boostUntil
    BY <1>1, <2>1 DEF GrantCommit, IInv, TypeOK
  <2>3. owner[t] = None
    BY <1>1, <2>1 DEF GrantCommit, IInv, Fits, Tx
  <2>4. Sort[t] = "boost" => x \in (boostUntil[v] + Length)..BoostFrom(boostUntil[v])
    BY <1>1, <2>1 DEF GrantCommit, IInv, Fits, User, Tx, Holding, Granting
  <2>5. ASSUME NEW u \in Users PROVE IF Bought(u) = {} THEN boostUntil'[u] = boostUntil[u]
                                     ELSE Added(u)
    <3>1. CASE u = v /\ Sort[t] = "boost"
      <4>1. t \in Bought(u)
        BY <2>2, <2>3, <3>1
      <4>2. boostUntil'[u] = x /\ boostUntil[u] \in Nat /\ now \in Nat
        BY <1>1, <2>2, <3>1 DEF IInv, TypeOK
      <4>3. Added(u)
        BY <2>4, <3>1, <4>2, TimesAreNat DEF BoostFrom
      <4>4. QED
        BY <4>1, <4>3
    <3>2. CASE u # v \/ Sort[t] # "boost"
      <4>1. Bought(u) = {}
        BY <2>2, <3>2, NoneIsNew
      <4>2. boostUntil'[u] = boostUntil[u]
        BY <1>1, <2>2, <3>2 DEF IInv, TypeOK
      <4>3. QED
        BY <4>1, <4>2
    <3>3. QED
      BY <3>1, <3>2
  <2>6. QED
    BY <2>5
<1>2. ASSUME UNCHANGED <<owner, boostUntil>> PROVE Stacks
  <2>1. \A u \in Users : Bought(u) = {}
    BY <1>2, NoneIsNew
  <2>2. QED
    BY <1>2, <2>1
<1>3. ASSUME IInv, [Next]_vars PROVE Stacks \/ UNCHANGED vars
  BY <1>1, <1>2, <1>3 DEF Next, Receive, Lock, Replay, Missing, Insert, InsertFails,
                         ExpireRead, ExpireCommit, Answer, Abort, Tick, tables
<1>4. IInv /\ [Next]_vars => [Stacks]_vars
  BY <1>3
<1>5. QED
  BY <1>4, AlwaysIInv, PTL DEF Spec, BoostStacks
=============================================================================
