-------------------------- MODULE AdmissionProofs ---------------------------
(***************************************************************************)
(* Theorems about RateLimiter and Admission, for every set of keys,        *)
(* processes and users, every limit, and every window that covers the      *)
(* skew of the clocks and the delay of the calls (TwoWindowsCover).        *)
(***************************************************************************)
EXTENDS Admission, TLAPS

-----------------------------------------------------------------------------
(* The limiter: a count outlives every call that may still add to it.      *)

CallsInTime ==
    \A p \in Procs :
        LET a == ask[p] IN
        a.key # Nobody =>
            /\ a.at - Skew <= a.clock /\ a.clock <= a.at + Skew
            /\ a.at <= now /\ now <= a.at + Delay

\* t: any clock that shows the window w
CountsLast ==
    \A k \in Keys, w \in Windows :
        /\ admitted[k][w] <= counter[k][w].n
        /\ counter[k][w].n <= tried[k][w]
        /\ counter[k][w].n > 0 =>
              \A t \in Clocks : t \div Window = w => t + Window + 1 - Skew <= counter[k][w].ends

LInv == LimiterTypeOK /\ CallsInTime /\ CountsLast /\ WindowBound

LEMMA SameWindow ==
    ASSUME NEW a \in Nat, NEW b \in Nat, a \div Window = b \div Window
    PROVE  a < b + Window
<1>1. Window \in Nat /\ Window > 0
  BY TimesAreNat
<1>2. PICK W \in Nat : W = Window /\ W > 0
  BY <1>1
<1>3. \A t \in Nat : W * (t \div W) <= t /\ t < W * (t \div W) + W
  BY <1>2, Z3
<1>4. QED
  BY <1>2, <1>3

LEMMA ClockShowsWindow == \A t \in Clocks : WindowOf(t) \in Windows /\ t \in Nat
  BY TimesAreNat DEF Clocks, Windows, WindowOf

\* what a pipeline does: it finds the count of its window and adds to it
Counted(p, k, w) ==
    /\ k = ask[p].key /\ w = WindowOf(ask[p].clock)
    /\ Count(p) = counter[k][w].n + 1
    /\ counter' = [counter EXCEPT ![k][w] = [n |-> counter[k][w].n + 1, ends |-> now + Life]]
    /\ tried' = [tried EXCEPT ![k][w] = @ + 1]
    /\ ask' = [ask EXCEPT ![p] = NoAsk] /\ now' = now
    /\ \A t \in Clocks : t \div Window = w => t + Window + 1 - Skew <= now + Life

LEMMA ExecuteKeeps ==
    ASSUME LInv, NEW p \in Procs, Execute(p)
    PROVE  \E k \in Keys, w \in Windows : Counted(p, k, w)
<1>0. PICK k, w : k = ask[p].key /\ w = WindowOf(ask[p].clock)
  OBVIOUS
<1>1. PICK c : c = ask[p].clock
  OBVIOUS
<1>2. k \in Keys /\ c \in Clocks /\ k # Nobody /\ ask[p].at \in Nat
  BY <1>0, <1>1 DEF LInv, LimiterTypeOK, Asks, Execute
<1>3. w \in Windows /\ c \in Nat /\ w = c \div Window
  BY <1>0, <1>1, <1>2, ClockShowsWindow DEF WindowOf
<1>4. /\ counter[k][w].n \in Nat /\ counter[k][w].ends \in Nat /\ now \in Nat
      /\ tried[k][w] \in Nat
  BY <1>2, <1>3, TimesAreNat DEF LInv, LimiterTypeOK, Counters
<1>5. now <= c + Skew + Delay /\ c <= now + Skew
  BY <1>0, <1>1, <1>2, <1>3, <1>4, TimesAreNat DEF LInv, CallsInTime
<1>6. counter[k][w].n > 0 => now < counter[k][w].ends
  <2>1. SUFFICES ASSUME counter[k][w].n > 0 PROVE now < counter[k][w].ends
    OBVIOUS
  <2>2. c + Window + 1 - Skew <= counter[k][w].ends
    BY <1>2, <1>3, <2>1 DEF LInv, CountsLast
  <2>3. PICK e \in Nat, W \in Nat, S \in Nat, D \in Nat :
            e = counter[k][w].ends /\ W = Window /\ S = Skew /\ D = Delay
    BY <1>4, TimesAreNat
  <2>4. 2 * S + D <= W /\ c + W + 1 - S <= e /\ now <= c + S + D
    BY <1>5, <2>2, <2>3, TwoWindowsCover
  <2>5. QED
    BY <1>3, <1>4, <2>3, <2>4
<1>7. Live(k, w) \/ counter[k][w].n = 0
  BY <1>4, <1>6 DEF Live
<1>8. Incremented(k, w) = counter[k][w].n + 1
  BY <1>4, <1>7 DEF Incremented
<1>9. \A t \in Clocks : t \div Window = w => t + Window + 1 - Skew <= now + Life
  <2>1. SUFFICES ASSUME NEW t \in Clocks, t \div Window = w
                 PROVE  t + Window + 1 - Skew <= now + Life
    OBVIOUS
  <2>2. t \in Nat /\ t < c + Window
    BY <1>3, <2>1, SameWindow, ClockShowsWindow
  <2>3. Window \in Nat /\ Skew \in Nat
    BY TimesAreNat
  <2>4. QED
    BY <1>3, <1>4, <1>5, <2>2, <2>3 DEF Life
<1>10. /\ counter' = [counter EXCEPT ![k][w] = [n |-> Incremented(k, w), ends |-> now + Life]]
       /\ tried' = [tried EXCEPT ![k][w] = @ + 1]
       /\ ask' = [ask EXCEPT ![p] = NoAsk] /\ now' = now
  BY <1>0, <1>1, <1>3 DEF Execute
<1>11. Count(p) = Incremented(k, w)
  BY <1>0 DEF Count
<1>12. QED
  BY <1>0, <1>2, <1>3, <1>8, <1>9, <1>10, <1>11 DEF Counted

LEMMA LimiterInitInv == LimiterInit => LInv
<1> SUFFICES ASSUME LimiterInit PROVE LInv
  OBVIOUS
<1>1. now \in Skew..MaxTime
  BY TimesAreNat, ClockStartsInTime DEF LimiterInit
<1>2. NoAsk \in Asks
  BY TimesAreNat DEF NoAsk, Asks, Clocks
<1>3. LimiterTypeOK
  BY <1>1, <1>2 DEF LimiterInit, LimiterTypeOK, Counters
<1>4. CallsInTime
  BY DEF LimiterInit, CallsInTime, NoAsk
<1>5. CountsLast
  BY DEF LimiterInit, CountsLast
<1>6. WindowBound
  BY LimitsGiven DEF LimiterInit, WindowBound
<1>7. QED
  BY <1>3, <1>4, <1>5, <1>6 DEF LInv

LEMMA AskInv ==
    ASSUME LInv, NEW p \in Procs, NEW k \in Keys, Ask(p, k)
    PROVE  LInv'
<1>1. PICK d \in -Skew..Skew :
          ask' = [ask EXCEPT ![p] = [key |-> k, clock |-> now + d, at |-> now]]
  BY DEF Ask
<1>2. UNCHANGED <<now, counter, admitted, tried>>
  BY DEF Ask
<1>3. /\ now \in Nat /\ now + d \in Clocks /\ d \in Int
      /\ now - Skew <= now + d /\ now + d <= now + Skew
  BY TimesAreNat DEF LInv, LimiterTypeOK, Clocks
<1>4. ask' \in [Procs -> Asks]
  BY <1>1, <1>3 DEF LInv, LimiterTypeOK, Asks
<1>5. LimiterTypeOK'
  BY <1>2, <1>4 DEF LInv, LimiterTypeOK
<1>6. CallsInTime'
  <2>1. SUFFICES ASSUME NEW q \in Procs, ask'[q].key # Nobody
                 PROVE  /\ ask'[q].at - Skew <= ask'[q].clock
                        /\ ask'[q].clock <= ask'[q].at + Skew
                        /\ ask'[q].at <= now /\ now <= ask'[q].at + Delay
    BY <1>2 DEF CallsInTime
  <2>2. CASE q = p
    BY <1>1, <1>3, <2>2, TimesAreNat DEF LInv, LimiterTypeOK
  <2>3. CASE q # p
    BY <1>1, <2>1, <2>3 DEF LInv, LimiterTypeOK, CallsInTime
  <2>4. QED
    BY <2>2, <2>3
<1>7. QED
  BY <1>2, <1>5, <1>6 DEF LInv, CountsLast, WindowBound

LEMMA NoCallsInTime ==
    ASSUME LInv, NEW p \in Procs, ask' = [ask EXCEPT ![p] = NoAsk], now' = now
    PROVE  ask' \in [Procs -> Asks] /\ CallsInTime'
<1>1. NoAsk \in Asks /\ NoAsk.key = Nobody
  BY TimesAreNat DEF NoAsk, Asks, Clocks
<1>2. QED
  BY <1>1 DEF LInv, LimiterTypeOK, CallsInTime

LEMMA ForgetInv ==
    ASSUME LInv, NEW p \in Procs, Forget(p)
    PROVE  LInv'
BY NoCallsInTime DEF Forget, LInv, LimiterTypeOK, CountsLast, WindowBound

\* A pipeline was executed; whether the call passed shows in admitted only.
LEMMA ExecuteInv ==
    ASSUME LInv, NEW p \in Procs, Execute(p),
           \/ UNCHANGED admitted
           \/ /\ Count(p) <= Limit[ask[p].key]
              /\ admitted' = [admitted EXCEPT
                                 ![ask[p].key][ask[p].clock \div Window] = @ + 1]
    PROVE  LInv'
<1>0. PICK k \in Keys, w \in Windows : Counted(p, k, w)
  BY ExecuteKeeps
<1>1. k = ask[p].key /\ w = WindowOf(ask[p].clock)
  BY <1>0 DEF Counted
<1>a. /\ k \in Keys /\ w \in Windows
      /\ Count(p) = counter[k][w].n + 1
      /\ counter' = [counter EXCEPT ![k][w] = [n |-> counter[k][w].n + 1, ends |-> now + Life]]
      /\ tried' = [tried EXCEPT ![k][w] = @ + 1]
      /\ ask' = [ask EXCEPT ![p] = NoAsk] /\ now' = now
      /\ \A t \in Clocks : t \div Window = w => t + Window + 1 - Skew <= now + Life
  BY <1>0 DEF Counted
<1>b. /\ counter[k][w].n \in Nat /\ admitted[k][w] \in Nat /\ tried[k][w] \in Nat
      /\ now + Life \in Nat
  BY <1>a, TimesAreNat DEF LInv, LimiterTypeOK, Counters, Life
<1>2. PICK c \in Nat, m \in Nat, e \in Nat, v \in Nat :
          /\ c = counter[k][w].n /\ m = admitted[k][w] /\ v = tried[k][w] /\ e = now + Life
  BY <1>b
<1>3. /\ k \in Keys /\ w \in Windows
      /\ Count(p) = c + 1
      /\ counter' = [counter EXCEPT ![k][w] = [n |-> c + 1, ends |-> e]]
      /\ tried' = [tried EXCEPT ![k][w] = @ + 1]
      /\ now' = now
      /\ \A t \in Clocks : t \div Window = w => t + Window + 1 - Skew <= e
  BY <1>a, <1>2
<1>4. PICK m2 \in {m, m + 1} :
          /\ admitted' = [admitted EXCEPT ![k][w] = m2]
          /\ m2 <= Limit[k] /\ m2 <= c + 1
  <2>1. m <= c /\ m <= Limit[k] /\ Limit[k] \in Nat
    BY <1>2, <1>3, LimitsGiven DEF LInv, CountsLast, WindowBound
  <2>2. CASE UNCHANGED admitted
    <3>1. admitted' = [admitted EXCEPT ![k][w] = m]
      BY <1>2, <1>3, <2>2 DEF LInv, LimiterTypeOK
    <3>2. QED
      BY <2>1, <3>1
  <2>3. CASE /\ Count(p) <= Limit[k]
             /\ admitted' = [admitted EXCEPT ![k][w] = @ + 1]
    <3>1. admitted' = [admitted EXCEPT ![k][w] = m + 1]
      BY <1>2, <1>3, <2>3 DEF LInv, LimiterTypeOK
    <3>2. m + 1 <= c + 1 /\ m + 1 <= Limit[k]
      BY <1>2, <1>3, <2>1, <2>3
    <3>3. m + 1 \in {m, m + 1}
      OBVIOUS
    <3>4. QED
      BY <3>1, <3>2, <3>3
  <2>4. QED
    BY <1>1, <2>2, <2>3 DEF WindowOf
<1>5. m <= c /\ c <= v /\ m2 \in Nat /\ m2 <= c + 1
  BY <1>2, <1>3, <1>4 DEF LInv, CountsLast
<1>6. LimiterTypeOK'
  <2>1. counter' \in [Keys -> [Windows -> Counters]]
    BY <1>2, <1>3 DEF LInv, LimiterTypeOK, Counters
  <2>2. tried' \in [Keys -> [Windows -> Nat]] /\ admitted' \in [Keys -> [Windows -> Nat]]
    BY <1>3, <1>4, <1>5 DEF LInv, LimiterTypeOK
  <2>3. ask' \in [Procs -> Asks]
    BY <1>a, NoCallsInTime
  <2>4. QED
    BY <1>3, <2>1, <2>2, <2>3 DEF LInv, LimiterTypeOK
<1>7. CallsInTime'
  BY <1>a, NoCallsInTime
<1>8. CountsLast' /\ WindowBound'
  <2>1. SUFFICES ASSUME NEW k2 \in Keys, NEW w2 \in Windows
                 PROVE  /\ admitted'[k2][w2] <= counter'[k2][w2].n
                        /\ counter'[k2][w2].n <= tried'[k2][w2]
                        /\ counter'[k2][w2].n > 0 =>
                              \A t \in Clocks : t \div Window = w2 =>
                                  t + Window + 1 - Skew <= counter'[k2][w2].ends
                        /\ admitted'[k2][w2] <= Limit[k2]
    BY DEF CountsLast, WindowBound
  <2>2. CASE k2 = k /\ w2 = w
    <3>1. counter'[k][w] = [n |-> c + 1, ends |-> e] /\ admitted'[k][w] = m2
          /\ tried'[k][w] = v + 1
      BY <1>2, <1>3, <1>4 DEF LInv, LimiterTypeOK
    <3>2. QED
      BY <1>3, <1>4, <1>5, <2>2, <3>1
  <2>3. CASE ~(k2 = k /\ w2 = w)
    <3>1. /\ counter'[k2][w2] = counter[k2][w2] /\ admitted'[k2][w2] = admitted[k2][w2]
          /\ tried'[k2][w2] = tried[k2][w2]
      BY <1>3, <1>4, <2>3 DEF LInv, LimiterTypeOK
    <3>2. QED
      BY <3>1 DEF LInv, CountsLast, WindowBound
  <2>4. QED
    BY <2>2, <2>3
<1>9. QED
  BY <1>6, <1>7, <1>8 DEF LInv

LEMMA LoseCountersInv ==
    ASSUME LInv, LoseCounters
    PROVE  LInv'
<1>1. /\ counter' = [k \in Keys |-> [w \in Windows |-> [n |-> 0, ends |-> 0]]]
      /\ admitted' = [k \in Keys |-> [w \in Windows |-> 0]]
      /\ UNCHANGED <<now, ask, tried>>
  BY DEF LoseCounters
<1>2. LimiterTypeOK' /\ CallsInTime'
  BY <1>1 DEF LInv, LimiterTypeOK, CallsInTime, Counters
<1>3. CountsLast' /\ WindowBound'
  BY <1>1, LimitsGiven DEF LInv, LimiterTypeOK, CountsLast, WindowBound
<1>4. QED
  BY <1>2, <1>3 DEF LInv

LEMMA TimePassesInv ==
    ASSUME LInv, TimePasses
    PROVE  LInv'
<1>1. now' = now + 1 /\ now < MaxTime /\ UNCHANGED <<counter, ask, admitted, tried>>
  BY DEF TimePasses
<1>2. LimiterTypeOK'
  BY <1>1, TimesAreNat DEF LInv, LimiterTypeOK
<1>3. CallsInTime'
  <2>1. SUFFICES ASSUME NEW p \in Procs, ask[p].key # Nobody
                 PROVE  /\ ask[p].at - Skew <= ask[p].clock
                        /\ ask[p].clock <= ask[p].at + Skew
                        /\ ask[p].at <= now + 1 /\ now + 1 <= ask[p].at + Delay
    BY <1>1 DEF CallsInTime
  <2>2. now < ask[p].at + Delay /\ ask[p].at \in Nat /\ now \in Nat
    BY <2>1, TimesAreNat DEF TimePasses, LInv, LimiterTypeOK, Asks
  <2>3. QED
    BY <2>1, <2>2, TimesAreNat DEF LInv, CallsInTime
<1>4. QED
  BY <1>1, <1>2, <1>3 DEF LInv, CountsLast, WindowBound

LEMMA LimiterUnchanged ==
    ASSUME LInv, UNCHANGED limiter
    PROVE  LInv'
BY DEF limiter, LInv, LimiterTypeOK, CallsInTime, CountsLast, WindowBound

-----------------------------------------------------------------------------
(* The accounts: what a handler at a step knows of its session s.          *)

Drawn == {"d_missing", "d_inserted"}
AtDevice == {"d_asked", "d_passed", "d_missing", "d_inserted", "d_conflict", "d_answer"}

Fits(step, s) ==
    /\ step = "idle" => s = Idle
    /\ step \in AtDevice => s.device \in Devices
    /\ step \in Drawn => s.user \in Users /\ device[s.user] = None
    /\ step = "d_inserted" => Owners(s.device) = {}
    /\ step = "d_conflict" => Owners(s.device) # {}
    /\ step = "d_answer" => s.user \in Users /\ device[s.user] = s.device
    /\ step \in {"w_asked", "w_passed"} =>
          /\ s.user \in Users /\ s.device = device[s.user] /\ s.device \in Devices
          /\ status[s.user] = "banned" => s.caught
    /\ step = "s_locked" => s.user \in Users /\ s.previous = status[s.user]

HoldsLock == \A p \in Procs : pc[p] = "s_locked" => userLock[session[p].user] = p

\* nobody else has the id of an insert to come, or an insert of its device
DrawnApart ==
    \A p, q \in Procs : p # q /\ pc[p] \in Drawn => session[q].user # session[p].user
OneInsert ==
    \A p, q \in Procs : p # q /\ pc[p] = "d_inserted" /\ pc[q] = "d_inserted" =>
                              session[q].device # session[p].device

AInv ==
    /\ AccountsTypeOK
    /\ \A p \in Procs : Fits(pc[p], session[p])
    /\ HoldsLock /\ DrawnApart /\ OneInsert
    /\ OneUserPerDevice /\ StatusTrail

\* by its device a request is found at its user: OneUserPerDevice
LEMMA ShutOut == AInv => OnlyCaughtFinish
<1> SUFFICES ASSUME AInv, NEW u \in Users, NEW p \in Procs, status[u] = "banned",
                    AtWork(p), session[p].device = device[u]
             PROVE  session[p].caught
  BY DEF OnlyCaughtFinish
<1>1. PICK v \in Users :
          /\ v = session[p].user /\ device[v] = device[u] /\ device[v] \in Devices
          /\ status[v] = "banned" => session[p].caught
  BY DEF AInv, Fits, AtWork
<1>2. v = u
  BY <1>1, NoneIsNew DEF AInv, OneUserPerDevice
<1>3. QED
  BY <1>1, <1>2

LEMMA AccountsInit == Init => AInv
<1> SUFFICES ASSUME Init PROVE AInv
  OBVIOUS
<1>1. AccountsTypeOK
  BY BoundsAreNat DEF Init, AccountsTypeOK, Steps, Sessions, Idle, Changes
<1>2. \A p \in Procs : Fits(pc[p], session[p])
  BY DEF Init, Fits, AtDevice, Drawn
<1>3. HoldsLock /\ DrawnApart /\ OneInsert /\ OneUserPerDevice
  BY DEF Init, HoldsLock, DrawnApart, Drawn, OneInsert, OneUserPerDevice
<1>4. StatusTrail
  BY DEF Init, StatusTrail
<1>5. QED
  BY <1>1, <1>2, <1>3, <1>4 DEF AInv

\* A handler goes on with session s and writes nothing; it may let go of
\* its locks, or of none.
LEMMA QuietInv ==
    ASSUME AInv, UNCHANGED accounts,
           NEW p \in Procs, NEW step \in Steps \ {"s_locked"}, NEW s \in Sessions,
           pc' = [pc EXCEPT ![p] = step], session' = [session EXCEPT ![p] = s],
           userLock' = userLock \/ Release(p),
           asks' \in 0..MaxAsks, faults' \in 0..MaxFaults,
           Fits(step, s),
           \/ s.user = None
           \/ s.user \in Users /\ device[s.user] # None
           \/ s.user = session[p].user /\ step \notin Drawn
           \/ s.user = session[p].user /\ pc[p] \in Drawn
           \/ Fresh(s.user),
           step = "d_inserted" =>
               \A q \in Procs \ {p} : ~(pc[q] = "d_inserted" /\ session[q].device = s.device)
    PROVE  AInv'
<1>1. UNCHANGED <<device, status, trail, tokens>>
  BY DEF accounts
<1>2. /\ pc'[p] = step /\ session'[p] = s
      /\ \A q \in Procs \ {p} : pc'[q] = pc[q] /\ session'[q] = session[q]
  BY DEF AInv, AccountsTypeOK
<1>3. /\ userLock' \in [Users -> Procs \cup {None}]
      /\ \A q \in Procs \ {p}, u \in Users : userLock[u] = q => userLock'[u] = q
  BY DEF AInv, AccountsTypeOK, Release
<1>4. AccountsTypeOK'
  <2>1. \A q \in Procs : pc'[q] = "idle" => session'[q] = Idle
    BY <1>2 DEF Fits, AInv, AccountsTypeOK
  <2>2. pc' \in [Procs -> Steps] /\ session' \in [Procs -> Sessions]
    BY DEF AInv, AccountsTypeOK
  <2>3. QED
    BY <1>1, <1>3, <2>1, <2>2 DEF AInv, AccountsTypeOK
<1>5. \A q \in Procs : Fits(pc[q], session[q])'
  <2>1. Fits(pc[p], session[p])'
    BY <1>1, <1>2 DEF Fits, Owners
  <2>2. ASSUME NEW q \in Procs \ {p} PROVE Fits(pc[q], session[q])'
    <3>1. Fits(pc[q], session[q])
      BY DEF AInv
    <3>2. QED
      BY <1>1, <1>2, <3>1 DEF Fits, Owners
  <2>3. QED
    BY <2>1, <2>2
<1>6. HoldsLock'
  <2>1. \A q \in Procs : pc[q] = "s_locked" => session[q].user \in Users
    BY DEF AInv, Fits
  <2>2. QED
    BY <1>2, <1>3, <2>1 DEF AInv, HoldsLock
<1>7. DrawnApart'
  <2>1. SUFFICES ASSUME NEW a \in Procs, NEW b \in Procs, a # b, pc'[a] \in Drawn
                 PROVE  session'[b].user # session'[a].user
    BY DEF DrawnApart
  <2>2. CASE a # p /\ b # p
    BY <1>2, <2>1, <2>2 DEF AInv, DrawnApart
  <2>3. CASE b = p
    <3>1. pc[a] \in Drawn /\ session'[a] = session[a]
      BY <1>2, <2>1, <2>3
    <3>2. session[a].user \in Users /\ device[session[a].user] = None
      BY <3>1 DEF AInv, Fits
    <3>3. session[p].user # session[a].user
      BY <2>1, <2>3, <3>1 DEF AInv, DrawnApart
    <3>4. s.user # session[a].user
      BY <3>2, <3>3, NoneIsNew DEF Fresh
    <3>5. QED
      BY <1>2, <2>3, <3>1, <3>4
  <2>4. CASE a = p
    <3>1. session'[b] = session[b] /\ step \in Drawn
      BY <1>2, <2>1, <2>4
    <3>2. s.user \in Users /\ device[s.user] = None
      BY <3>1 DEF Fits
    <3>3. pc[p] \in Drawn => session[b].user # session[p].user
      BY <2>1, <2>4 DEF AInv, DrawnApart
    <3>4. session[b].user # s.user
      BY <3>1, <3>2, <3>3, NoneIsNew DEF Fresh
    <3>5. QED
      BY <1>2, <2>4, <3>1, <3>4
  <2>5. QED
    BY <2>2, <2>3, <2>4
<1>8. OneInsert'
  <2>1. SUFFICES ASSUME NEW a \in Procs, NEW b \in Procs, a # b,
                        pc'[a] = "d_inserted", pc'[b] = "d_inserted"
                 PROVE  session'[b].device # session'[a].device
    BY DEF OneInsert
  <2>2. CASE a # p /\ b # p
    BY <1>2, <2>1, <2>2 DEF AInv, OneInsert
  <2>3. CASE a = p \/ b = p
    BY <1>2, <2>1, <2>3
  <2>4. QED
    BY <2>2, <2>3
<1>9. OneUserPerDevice' /\ StatusTrail'
  BY <1>1 DEF AInv, OneUserPerDevice, StatusTrail
<1>10. QED
  BY <1>4, <1>5, <1>6, <1>7, <1>8, <1>9 DEF AInv

LEMMA IdleFits == Idle \in Sessions /\ Idle.user = None /\ Fits("idle", Idle)
BY DEF Idle, Sessions, Fits, AtDevice, Drawn

LEMMA GivesUp ==
    ASSUME AInv, UNCHANGED accounts, NEW p \in Procs, Finish(p),
           userLock' = userLock \/ Release(p),
           asks' \in 0..MaxAsks, faults' \in 0..MaxFaults
    PROVE  AInv'
<1>1. /\ pc' = [pc EXCEPT ![p] = "idle"] /\ session' = [session EXCEPT ![p] = Idle]
      /\ "idle" \in Steps \ {"s_locked"}
  BY DEF Finish, Goto, Steps
<1>2. QED
  BY <1>1, IdleFits, QuietInv

\* the pc moves on, the session stays
LEMMA MovesOn ==
    ASSUME AInv, UNCHANGED <<accounts, userLock, session>>,
           NEW p \in Procs, NEW step \in Steps \ {"idle", "s_locked"}, Goto(p, step),
           asks' \in 0..MaxAsks, faults' \in 0..MaxFaults,
           Fits(step, session[p]),
           \/ step \notin Drawn
           \/ pc[p] \in Drawn,
           step = "d_inserted" => \A q \in Procs \ {p} :
               ~(pc[q] = "d_inserted" /\ session[q].device = session[p].device)
    PROVE  AInv'
<1>1. PICK s \in Sessions : s = session[p]
  BY DEF AInv, AccountsTypeOK
<1>2. /\ pc' = [pc EXCEPT ![p] = step] /\ session' = [session EXCEPT ![p] = s]
      /\ UNCHANGED accounts /\ userLock' = userLock
  BY <1>1 DEF Goto, AInv, AccountsTypeOK
<1>3. QED
  BY <1>1, <1>2, QuietInv

LEMMA SameCounts == AInv => asks \in 0..MaxAsks /\ faults \in 0..MaxFaults
BY DEF AInv, AccountsTypeOK

LEMMA OneMore ==
    /\ AInv /\ asks < MaxAsks /\ asks' = asks + 1 => asks' \in 0..MaxAsks
    /\ AInv /\ Fault => faults' \in 0..MaxFaults
BY BoundsAreNat DEF AInv, AccountsTypeOK, Fault

LEMMA DeviceArrivesInv ==
    ASSUME AInv, NEW p \in Procs, NEW d \in Devices, DeviceArrives(p, d)
    PROVE  AInv'
<1>1. /\ pc[p] = "idle" /\ session[p] = Idle
      /\ session' = [session EXCEPT ![p].device = d]
      /\ pc' = [pc EXCEPT ![p] = "d_asked"]
      /\ UNCHANGED accounts /\ userLock' = userLock /\ faults' = faults
      /\ asks' \in 0..MaxAsks
  BY OneMore DEF DeviceArrives, AskAt, Goto, AInv, AccountsTypeOK
<1>2. PICK s \in Sessions : s = [Idle EXCEPT !.device = d]
  BY DEF Idle, Sessions
<1>3. session' = [session EXCEPT ![p] = s]
  BY <1>1, <1>2 DEF AInv, AccountsTypeOK
<1>4. s.user = None /\ s.device = d
  BY <1>2 DEF Idle
<1>5. Fits("d_asked", s)
  BY <1>4 DEF Fits, AtDevice, Drawn
<1>6. "d_asked" \in Steps \ {"s_locked"}
  BY DEF Steps
<1>7. QED
  BY <1>1, <1>3, <1>4, <1>5, <1>6, SameCounts, QuietInv

LEMMA WriteArrivesInv ==
    ASSUME AInv, NEW p \in Procs, NEW t \in tokens, WriteArrives(p, t)
    PROVE  AInv'
<1>1. /\ pc[p] = "idle" /\ status[t.user] = "active"
      /\ session' = [session EXCEPT ![p] =
                        [Idle EXCEPT !.device = t.device, !.user = t.user]]
      /\ pc' = [pc EXCEPT ![p] = "w_asked"]
      /\ UNCHANGED accounts /\ userLock' = userLock /\ faults' = faults
      /\ asks' \in 0..MaxAsks
  BY OneMore DEF WriteArrives, AskAt, Goto, Active
<1>2. t.user \in Users /\ t.device \in Devices /\ device[t.user] = t.device
  BY DEF AInv, AccountsTypeOK, OneUserPerDevice
<1>a. [Idle EXCEPT !.device = t.device, !.user = t.user] \in Sessions
  BY <1>2 DEF Idle, Sessions
<1>3. PICK s \in Sessions : s = [Idle EXCEPT !.device = t.device, !.user = t.user]
  BY <1>a
<1>4. s.user = t.user /\ s.device = t.device
  BY <1>3 DEF Idle
<1>5. status[s.user] # "banned"
  BY <1>1, <1>4
<1>6. Fits("w_asked", s)
  BY <1>2, <1>4, <1>5 DEF Fits, AtDevice, Drawn
<1>7. device[s.user] # None /\ "w_asked" \in Steps \ {"s_locked"}
  BY <1>2, <1>4, NoneIsNew DEF Steps
<1>8. QED
  BY <1>1, <1>2, <1>3, <1>4, <1>6, <1>7, SameCounts, QuietInv

LEMMA PassInv ==
    ASSUME AInv, NEW p \in Procs, Pass(p), faults' \in 0..MaxFaults
    PROVE  AInv'
<1>1. Fits(pc[p], session[p])
  BY DEF AInv
<1>2. asks' \in 0..MaxAsks /\ UNCHANGED <<accounts, userLock, session>>
  BY SameCounts DEF Pass
<1>3. CASE pc[p] = "d_asked" /\ Goto(p, "d_passed")
  <2>1. Fits("d_passed", session[p]) /\ "d_passed" \in Steps \ {"idle", "s_locked"}
        /\ "d_passed" \notin Drawn
    BY <1>1, <1>3 DEF Fits, AtDevice, Drawn, Steps
  <2>2. QED
    BY <1>2, <1>3, <2>1, MovesOn
<1>4. CASE pc[p] = "w_asked" /\ Goto(p, "w_passed")
  <2>1. Fits("w_passed", session[p]) /\ "w_passed" \in Steps \ {"idle", "s_locked"}
        /\ "w_passed" \notin Drawn
    BY <1>1, <1>4 DEF Fits, AtDevice, Drawn, Steps
  <2>2. QED
    BY <1>2, <1>4, <2>1, MovesOn
<1>5. QED
  BY <1>3, <1>4 DEF Pass

LEMMA TurnAwayInv ==
    ASSUME AInv, NEW p \in Procs, TurnAway(p), faults' \in 0..MaxFaults
    PROVE  AInv'
BY SameCounts, GivesUp DEF TurnAway

-----------------------------------------------------------------------------
LEMMA WinnerOwns ==
    ASSUME NEW p \in Procs, Owners(session[p].device) # {}
    PROVE  Winner(p) \in Users /\ device[Winner(p)] = session[p].device
BY DEF Winner, Owners

\* the device has a user: DeviceKnown and DeviceReread
LEMMA FoundInv ==
    ASSUME AInv, NEW p \in Procs, Owners(session[p].device) # {}, pc[p] \in AtDevice,
           session' = [session EXCEPT ![p].user = Winner(p)], Goto(p, "d_answer"),
           UNCHANGED <<accounts, userLock, asks, faults>>
    PROVE  AInv'
<1>1. PICK u \in Users : u = Winner(p) /\ device[u] = session[p].device
  BY WinnerOwns
<1>2. session[p] \in Sessions /\ session[p].device \in Devices
  BY DEF AInv, AccountsTypeOK, Fits, AtDevice
<1>3. PICK s \in Sessions : s = [session[p] EXCEPT !.user = u]
  BY <1>2 DEF Sessions
<1>4. s.user = u /\ s.device = session[p].device
  BY <1>2, <1>3 DEF Sessions
<1>5. session' = [session EXCEPT ![p] = s] /\ pc' = [pc EXCEPT ![p] = "d_answer"]
  BY <1>1, <1>3 DEF Goto, AInv, AccountsTypeOK
<1>6. Fits("d_answer", s) /\ "d_answer" \in Steps \ {"s_locked"}
  BY <1>1, <1>2, <1>4 DEF Fits, AtDevice, Drawn, Steps
<1>7. device[s.user] # None
  BY <1>1, <1>2, <1>4, NoneIsNew
<1>8. UNCHANGED accounts /\ userLock' = userLock /\ asks' = asks /\ faults' = faults
  OBVIOUS
<1>9. QED
  BY <1>4, <1>5, <1>6, <1>7, <1>8, SameCounts, QuietInv

LEMMA DeviceNewInv ==
    ASSUME AInv, NEW p \in Procs, NEW u \in Users, DeviceNew(p, u)
    PROVE  AInv'
<1>1. /\ pc[p] = "d_passed" /\ Fresh(u)
      /\ session' = [session EXCEPT ![p].user = u]
      /\ pc' = [pc EXCEPT ![p] = "d_missing"]
      /\ UNCHANGED accounts /\ userLock' = userLock /\ asks' = asks /\ faults' = faults
  BY DEF DeviceNew, Goto
<1>2. session[p] \in Sessions /\ session[p].device \in Devices
  BY <1>1 DEF AInv, AccountsTypeOK, Fits, AtDevice
<1>3. PICK s \in Sessions : s = [session[p] EXCEPT !.user = u]
  BY <1>2 DEF Sessions
<1>4. s.user = u /\ s.device = session[p].device /\ session' = [session EXCEPT ![p] = s]
  BY <1>1, <1>2, <1>3 DEF Sessions, AInv, AccountsTypeOK
<1>5. Fits("d_missing", s) /\ "d_missing" \in Steps \ {"s_locked"}
  BY <1>1, <1>2, <1>4 DEF Fits, AtDevice, Drawn, Steps, Fresh
<1>6. QED
  BY <1>1, <1>4, <1>5, SameCounts, QuietInv

LEMMA DeviceInsertInv ==
    ASSUME AInv, NEW p \in Procs, DeviceInsert(p)
    PROVE  AInv'
<1>1. /\ pc[p] = "d_missing" /\ UniqueAllows(p) /\ Goto(p, "d_inserted")
      /\ UNCHANGED <<accounts, userLock, session>> /\ asks' = asks /\ faults' = faults
  BY DEF DeviceInsert
<1>2. Fits("d_inserted", session[p]) /\ "d_inserted" \in Steps \ {"idle", "s_locked"}
      /\ pc[p] \in Drawn
  BY <1>1 DEF AInv, Fits, AtDevice, Drawn, Steps, UniqueAllows
<1>3. \A q \in Procs \ {p} :
          ~(pc[q] = "d_inserted" /\ session[q].device = session[p].device)
  BY <1>1 DEF UniqueAllows
<1>4. QED
  BY <1>1, <1>2, <1>3, SameCounts, MovesOn

LEMMA DeviceTakenInv ==
    ASSUME AInv, NEW p \in Procs, DeviceTaken(p)
    PROVE  AInv'
<1>1. /\ pc[p] = "d_missing" /\ Owners(session[p].device) # {} /\ Goto(p, "d_conflict")
      /\ UNCHANGED <<accounts, userLock, session>> /\ asks' = asks /\ faults' = faults
  BY DEF DeviceTaken
<1>2. Fits("d_conflict", session[p]) /\ "d_conflict" \in Steps \ {"idle", "s_locked"}
      /\ "d_conflict" \notin Drawn
  BY <1>1 DEF AInv, Fits, AtDevice, Drawn, Steps
<1>3. QED
  BY <1>1, <1>2, SameCounts, MovesOn

LEMMA DeviceCommitInv ==
    ASSUME AInv, NEW p \in Procs, DeviceCommit(p)
    PROVE  AInv'
<1>1. PICK u, d : u = session[p].user /\ d = session[p].device
  OBVIOUS
<1>2. /\ pc[p] = "d_inserted"
      /\ device' = [device EXCEPT ![u] = d]
      /\ pc' = [pc EXCEPT ![p] = "d_answer"]
      /\ UNCHANGED <<status, trail, tokens, userLock, session, asks, faults>>
  BY <1>1 DEF DeviceCommit, Goto
<1>3. u \in Users /\ d \in Devices /\ device[u] = None /\ Owners(d) = {} /\ d # None
  BY <1>1, <1>2, NoneIsNew DEF AInv, Fits, AtDevice, Drawn
<1>4. device'[u] = d /\ \A v \in Users \ {u} : device'[v] = device[v] /\ device[v] # d
  BY <1>2, <1>3 DEF AInv, AccountsTypeOK, Owners
<1>5. /\ pc'[p] = "d_answer" /\ \A q \in Procs \ {p} : pc'[q] = pc[q]
      /\ \A q \in Procs : session'[q] = session[q]
  BY <1>2 DEF AInv, AccountsTypeOK
<1>6. AccountsTypeOK'
  BY <1>2, <1>3 DEF AInv, AccountsTypeOK, Steps
<1>7. \A q \in Procs : Fits(pc[q], session[q])'
  <2>1. Fits(pc[p], session[p])'
    BY <1>1, <1>3, <1>4, <1>5 DEF Fits, AtDevice, Drawn
  <2>2. ASSUME NEW q \in Procs \ {p} PROVE Fits(pc[q], session[q])'
    <3>1. Fits(pc[q], session[q])
      BY DEF AInv
    <3>2. pc[q] \in Drawn => session[q].user # u
      BY <1>1, <1>2 DEF AInv, DrawnApart, Drawn
    <3>3. pc[q] = "d_inserted" => session[q].device # d
      BY <1>1, <1>2 DEF AInv, OneInsert
    <3>4. pc[q] = "d_answer" => session[q].user # u
      BY <3>1, <1>3, NoneIsNew DEF Fits, AtDevice
    <3>5. pc[q] = "d_inserted" => Owners(session[q].device)' = {}
      BY <1>4, <1>5, <3>1, <3>3 DEF Fits, Owners
    <3>6. pc[q] = "d_conflict" => Owners(session[q].device)' # {}
      BY <1>3, <1>4, <1>5, <3>1, NoneIsNew DEF Fits, Owners, AtDevice
    <3>7. pc[q] \in {"w_asked", "w_passed"} => session[q].user # u
      BY <3>1, <1>3, NoneIsNew DEF Fits
    <3>8. QED
      BY <1>2, <1>4, <1>5, <3>1, <3>2, <3>4, <3>5, <3>6, <3>7 DEF Fits, Drawn
  <2>3. QED
    BY <2>1, <2>2
<1>8. HoldsLock' /\ DrawnApart' /\ OneInsert'
  BY <1>2, <1>5 DEF AInv, HoldsLock, DrawnApart, OneInsert, Drawn
<1>9. OneUserPerDevice'
  <2>1. \A t \in tokens : t.user # u
    BY <1>3, NoneIsNew DEF AInv, AccountsTypeOK, OneUserPerDevice
  <2>2. QED
    BY <1>2, <1>4, <2>1 DEF AInv, AccountsTypeOK, OneUserPerDevice
<1>10. StatusTrail'
  BY <1>2 DEF AInv, StatusTrail
<1>11. QED
  BY <1>6, <1>7, <1>8, <1>9, <1>10 DEF AInv

LEMMA DeviceAnswerInv ==
    ASSUME AInv, NEW p \in Procs, DeviceAnswer(p)
    PROVE  AInv'
<1>1. PICK t \in [device : Devices, user : Users] :
          t = [device |-> session[p].device, user |-> session[p].user]
  BY DEF DeviceAnswer, AInv, Fits, AtDevice
<1>2. /\ tokens' = tokens \cup {t}
      /\ device[t.user] = t.device
      /\ Finish(p)
      /\ UNCHANGED <<device, status, trail, userLock, asks, faults>>
  BY <1>1 DEF DeviceAnswer, AInv, Fits
<1>3. /\ pc'[p] = "idle" /\ \A q \in Procs \ {p} : pc'[q] = pc[q]
      /\ session'[p] = Idle /\ \A q \in Procs \ {p} : session'[q] = session[q]
      /\ pc' \in [Procs -> Steps] /\ session' \in [Procs -> Sessions]
  BY <1>2, IdleFits DEF Finish, Goto, AInv, AccountsTypeOK, Steps
<1>4. AccountsTypeOK'
  BY <1>1, <1>2, <1>3 DEF AInv, AccountsTypeOK
<1>5. \A q \in Procs : Fits(pc[q], session[q])'
  <2>1. Fits(pc[p], session[p])'
    BY <1>3 DEF Fits, AtDevice, Drawn
  <2>2. ASSUME NEW q \in Procs \ {p} PROVE Fits(pc[q], session[q])'
    <3>1. Fits(pc[q], session[q])
      BY DEF AInv
    <3>2. QED
      BY <1>2, <1>3, <3>1 DEF Fits, Owners
  <2>3. QED
    BY <2>1, <2>2
<1>6. HoldsLock' /\ OneInsert'
  BY <1>2, <1>3 DEF AInv, HoldsLock, OneInsert
<1>7. DrawnApart'
  <2>1. \A q \in Procs : pc[q] \in Drawn => session[q].user \in Users
    BY DEF AInv, Fits
  <2>2. QED
    BY <1>3, <2>1, IdleFits, NoneIsNew DEF AInv, DrawnApart, Drawn
<1>8. OneUserPerDevice'
  BY <1>1, <1>2 DEF AInv, OneUserPerDevice
<1>9. StatusTrail'
  BY <1>2 DEF AInv, StatusTrail
<1>10. QED
  BY <1>4, <1>5, <1>6, <1>7, <1>8, <1>9 DEF AInv

-----------------------------------------------------------------------------
LEMMA StatusLockInv ==
    ASSUME AInv, NEW p \in Procs, NEW u \in Users, StatusLock(p, u)
    PROVE  AInv'
<1>1. /\ pc[p] = "idle" /\ device[u] # None /\ userLock[u] = None
      /\ userLock' = [userLock EXCEPT ![u] = p]
      /\ session' = [session EXCEPT ![p] = [Idle EXCEPT !.user = u, !.previous = status[u]]]
      /\ pc' = [pc EXCEPT ![p] = "s_locked"]
      /\ UNCHANGED <<device, status, trail, tokens, asks, faults>>
  BY DEF StatusLock, UserFree, Goto, accounts
<1>a. PICK x \in {"active", "banned"} : x = status[u]
  BY DEF AInv, AccountsTypeOK
<1>b. [Idle EXCEPT !.user = u, !.previous = x] \in Sessions
  BY DEF Idle, Sessions
<1>2. PICK s \in Sessions :
          /\ s = [Idle EXCEPT !.user = u, !.previous = status[u]]
          /\ s.user = u /\ s.previous = status[u]
  BY <1>a, <1>b DEF Idle
<1>3. /\ pc'[p] = "s_locked" /\ \A q \in Procs \ {p} : pc'[q] = pc[q]
      /\ session'[p] = s /\ \A q \in Procs \ {p} : session'[q] = session[q]
      /\ pc' \in [Procs -> Steps] /\ session' \in [Procs -> Sessions]
      /\ userLock' \in [Users -> Procs \cup {None}]
      /\ userLock'[u] = p /\ \A v \in Users \ {u} : userLock'[v] = userLock[v]
  BY <1>1, <1>2 DEF AInv, AccountsTypeOK, Steps
<1>4. AccountsTypeOK'
  BY <1>1, <1>3 DEF AInv, AccountsTypeOK
<1>5. \A q \in Procs : Fits(pc[q], session[q])'
  <2>1. Fits(pc[p], session[p])'
    BY <1>1, <1>2, <1>3 DEF Fits, AtDevice, Drawn
  <2>2. ASSUME NEW q \in Procs \ {p} PROVE Fits(pc[q], session[q])'
    <3>1. Fits(pc[q], session[q])
      BY DEF AInv
    <3>2. QED
      BY <1>1, <1>3, <3>1 DEF Fits, Owners
  <2>3. QED
    BY <2>1, <2>2
<1>6. HoldsLock'
  <2>1. \A q \in Procs : pc[q] = "s_locked" => session[q].user \in Users
    BY DEF AInv, Fits
  <2>2. QED
    BY <1>1, <1>2, <1>3, <2>1, NoneIsNew DEF AInv, HoldsLock
<1>7. DrawnApart'
  <2>1. \A q \in Procs : pc[q] \in Drawn => device[session[q].user] = None
    BY DEF AInv, Fits
  <2>2. QED
    BY <1>1, <1>2, <1>3, <2>1 DEF AInv, DrawnApart, Drawn
<1>8. OneInsert' /\ OneUserPerDevice' /\ StatusTrail'
  BY <1>1, <1>3 DEF AInv, OneInsert, OneUserPerDevice, StatusTrail
<1>9. QED
  BY <1>4, <1>5, <1>6, <1>7, <1>8 DEF AInv

\* A longer trail keeps what it was at the places it had.
LEMMA Appended ==
    ASSUME NEW t \in Seq(Changes), NEW x \in Changes
    PROVE  /\ Append(t, x) \in Seq(Changes)
           /\ Len(Append(t, x)) = Len(t) + 1 /\ Len(t) \in Nat
           /\ \A i \in 1..Len(t) : Append(t, x)[i] = t[i]
           /\ Append(t, x)[Len(t) + 1] = x
           /\ t = <<>> <=> Len(t) = 0
OBVIOUS

LEMMA StatusCommitInv ==
    ASSUME AInv, NEW p \in Procs, NEW new \in {"active", "banned"}, StatusCommit(p, new)
    PROVE  AInv'
<1>1. PICK u, x : u = session[p].user /\ x = [from |-> session[p].previous, to |-> new]
  OBVIOUS
<1>2. /\ pc[p] = "s_locked" /\ Goto(p, "idle") /\ Release(p)
      /\ session' = [q \in Procs |->
            IF q = p THEN Idle
            ELSE IF AtWork(q) /\ session[q].user = u
                 THEN [session[q] EXCEPT !.caught = (new = "banned")]
            ELSE session[q]]
      /\ status' = [status EXCEPT ![u] = new]
      /\ trail' = [trail EXCEPT ![u] = Append(@, x)]
      /\ UNCHANGED <<device, tokens, asks, faults>>
  BY <1>1 DEF StatusCommit
<1>3. u \in Users /\ x \in Changes /\ x.from = status[u] /\ x.to = new
  BY <1>1, <1>2 DEF AInv, AccountsTypeOK, Fits, Changes
<1>4. PICK t \in Seq(Changes), n \in Nat : t = trail[u] /\ n = Len(t)
  BY <1>3 DEF AInv, AccountsTypeOK
<1>5. PICK t2 \in Seq(Changes) :
          /\ t2 = Append(t, x) /\ Len(t2) = n + 1 /\ t2[n + 1] = x
          /\ \A i \in 1..n : t2[i] = t[i]
          /\ t = <<>> <=> n = 0
  BY <1>3, <1>4, Appended
<1>6. /\ status'[u] = new /\ \A v \in Users \ {u} : status'[v] = status[v]
      /\ trail'[u] = t2 /\ \A v \in Users \ {u} : trail'[v] = trail[v]
      /\ status' \in [Users -> {"active", "banned"}] /\ trail' \in [Users -> Seq(Changes)]
  BY <1>2, <1>3, <1>4, <1>5 DEF AInv, AccountsTypeOK
<1>a. /\ pc'[p] = "idle" /\ \A q \in Procs \ {p} : pc'[q] = pc[q]
      /\ pc' \in [Procs -> Steps]
      /\ userLock' \in [Users -> Procs \cup {None}]
      /\ \A q \in Procs \ {p}, v \in Users : userLock[v] = q => userLock'[v] = q
  BY <1>2 DEF Goto, Release, AInv, AccountsTypeOK, Steps
<1>7. /\ session'[p] = Idle /\ session' \in [Procs -> Sessions]
      /\ \A q \in Procs \ {p} :
            /\ session'[q].device = session[q].device /\ session'[q].user = session[q].user
            /\ session'[q].previous = session[q].previous
            /\ AtWork(q) /\ session[q].user = u => session'[q].caught = (new = "banned")
            /\ ~(AtWork(q) /\ session[q].user = u) => session'[q] = session[q]
  <2>1. ASSUME NEW q \in Procs \ {p}
        PROVE  /\ session'[q] \in Sessions
               /\ session'[q].device = session[q].device /\ session'[q].user = session[q].user
               /\ session'[q].previous = session[q].previous
               /\ AtWork(q) /\ session[q].user = u => session'[q].caught = (new = "banned")
               /\ ~(AtWork(q) /\ session[q].user = u) => session'[q] = session[q]
    <3>1. PICK s \in Sessions : s = session[q]
      BY DEF AInv, AccountsTypeOK
    <3>2. PICK b \in BOOLEAN : b = (new = "banned")
      OBVIOUS
    <3>3. PICK s2 : s2 = [s EXCEPT !.caught = b]
      OBVIOUS
    <3>4. /\ s2 \in Sessions /\ s2.device = s.device /\ s2.user = s.user
          /\ s2.previous = s.previous /\ s2.caught = b
      BY <3>3 DEF Sessions
    <3>5. session'[q] = IF AtWork(q) /\ s.user = u THEN s2 ELSE s
      BY <1>2, <3>1, <3>2, <3>3
    <3>6. QED
      BY <3>1, <3>2, <3>4, <3>5
  <2>2. session'[p] = Idle /\ DOMAIN session' = Procs
    BY <1>2
  <2>3. session' \in [Procs -> Sessions]
    BY <1>2, <2>1, <2>2, IdleFits
  <2>4. QED
    BY <2>1, <2>2, <2>3
<1>8. AccountsTypeOK'
  <2>1. \A q \in Procs : pc'[q] = "idle" => session'[q] = Idle
    BY <1>a, <1>7 DEF AInv, AccountsTypeOK, AtWork
  <2>2. /\ device' \in [Users -> Devices \cup {None}]
        /\ tokens' \subseteq [device : Devices, user : Users]
        /\ asks' \in 0..MaxAsks /\ faults' \in 0..MaxFaults
    BY <1>2 DEF AInv, AccountsTypeOK
  <2>3. QED
    BY <1>6, <1>a, <1>7, <2>1, <2>2 DEF AccountsTypeOK
<1>9. \A q \in Procs \ {p} : pc[q] = "s_locked" => session[q].user # u
  BY <1>1, <1>2 DEF AInv, HoldsLock
<1>10. \A q \in Procs : Fits(pc[q], session[q])'
  <2>1. Fits(pc[p], session[p])'
    BY <1>a, <1>7 DEF Fits, AtDevice, Drawn
  <2>2. ASSUME NEW q \in Procs \ {p} PROVE Fits(pc[q], session[q])'
    <3>1. PICK s \in Sessions, s2 \in Sessions, step \in Steps :
              /\ s = session[q] /\ s2 = session'[q] /\ step = pc[q] /\ step = pc'[q]
      BY <1>a, <1>7 DEF AInv, AccountsTypeOK
    <3>2. /\ Fits(step, s) /\ s2.device = s.device /\ s2.user = s.user
          /\ s2.previous = s.previous
          /\ step \notin {"w_asked", "w_passed"} => s2 = s
      BY <1>7, <3>1 DEF AInv, AtWork
    <3>3. step \in {"w_asked", "w_passed"} =>
              /\ s2.user \in Users /\ s2.device = device[s2.user] /\ s2.device \in Devices
              /\ status'[s2.user] = "banned" => s2.caught
      <4>1. SUFFICES ASSUME step \in {"w_asked", "w_passed"}, status'[s2.user] = "banned"
                     PROVE  s2.caught
        BY <3>2 DEF Fits
      <4>2. s.user \in Users /\ (status[s.user] = "banned" => s.caught)
        BY <3>2, <4>1 DEF Fits
      <4>3. CASE s.user = u
        BY <1>6, <1>7, <3>1, <3>2, <4>1, <4>3 DEF AtWork
      <4>4. CASE s.user # u
        BY <1>6, <1>7, <3>1, <3>2, <4>1, <4>2, <4>4
      <4>5. QED
        BY <4>3, <4>4
    <3>4. step = "s_locked" => s2.user \in Users /\ s2.previous = status'[s2.user]
      <4>1. SUFFICES ASSUME step = "s_locked" PROVE s.user \in Users /\ s.previous = status'[s.user]
        BY <3>2
      <4>2. s.user \in Users /\ s.previous = status[s.user]
        BY <3>2, <4>1 DEF Fits
      <4>3. s.user # u
        BY <1>9, <3>1, <4>1
      <4>4. QED
        BY <1>6, <4>2, <4>3
    <3>5. QED
      BY <1>2, <3>1, <3>2, <3>3, <3>4 DEF Fits, Owners
  <2>3. QED
    BY <2>1, <2>2
<1>11. HoldsLock'
  <2>1. \A q \in Procs : pc[q] = "s_locked" => session[q].user \in Users
    BY DEF AInv, Fits
  <2>2. QED
    BY <1>a, <1>7, <2>1 DEF AInv, HoldsLock
<1>12. DrawnApart' /\ OneInsert'
  <2>1. \A q \in Procs : pc[q] \in Drawn => session[q].user \in Users
    BY DEF AInv, Fits
  <2>2. QED
    BY <1>a, <1>7, <2>1, IdleFits, NoneIsNew DEF AInv, DrawnApart, Drawn, OneInsert
<1>13. OneUserPerDevice'
  BY <1>2 DEF AInv, OneUserPerDevice
<1>14. StatusTrail'
  <2>1. SUFFICES ASSUME NEW v \in Users
                 PROVE  /\ \A i \in 1..Len(trail'[v]) :
                               trail'[v][i].from = IF i = 1 THEN "active" ELSE trail'[v][i - 1].to
                        /\ status'[v] = IF trail'[v] = <<>> THEN "active"
                                        ELSE trail'[v][Len(trail'[v])].to
    BY DEF StatusTrail
  <2>2. CASE v # u
    BY <1>6, <2>2 DEF AInv, StatusTrail
  <2>3. CASE v = u
    <3>1. /\ \A i \in 1..n : t[i].from = IF i = 1 THEN "active" ELSE t[i - 1].to
          /\ status[u] = IF t = <<>> THEN "active" ELSE t[n].to
      BY <1>3, <1>4 DEF AInv, StatusTrail
    <3>2. ASSUME NEW i \in 1..(n + 1)
          PROVE  t2[i].from = IF i = 1 THEN "active" ELSE t2[i - 1].to
      <4>1. CASE i \in 1..n
        BY <1>5, <3>1, <4>1
      <4>2. CASE i = n + 1
        <5>1. t2[i].from = status[u]
          BY <1>3, <1>5, <4>2
        <5>2. QED
          BY <1>4, <1>5, <3>1, <4>2, <5>1
      <4>3. QED
        BY <4>1, <4>2
    <3>3. t2 # <<>> /\ t2[Len(t2)].to = new
      BY <1>3, <1>5
    <3>4. QED
      BY <1>5, <1>6, <2>3, <3>2, <3>3
  <2>4. QED
    BY <2>2, <2>3
<1>15. QED
  BY <1>8, <1>10, <1>11, <1>12, <1>13, <1>14 DEF AInv

\* Steps of the limiter, of the clock and of nobody leave all of this alone.
LEMMA AccountsUnchanged ==
    ASSUME AInv, UNCHANGED <<accounts, userLock, pc, session, asks>>, faults' \in 0..MaxFaults
    PROVE  AInv'
<1>1. UNCHANGED <<device, status, trail, tokens, userLock, pc, session, asks>>
  BY DEF accounts
<1>2. AccountsTypeOK'
  BY <1>1 DEF AInv, AccountsTypeOK
<1>3. \A q \in Procs : Fits(pc[q], session[q])'
  BY <1>1 DEF AInv, Fits, Owners
<1>4. HoldsLock' /\ DrawnApart' /\ OneInsert' /\ OneUserPerDevice' /\ StatusTrail'
  BY <1>1 DEF AInv, HoldsLock, DrawnApart, OneInsert, OneUserPerDevice, StatusTrail
<1>5. QED
  BY <1>2, <1>3, <1>4 DEF AInv

-----------------------------------------------------------------------------
IInv == LInv /\ AInv

LEMMA NextInv == IInv /\ [Next]_vars => IInv'
<1> SUFFICES ASSUME IInv, [Next]_vars PROVE IInv'
  OBVIOUS
<1>0. LInv /\ AInv
  BY DEF IInv
<1>1. ASSUME NEW p \in Procs, NEW d \in Devices, DeviceArrives(p, d) PROVE IInv'
  BY <1>0, <1>1, AskInv, DeviceArrivesInv, KeysAre DEF IInv, DeviceArrives, AskAt
<1>2. ASSUME NEW p \in Procs, NEW t \in tokens, WriteArrives(p, t) PROVE IInv'
  <2>1. t.user \in Keys
    BY <1>0, <1>2, KeysAre DEF AInv, AccountsTypeOK
  <2>2. QED
    BY <1>0, <1>2, <2>1, AskInv, WriteArrivesInv DEF IInv, WriteArrives, AskAt
<1>3. ASSUME NEW p \in Procs, LimiterAllows(p) PROVE IInv'
  BY <1>0, <1>3, ExecuteInv, PassInv, SameCounts DEF IInv, LimiterAllows, Allow
<1>4. ASSUME NEW p \in Procs, LimiterRefuses(p) PROVE IInv'
  BY <1>0, <1>4, ExecuteInv, TurnAwayInv, SameCounts DEF IInv, LimiterRefuses, Refuse
<1>5. ASSUME NEW p \in Procs, LimiterFails(p) PROVE IInv'
  <2>1. LInv'
    <3>1. CASE Execute(p) /\ UNCHANGED admitted
      BY <1>0, <3>1, ExecuteInv
    <3>2. CASE Forget(p)
      BY <1>0, <3>2, ForgetInv
    <3>3. QED
      BY <1>5, <3>1, <3>2 DEF LimiterFails, RedisFails, Forget
  <2>2. AInv'
    BY <1>0, <1>5, PassInv, TurnAwayInv, OneMore DEF LimiterFails
  <2>3. QED
    BY <2>1, <2>2 DEF IInv
<1>6. ASSUME NEW p \in Procs, DeviceKnown(p) \/ DeviceReread(p) PROVE IInv'
  <2>1. Fits(pc[p], session[p]) /\ pc[p] \in AtDevice
    BY <1>0, <1>6 DEF AInv, DeviceKnown, DeviceReread, AtDevice
  <2>2. Owners(session[p].device) # {}
    BY <1>6, <2>1 DEF DeviceKnown, DeviceReread, Fits
  <2>3. AInv'
    BY <1>0, <1>6, <2>1, <2>2, FoundInv DEF DeviceKnown, DeviceReread
  <2>4. LInv'
    BY <1>0, <1>6, LimiterUnchanged DEF DeviceKnown, DeviceReread
  <2>5. QED
    BY <2>3, <2>4 DEF IInv
<1>7. ASSUME NEW p \in Procs, NEW u \in Users, DeviceNew(p, u) PROVE IInv'
  BY <1>0, <1>7, DeviceNewInv, LimiterUnchanged DEF IInv, DeviceNew
<1>8. ASSUME NEW p \in Procs, DeviceInsert(p) PROVE IInv'
  BY <1>0, <1>8, DeviceInsertInv, LimiterUnchanged DEF IInv, DeviceInsert
<1>9. ASSUME NEW p \in Procs, DeviceTaken(p) PROVE IInv'
  BY <1>0, <1>9, DeviceTakenInv, LimiterUnchanged DEF IInv, DeviceTaken
<1>10. ASSUME NEW p \in Procs, DeviceCommit(p) PROVE IInv'
  BY <1>0, <1>10, DeviceCommitInv, LimiterUnchanged DEF IInv, DeviceCommit
<1>11. ASSUME NEW p \in Procs, DeviceAnswer(p) PROVE IInv'
  BY <1>0, <1>11, DeviceAnswerInv, LimiterUnchanged DEF IInv, DeviceAnswer
<1>12. ASSUME NEW p \in Procs, WriteDone(p) PROVE IInv'
  BY <1>0, <1>12, GivesUp, SameCounts, LimiterUnchanged DEF IInv, WriteDone
<1>13. ASSUME NEW p \in Procs, NEW u \in Users, StatusLock(p, u) PROVE IInv'
  BY <1>0, <1>13, StatusLockInv, LimiterUnchanged DEF IInv, StatusLock
<1>14. ASSUME NEW p \in Procs, NEW new \in {"active", "banned"}, StatusCommit(p, new)
       PROVE  IInv'
  BY <1>0, <1>14, StatusCommitInv, LimiterUnchanged DEF IInv, StatusCommit
<1>15. ASSUME NEW p \in Procs, StatusRollback(p) PROVE IInv'
  BY <1>0, <1>15, GivesUp, SameCounts, LimiterUnchanged DEF IInv, StatusRollback
<1>16. ASSUME NEW p \in Procs, Abort(p) PROVE IInv'
  <2>1. faults' \in 0..MaxFaults /\ asks' \in 0..MaxAsks
    BY <1>0, <1>16, OneMore, SameCounts DEF Abort
  <2>2. QED
    BY <1>0, <1>16, <2>1, GivesUp, ForgetInv DEF IInv, Abort
<1>17. ASSUME RedisRestarts PROVE IInv'
  BY <1>0, <1>17, LoseCountersInv, AccountsUnchanged, OneMore DEF IInv, RedisRestarts
<1>18. ASSUME Tick PROVE IInv'
  BY <1>0, <1>18, TimePassesInv, AccountsUnchanged, SameCounts DEF IInv, Tick
<1>19. ASSUME UNCHANGED vars PROVE IInv'
  <2>1. UNCHANGED <<limiter, accounts, userLock, pc, session, asks>> /\ faults' = faults
    BY <1>19 DEF vars, accounts
  <2>2. QED
    BY <1>0, <2>1, LimiterUnchanged, AccountsUnchanged, SameCounts DEF IInv
<1>20. QED
  BY <1>1, <1>2, <1>3, <1>4, <1>5, <1>6, <1>7, <1>8, <1>9, <1>10, <1>11, <1>12, <1>13,
     <1>14, <1>15, <1>16, <1>17, <1>18, <1>19 DEF Next

\* All of it holds at all times.
LEMMA AlwaysIInv == Spec => []IInv
<1>1. Init => IInv
  BY LimiterInitInv, AccountsInit DEF IInv, Init
<1>2. QED
  BY <1>1, NextInv, PTL DEF Spec

-----------------------------------------------------------------------------
\* Every variable of the limiter and of the accounts has its type.
THEOREM TypeCorrect == Spec => []TypeOK
<1>1. IInv => TypeOK
  BY DEF IInv, LInv, AInv, TypeOK
<1>2. QED
  BY <1>1, AlwaysIInv, PTL

\* RateLimiter.allow: for every limit, window, skew and delay with
\* 2 * Skew + Delay <= Window, a counter that lives for two windows never
\* lets more than the limit of a window pass.
THEOREM WindowsHold == Spec => []WindowBound
<1>1. IInv => WindowBound
  BY DEF IInv, LInv
<1>2. QED
  BY <1>1, AlwaysIInv, PTL

\* RateLimiter.allow: nobody is refused before the limit of the window of
\* its own call is used up.
THEOREM RefusalsEarned == Spec => RefusedAtLimit
<1>1. ASSUME IInv, NEW p \in Procs, Refuse(p)
      PROVE  tried[ask[p].key][ask[p].clock \div Window] >= Limit[ask[p].key]
  <2>1. PICK k \in Keys, w \in Windows : Counted(p, k, w)
    BY <1>1, ExecuteKeeps DEF IInv, Refuse
  <2>2. /\ k = ask[p].key /\ w = ask[p].clock \div Window
        /\ Count(p) = counter[k][w].n + 1
    BY <2>1 DEF Counted, WindowOf
  <2>3. counter[k][w].n + 1 > Limit[k]
    BY <1>1, <2>2 DEF Refuse
  <2>4. /\ counter[k][w].n \in Nat /\ tried[k][w] \in Nat /\ Limit[k] \in Nat
        /\ counter[k][w].n <= tried[k][w]
    BY <1>1, LimitsGiven DEF IInv, LInv, LimiterTypeOK, Counters, CountsLast
  <2>5. tried[k][w] >= Limit[k]
    BY <2>3, <2>4
  <2>6. QED
    BY <2>2, <2>5
<1>2. IInv /\ [Next]_vars =>
          [\A p \in Procs : Refuse(p) =>
              tried[ask[p].key][ask[p].clock \div Window] >= Limit[ask[p].key]]_limiter
  BY <1>1
<1>3. QED
  BY <1>2, AlwaysIInv, PTL DEF Spec, RefusedAtLimit

\* device_auth: all tokens of a device name its one user.
THEOREM DevicesHaveOneUser == Spec => []OneUserPerDevice
<1>1. IInv => OneUserPerDevice
  BY DEF IInv, AInv
<1>2. QED
  BY <1>1, AlwaysIInv, PTL

\* set_user_status: the recorded changes of a user are a chain that ends in
\* the status of now.
THEOREM TrailIsChain == Spec => []StatusTrail
<1>1. IInv => StatusTrail
  BY DEF IInv, AInv
<1>2. QED
  BY <1>1, AlwaysIInv, PTL

\* get_current_user and set_user_status: while the user of a device is
\* banned, no request but those the ban caught at work is under way for any
\* token of the device, however its first authentications raced.
THEOREM BansHold == Spec => []OnlyCaughtFinish
<1>1. IInv => OnlyCaughtFinish
  BY ShutOut DEF IInv
<1>2. QED
  BY <1>1, AlwaysIInv, PTL
=============================================================================
