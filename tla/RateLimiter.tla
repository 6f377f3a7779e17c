---------------------------- MODULE RateLimiter -----------------------------
(***************************************************************************)
(* RateLimiter of app/rate_limit.py: a fixed window counted in Redis.      *)
(*                                                                         *)
(* A server reads its own clock, names the counter of that window, and     *)
(* sends INCR and EXPIRE in one pipeline, which Redis executes in one step *)
(* but some time later and by its own clock.  These are the actions of a   *)
(* component; Admission has the handlers that take them.                   *)
(***************************************************************************)
EXTENDS Integers

CONSTANTS
    Keys, Procs, Nobody,
    Limit,      \* [Keys -> Nat]: calls per window
    Window,     \* its length, window_s
    Skew,       \* how far a server's clock is from the one of Redis
    Delay,      \* how long a call takes from the clock to Redis
    FailOpen,   \* rate_limit_fail_open
    MaxTime

ASSUME LimitsGiven == Limit \in [Keys -> Nat] /\ FailOpen \in BOOLEAN
ASSUME TimesAreNat == Window \in Nat \ {0} /\ Skew \in Nat /\ Delay \in Nat /\ MaxTime \in Nat
\* what a counter's life of two windows must cover
ASSUME TwoWindowsCover == 2 * Skew + Delay <= Window
ASSUME ClockStartsInTime == Skew <= MaxTime
ASSUME NobodyIsNoKey == Nobody \notin Keys

VARIABLES
    now,        \* the clock of Redis
    counter,    \* [Keys -> [Windows -> [n, ends]]]: value and time of expiry
    ask,        \* [Procs -> Asks]: a call on its way
    admitted,   \* history, since Redis last lost its memory: calls it let pass
    tried       \* history: pipelines it has executed

limiter == <<now, counter, ask, admitted, tried>>

Clocks == 0..(MaxTime + Skew)
Windows == {t \div Window : t \in Clocks}
Counters == [n : Nat, ends : Nat]
\* clock: what the server read, at: when by Redis's clock
Asks == [key : Keys \cup {Nobody}, clock : Clocks, at : Nat]

NoAsk == [key |-> Nobody, clock |-> 0, at |-> 0]

-----------------------------------------------------------------------------
\* Mutated forms, each a mistake this code could have made; no action uses
\* them.  They show that the properties below can fail.

LifeOneWindow == Window                             \* EXPIRE window_s
WindowOfAlways(t) == 0                              \* window not in the key

-----------------------------------------------------------------------------
WindowOf(t) == t \div Window
Life == 2 * Window

\* INCR of a key that has expired starts again
Live(k, w) == now < counter[k][w].ends
Incremented(k, w) == (IF Live(k, w) THEN counter[k][w].n ELSE 0) + 1
Count(p) == Incremented(ask[p].key, WindowOf(ask[p].clock))

LimiterInit ==
    /\ now = Skew
    /\ counter = [k \in Keys |-> [w \in Windows |-> [n |-> 0, ends |-> 0]]]
    /\ ask = [p \in Procs |-> NoAsk]
    /\ admitted = [k \in Keys |-> [w \in Windows |-> 0]]
    /\ tried = [k \in Keys |-> [w \in Windows |-> 0]]

\* the server's clock is read
Ask(p, k) ==
    /\ \E d \in -Skew..Skew :
          ask' = [ask EXCEPT ![p] = [key |-> k, clock |-> now + d, at |-> now]]
    /\ UNCHANGED <<now, counter, admitted, tried>>

Execute(p) ==
    LET k == ask[p].key
        w == WindowOf(ask[p].clock)
    IN  /\ k # Nobody
        /\ counter' = [counter EXCEPT ![k][w] = [n |-> Incremented(k, w), ends |-> now + Life]]
        /\ tried' = [tried EXCEPT ![k][ask[p].clock \div Window] = @ + 1]
        /\ ask' = [ask EXCEPT ![p] = NoAsk]
        /\ UNCHANGED now

Allow(p) ==
    /\ Execute(p)
    /\ Count(p) <= Limit[ask[p].key]
    /\ admitted' = [admitted EXCEPT ![ask[p].key][ask[p].clock \div Window] = @ + 1]

Refuse(p) ==
    /\ Execute(p)
    /\ Count(p) > Limit[ask[p].key]
    /\ UNCHANGED admitted

\* RedisError, before or after the pipeline was executed: fail_open decides
RedisFails(p) ==
    \/ Execute(p) /\ UNCHANGED admitted
    \/ /\ ask[p].key # Nobody
       /\ ask' = [ask EXCEPT ![p] = NoAsk]
       /\ UNCHANGED <<now, counter, admitted, tried>>

\* the server dies with the call on its way
Forget(p) ==
    /\ ask' = [ask EXCEPT ![p] = NoAsk]
    /\ UNCHANGED <<now, counter, admitted, tried>>

\* Redis restarts, and it persists nothing
LoseCounters ==
    /\ counter' = [k \in Keys |-> [w \in Windows |-> [n |-> 0, ends |-> 0]]]
    /\ admitted' = [k \in Keys |-> [w \in Windows |-> 0]]
    /\ UNCHANGED <<now, ask, tried>>

\* time does not pass the Delay of a call
TimePasses ==
    /\ now < MaxTime
    /\ \A p \in Procs : ask[p].key # Nobody => now < ask[p].at + Delay
    /\ now' = now + 1
    /\ UNCHANGED <<counter, ask, admitted, tried>>

-----------------------------------------------------------------------------
LimiterTypeOK ==
    /\ now \in Skew..MaxTime
    /\ counter \in [Keys -> [Windows -> Counters]]
    /\ ask \in [Procs -> Asks]
    /\ admitted \in [Keys -> [Windows -> Nat]]
    /\ tried \in [Keys -> [Windows -> Nat]]

\* "Redis fixed window, per minute" (config.py): of the calls whose server's
\* clock showed one window, Redis lets no more than the limit pass, whatever
\* the servers' clocks and the delays of their calls, unless it loses its
\* memory.  A call that comes late must still find the count of its window.
WindowBound == \A k \in Keys, w \in Windows : admitted[k][w] <= Limit[k]

\* The other side: a call is refused only when the limit of its own window is
\* used up; earlier windows are not held against it.
RefusedAtLimit ==
    [][\A p \in Procs : Refuse(p) =>
          tried[ask[p].key][ask[p].clock \div Window] >= Limit[ask[p].key]]_limiter
=============================================================================
