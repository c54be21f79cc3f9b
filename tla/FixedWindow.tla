---------------------------- MODULE FixedWindow ----------------------------
(***************************************************************************)
(* The fixed-window counters of one identifier (fixed_window.go): the      *)
(* script, one Redis key for each window start, the expiry the first       *)
(* increment sets, and a Redis that may lose or roll back its data.        *)
(*                                                                         *)
(* A key is named by the identifier and the start of the window (line 27). *)
(* Callers that send different limits for one identifier, or windows of    *)
(* different lengths that start at the same second, share a counter.       *)
(***************************************************************************)
EXTENDS RedisClient

CONSTANTS
    Limit, WindowSeconds,  \* per policy, as the caller sends them
    TopLimit,              \* the most generous limit in use
    MaxRestarts            \* bound: restarts of Redis

(* The handler refuses what is not positive (check.go:50-57).              *)
ASSUME FixedWindowAssumption ==
    /\ Limit \in [Policies -> Nat \ {0}]
    /\ WindowSeconds \in [Policies -> Nat \ {0}]
    /\ TopLimit \in Nat
    /\ \A p \in Policies : Limit[p] <= TopLimit
    /\ MaxRestarts \in Nat

(* Bound: the seconds a window may start at.                               *)
Starts == 0 .. ((MaxTime + MaxSkew) \div TicksPerSec)

VARIABLES
    counter,   \* per window start: the key's value and expiry, or Absent
    snapshot,  \* the counters in Redis's last dump
    restarts,  \* how often Redis has restarted
    granted,   \* history: per window start, scripts that answered allowed
    charges,   \* history: the same, over all windows
    late,      \* history: per window start, scripts run once it was Over
    lost       \* history: per window start, admissions forgotten in restarts

counterVars == <<counter, snapshot>>
history     == <<granted, charges, late, lost>>
vars        == <<clientVars, counterVars, restarts, history>>

Absent  == [count |-> 0]
Counter == [count: Nat \ {0}, expireAt: Nat]

(***************************************************************************)
(* The script.                                                             *)
(***************************************************************************)
NowSecs(m)     == m.stamp \div TicksPerSec
WindowStart(m) == (NowSecs(m) \div WindowSeconds[m.policy]) * WindowSeconds[m.policy]
WindowEnd(m)   == WindowStart(m) + WindowSeconds[m.policy]

Expired(k) == k # Absent /\ now > k.expireAt

(* GET: an expired key reads as no key.                                    *)
Read(s) == IF Expired(counter[s]) THEN Absent ELSE counter[s]

(* EXPIREAT deletes a key whose time has come.                             *)
ExpireAt(count, ticks) ==
    IF ticks <= now THEN Absent ELSE [count |-> count, expireAt |-> ticks]

(* Mutants of Incremented: every increment sets the expiry, counted from   *)
(* now; the key expires a second early; a new key is counted from two; the *)
(* expiry is forgotten.                                                    *)
IncrementedSliding(k, m) ==
    [count |-> k.count + 1,
     expireAt |-> now + WindowSeconds[m.policy] * TicksPerSec]
IncrementedShort(k, m) ==
    IF k = Absent THEN ExpireAt(1, (WindowEnd(m) - 1) * TicksPerSec)
    ELSE [count |-> k.count + 1, expireAt |-> k.expireAt]
IncrementedTwice(k, m) ==
    ExpireAt(k.count + 2, WindowEnd(m) * TicksPerSec)
IncrementedForever(k, m) ==
    IF k = Absent THEN [count |-> 1]
    ELSE [count |-> k.count + 1, expireAt |-> k.expireAt]

(* INCR, and EXPIREAT when the key is new.                                 *)
Incremented(k, m) ==
    IF k = Absent THEN ExpireAt(1, WindowEnd(m) * TicksPerSec)
    ELSE [count |-> k.count + 1, expireAt |-> k.expireAt]

(* The shortest window that starts at s has ended, and its key with it.    *)
Over(s) == \E p \in Policies : now >= (s + WindowSeconds[p]) * TicksPerSec

RunScript(m) ==
    LET s       == WindowStart(m)
        allowed == Read(s).count < Limit[m.policy]
    IN  /\ m \in wire
        /\ s \in Starts
        /\ Execute(m, allowed)
        /\ IF allowed
           THEN /\ counter' = [counter EXCEPT ![s] = Incremented(Read(s), m)]
                /\ granted' = [granted EXCEPT ![s] = @ + 1]
                /\ charges' = charges + 1
           ELSE UNCHANGED <<counter, granted, charges>>
        /\ late' = IF Over(s) THEN [late EXCEPT ![s] = @ + 1] ELSE late
        /\ UNCHANGED <<snapshot, restarts, lost>>

(***************************************************************************)
(* Redis: redis:7-alpine with its default save points (docker-compose.yml  *)
(* 37-45), so that a restart brings back the last dump, or nothing.        *)
(***************************************************************************)
Dump ==
    /\ restarts < MaxRestarts
    /\ snapshot' = [s \in Starts |-> Read(s)]
    /\ snapshot' # snapshot
    /\ UNCHANGED <<clientVars, counter, restarts, history>>

Forgotten(s) == AtLeast(0, counter[s].count - snapshot[s].count)

Restart ==
    /\ restarts < MaxRestarts
    /\ restarts' = restarts + 1
    /\ counter' = snapshot
    /\ lost' = [s \in Starts |-> lost[s] + Forgotten(s)]
    /\ UNCHANGED <<clientVars, snapshot, granted, charges, late>>

Init ==
    /\ ClientInit
    /\ counter = [s \in Starts |-> Absent]
    /\ snapshot = [s \in Starts |-> Absent]
    /\ restarts = 0
    /\ granted = [s \in Starts |-> 0]
    /\ charges = 0
    /\ late = [s \in Starts |-> 0]
    /\ lost = [s \in Starts |-> 0]

ClientStep(c) ==
    /\ \/ \E p \in Policies : Begin(c, p)
       \/ Deliver(c)
       \/ Retry(c)
       \/ GiveUp(c)
    /\ UNCHANGED <<counterVars, restarts, history>>

Idling == (Tick \/ Quiet) /\ UNCHANGED <<counterVars, restarts, history>>

Next ==
    \/ \E c \in Callers : ClientStep(c)
    \/ \E m \in wire : RunScript(m)
    \/ Dump
    \/ Restart
    \/ Idling

Spec == Init /\ [][Next]_vars

-----------------------------------------------------------------------------
(***************************************************************************)
(* Properties.                                                             *)
(***************************************************************************)

TypeOK ==
    /\ ClientTypeOK
    /\ counter \in [Starts -> Counter \cup {Absent}]
    /\ snapshot \in [Starts -> Counter \cup {Absent}]
    /\ restarts \in Nat
    /\ granted \in [Starts -> Nat]
    /\ charges \in Nat
    /\ late \in [Starts -> Nat]
    /\ lost \in [Starts -> Nat]

(* The windows of one identifier admit no more than the limit each, apart  *)
(* from what Redis forgot in a restart and from scripts that reached it    *)
(* after the end of the window they were stamped for: those find the key   *)
(* expired, and EXPIREAT deletes the key they create (lines 34-38), so     *)
(* that every late script is admitted.  Different limits count as the      *)
(* largest; of different windows that share a counter, the shortest one's  *)
(* end may be where the counter is forgotten.                              *)
WindowBound == \A s \in Starts : granted[s] <= TopLimit + late[s] + lost[s]

(* "ShardLeak - MVP Architecture Documentation.md":1044: "The system must  *)
(* enforce the configured limit even under concurrent traffic."  Redis     *)
(* never restarts here, clocks are exact, and there is one policy.         *)
LimitPerWindow == \A s \in Starts : granted[s] <= TopLimit

(* A refusal is deserved: the counter a caller is refused by never counts  *)
(* more than was admitted in that window, whatever expired, came back from *)
(* a dump or ran late.                                                     *)
CounterIsEarned == \A s \in Starts : Read(s).count <= granted[s]

(* No counter is left without an expiry or kept for longer than a window   *)
(* (line 37 sets it on the first increment only): a key expires at the end *)
(* of a window that starts where the key says, also after a restart.       *)
CounterEndsWithItsWindow ==
    \A s \in Starts :
        counter[s] # Absent =>
            \E p \in Policies :
                counter[s].expireAt = (s + WindowSeconds[p]) * TicksPerSec

(* No caller is told "allowed" without a charge, and a charge its caller   *)
(* is not told of has a broken connection to account for it, however often *)
(* go-redis sends an INCR again (redis.go:14-20 over fixed_window.go:57):  *)
(* so no counter counts more than the answers and the connections that     *)
(* broke, and a request is counted twice only when it was sent twice.      *)
ChargesMatchAnswers ==
    /\ MatchesAnswers(charges)
    /\ \A s \in Starts : Read(s).count <= told + Cardinality(OnTheWay) + breaks
=============================================================================
