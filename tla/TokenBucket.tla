---------------------------- MODULE TokenBucket ----------------------------
(***************************************************************************)
(* The token bucket of one identifier (token_bucket.go): the script, the   *)
(* Redis key it keeps its state in, that key's expiry, and a Redis that    *)
(* may lose or roll back its data.                                         *)
(*                                                                         *)
(* Tokens are counted in units of 1/Unit of a token, so that the refill of *)
(* one tick, Limit * Unit / (WindowSeconds * TicksPerSec), is a whole      *)
(* number of units.  The code keeps a float, which every call formats and  *)
(* parses again (tostring, tonumber): StoreErr bounds what that moves it.  *)
(*                                                                         *)
(* The key names the identifier alone (line 71): callers that send         *)
(* different limits or windows for one identifier share its bucket.        *)
(***************************************************************************)
EXTENDS RedisClient

CONSTANTS
    Limit, WindowSeconds,  \* per policy, as the caller sends them
    Rate,                  \* per policy, units refilled in a tick (ratePerMs)
    Unit,                  \* units in one token
    StoreErr,              \* units by which a stored amount may be off
    TopCapacity, TopRate,  \* the most generous capacity and rate in use
    MaxRestarts            \* bound: restarts of Redis

Capacity(p)    == Limit[p] * Unit
WindowTicks(p) == WindowSeconds[p] * TicksPerSec

(* The handler refuses a limit or a window that is not positive            *)
(* (check.go:50-57), so every rate is positive too.                        *)
ASSUME TokenBucketAssumption ==
    /\ Limit \in [Policies -> Nat \ {0}]
    /\ WindowSeconds \in [Policies -> Nat \ {0}]
    /\ Rate \in [Policies -> Nat \ {0}]
    /\ Unit \in Nat \ {0}
    /\ StoreErr \in Nat
    /\ TopCapacity \in Nat
    /\ TopRate \in Nat
    /\ MaxRestarts \in Nat
    /\ \A p \in Policies : /\ Rate[p] * WindowTicks(p) = Capacity(p)
                           /\ Capacity(p) <= TopCapacity
                           /\ Rate[p] <= TopRate

VARIABLES
    bucket,    \* the hash {tokens, last_ms} and its expiry, or Absent
    snapshot,  \* the bucket in Redis's last dump
    restarts,  \* how often Redis has restarted
    granted,   \* history: scripts that answered allowed
    runs,      \* history: scripts executed
    births,    \* history: full buckets handed out, or old ones restored
    first,     \* history: now_ms of the first script
    mark,      \* history: now_ms of the latest script, the stored last_ms
    rewound,   \* history: ticks by which last_ms was moved back, in all
    promise    \* history: one of the refusals since the last admission, any of them

bucketVars == <<bucket, snapshot>>
history    == <<granted, runs, births, first, mark, rewound, promise>>
vars       == <<clientVars, bucketVars, restarts, history>>

Absent  == [tokens |-> -1]
Bucket  == [tokens: Nat, last: Nat, expireAt: Nat]
NoPromise == [due |-> -1]
Promise == [policy: Policies, due: Nat, run: Nat]

CeilDiv(a, b) == (a + b - 1) \div b

(***************************************************************************)
(* The script.                                                             *)
(***************************************************************************)

(* HMGET: an expired key reads as no key.                                  *)
Expired(b) == b # Absent /\ now > b.expireAt
Read       == IF Expired(bucket) THEN Absent ELSE bucket

(* Mutants of Refilled: elapsed time without its sign, elapsed time that   *)
(* may be negative, one tick too many.                                     *)
RefilledForDistance(b, p, stamp) ==
    AtMost(Capacity(p), b.tokens + AtLeast(b.last - stamp, stamp - b.last) * Rate[p])
RefilledUnclamped(b, p, stamp) ==
    AtMost(Capacity(p), b.tokens + (stamp - b.last) * Rate[p])
RefilledOneTickMore(b, p, stamp) ==
    AtMost(Capacity(p), b.tokens + AtLeast(0, stamp + 1 - b.last) * Rate[p])

Refilled(b, p, stamp) ==
    AtMost(Capacity(p), b.tokens + AtLeast(0, stamp - b.last) * Rate[p])

(* The tokens a call finds, before it takes one.                           *)
Found(b, p, stamp) ==
    IF b = Absent THEN Capacity(p) ELSE Refilled(b, p, stamp)

(* Mutants: whole seconds rounded down instead of up, a key that lives for *)
(* one window.                                                             *)
RetryAfterDown(tokens, p) == (Unit - tokens) \div (Rate[p] * TicksPerSec)
SecsToFullDown(tokens, p) == (Capacity(p) - tokens) \div (Rate[p] * TicksPerSec)
TtlOneWindow(p)           == WindowTicks(p)

RetryAfter(tokens, p) == CeilDiv(Unit - tokens, Rate[p] * TicksPerSec)
SecsToFull(tokens, p) == CeilDiv(Capacity(p) - tokens, Rate[p] * TicksPerSec)
ResetAt(tokens, p, stamp) == stamp \div TicksPerSec + SecsToFull(tokens, p)

Ttl(p) == 2 * WindowTicks(p)

(* What the key may hold once tokens has been written as a decimal.  Whole *)
(* numbers are written exactly, so rounding carries neither past capacity  *)
(* nor past zero.                                                          *)
Stored(tokens, p) ==
    AtMost(tokens, AtLeast(0, tokens - StoreErr)) .. AtMost(Capacity(p), tokens + StoreErr)

RunScript(m) ==
    LET found   == Found(Read, m.policy, m.stamp)
        allowed == found >= Unit
        left    == IF allowed THEN found - Unit ELSE found
    IN  /\ m \in wire
        /\ Execute(m, allowed)
        /\ \E t \in Stored(left, m.policy) :
             bucket' = [tokens |-> t, last |-> m.stamp,
                        expireAt |-> now + Ttl(m.policy)]
        /\ granted' = IF allowed THEN granted + 1 ELSE granted
        /\ runs' = runs + 1
        /\ births' = IF Read = Absent THEN births + 1 ELSE births
        /\ first' = IF runs = 0 THEN m.stamp ELSE first
        /\ mark' = m.stamp
        /\ rewound' = IF runs = 0 THEN 0
                      ELSE rewound + AtLeast(0, mark - m.stamp)
        /\ promise' \in IF allowed THEN {NoPromise}
                        ELSE {promise,
                              [policy |-> m.policy, run |-> runs,
                               due |-> m.stamp + RetryAfter(left, m.policy) * TicksPerSec]}
        /\ UNCHANGED <<snapshot, restarts>>

(***************************************************************************)
(* Redis: redis:7-alpine with its default save points (docker-compose.yml  *)
(* 37-45), so that a restart brings back the last dump, or nothing.        *)
(***************************************************************************)
Dump ==
    /\ restarts < MaxRestarts
    /\ snapshot # Read
    /\ snapshot' = Read
    /\ UNCHANGED <<clientVars, bucket, restarts, history>>

Restart ==
    /\ restarts < MaxRestarts
    /\ restarts' = restarts + 1
    /\ bucket' = snapshot
    /\ promise' = NoPromise
    /\ IF snapshot = Absent
       THEN UNCHANGED <<births, mark, rewound>>
       ELSE /\ births' = births + 1
            /\ mark' = snapshot.last
            /\ rewound' = rewound + AtLeast(0, mark - snapshot.last)
    /\ UNCHANGED <<clientVars, snapshot, granted, runs, first>>

Init ==
    /\ ClientInit
    /\ bucket = Absent
    /\ snapshot = Absent
    /\ restarts = 0
    /\ granted = 0
    /\ runs = 0
    /\ births = 0
    /\ first = 0
    /\ mark = 0
    /\ rewound = 0
    /\ promise = NoPromise

ClientStep(c) ==
    /\ \/ \E p \in Policies : Begin(c, p)
       \/ Deliver(c)
       \/ Retry(c)
       \/ GiveUp(c)
    /\ UNCHANGED <<bucketVars, restarts, history>>

Idling == (Tick \/ Quiet) /\ UNCHANGED <<bucketVars, restarts, history>>

Next ==
    \/ \E c \in Callers : ClientStep(c)
    \/ \E m \in wire : RunScript(m)
    \/ Dump
    \/ Restart
    \/ Idling

Spec == Init /\ [][Next]_vars

-----------------------------------------------------------------------------
(***************************************************************************)
(* Properties.                                                             *)
(***************************************************************************)

TypeOK ==
    /\ ClientTypeOK
    /\ bucket \in Bucket \cup {Absent}
    /\ snapshot \in Bucket \cup {Absent}
    /\ restarts \in Nat
    /\ granted \in Nat
    /\ runs \in Nat
    /\ births \in Nat
    /\ first \in Nat
    /\ mark \in Nat
    /\ rewound \in Nat
    /\ promise \in Promise \cup {NoPromise}

(* The time the bucket was refilled for: from the first stamp to the       *)
(* latest, and once more whatever was credited again after last_ms had     *)
(* been moved back.                                                        *)
RefillTime == (mark - first) + rewound

Supply == TopCapacity * births + TopRate * RefillTime + StoreErr * runs

(* What the limiter guarantees however calls, retries, expiries, restarts, *)
(* clocks and policies interleave: the scripts never admit more than one   *)
(* capacity for each time the bucket was handed out, plus the refill of    *)
(* the time the stamps span, counting the moves backwards.                 *)
AdmissionBound == granted * Unit <= Supply

(* The bound one reads off the algorithm's description, which only speaks  *)
(* of the time that has passed.  It holds as long as no script runs with a *)
(* stamp older than the one before (token_bucket.go:36 and 53).            *)
InOrderBound ==
    rewound = 0 =>
        granted * Unit <= TopCapacity * births
                          + TopRate * (now + MaxSkew - first) + StoreErr * runs

(* README.md:511 on the code of token_bucket.go:67-80: "Concurrency cannot *)
(* cause two requests to both be approved when one of them should be       *)
(* rejected."  With exact clocks and one policy, admissions would then     *)
(* stay within the capacity and the refill of the time passed.             *)
NoOverAdmission ==
    granted * Unit <= TopCapacity * births
                      + TopRate * (now - first) + StoreErr * runs

(* All the callers of the identifier use windows of one length.            *)
OneWindow == \A p, q \in Policies : WindowSeconds[p] = WindowSeconds[q]

(* The key lives for two windows after each call (line 54), so that losing *)
(* it shows to nobody: a call that finds the key expired would have found  *)
(* the bucket refilled.  The second window is the slack for clock skew and *)
(* for calls that were stamped a while ago.  Windows of different lengths  *)
(* do not have this: the last caller's decides how long the key lives.     *)
ExpiryForgetsNothing ==
    \A m \in wire :
        /\ OneWindow
        /\ Expired(bucket)
        /\ now - m.stamp <= WindowTicks(m.policy) - MaxSkew
        => Found(bucket, m.policy, m.stamp) = Capacity(m.policy)

(* All the callers of the identifier refill its bucket at one rate.        *)
SameRate == \A p, q \in Policies : Rate[p] = Rate[q]

(* types.go:24: retry_after is the number of seconds until the next        *)
(* allowed request.  A caller refused with retry_after r finds a token r   *)
(* seconds after its stamp unless somebody was admitted in between, also   *)
(* when refused calls and late calls ran meanwhile, or the key expired,    *)
(* but for what each of those writes may have rounded away.                *)
RetryAfterIsHonoured ==
    (SameRate /\ promise # NoPromise) =>
        Found(Read, promise.policy, promise.due) + StoreErr * (runs - promise.run) >= Unit

(* reset_at (line 60) is computed from the whole second now_ms lies in, so *)
(* that it may announce the full bucket early, but by less than a second.  *)
ResetIsLessThanASecondEarly ==
    bucket # Absent =>
        \A p \in Policies :
            LET announced == ResetAt(bucket.tokens, p, bucket.last) * TicksPerSec
            IN  Refilled(bucket, p, announced + TicksPerSec - 1) = Capacity(p)

(* A token is taken for exactly the answers "allowed", except that every   *)
(* attempt whose connection broke may have taken one that no caller heard  *)
(* of: a retry may charge a caller twice and a 503 may have charged it,    *)
(* but an answer is never given without a token.                           *)
ChargesMatchAnswers == MatchesAnswers(granted)

(* The bucket is a limiter: its supply never shrinks, each script takes    *)
(* from it what it admits and no more than was earned, and each answer     *)
(* "allowed" is about an admission of its own, whatever is retried, lost   *)
(* or restarted (token_bucket.go:20-80, fed by service.go:21-57).          *)
Abstract == INSTANCE Limiter WITH Cost <- Unit, supply <- Supply

IsLimiter == Abstract!Spec
=============================================================================
