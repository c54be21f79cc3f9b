---------------------------- MODULE RedisClient ----------------------------
(***************************************************************************)
(* How one rate-limit check reaches Redis and comes back.                  *)
(*                                                                         *)
(* A check reads its own machine's clock, puts the reading among the       *)
(* script's arguments and only then sends the script                       *)
(* (token_bucket.go:68-75, fixed_window.go:52-57).  go-redis, an external  *)
(* library used with the options redis.go:14-20 leaves at their defaults,  *)
(* sends the very same arguments again when the connection breaks.  A      *)
(* broken attempt may still be executed later, and an executed script may  *)
(* lose its answer.                                                        *)
(*                                                                         *)
(* The script itself is left to the modules that extend this one: they     *)
(* take a command off the wire with Execute.                               *)
(***************************************************************************)
EXTENDS Integers, FiniteSets

CONSTANTS
    Callers,      \* request goroutines, over all instances of the API
    Policies,     \* the (limit, window_seconds) pairs they send
    TicksPerSec,  \* clock ticks in a second: 1000 in the code
    MaxSkew,      \* how far a machine's clock may be from Redis's, in ticks
    MaxRetries,   \* how often go-redis sends a command again (its default: 3)
    MaxTime,      \* bound: the clock stops here
    MaxCalls      \* bound: checks begun in a behaviour

ASSUME RedisClientAssumption ==
    /\ IsFiniteSet(Callers)
    /\ TicksPerSec \in Nat \ {0}
    /\ MaxSkew \in Nat
    /\ MaxRetries \in Nat
    /\ MaxTime \in Nat
    /\ MaxCalls \in Nat

VARIABLES
    now,     \* Redis's clock, in ticks
    wire,    \* the commands sent and not yet executed
    call,    \* what each goroutine is waiting for
    calls,   \* checks begun
    told,    \* history: "allowed" answers that reached their caller
    breaks   \* history: attempts whose connection broke

clientVars == <<now, wire, call, calls, told, breaks>>

AtMost(x, y)  == IF x <= y THEN x ELSE y
AtLeast(x, y) == IF x >= y THEN x ELSE y

(* One attempt of one check: the arguments are those of the first attempt. *)
Command == [id: Nat, try: Nat, policy: Policies, stamp: Nat]

Idle          == [pc |-> "idle"]
Waiting(m)    == [pc |-> "waiting", cmd |-> m]
Replied(m, a) == [pc |-> "replied", cmd |-> m, allowed |-> a]

CallState == {Idle}
             \cup [pc: {"waiting"}, cmd: Command]
             \cup [pc: {"replied"}, cmd: Command, allowed: BOOLEAN]

(* History: the answers "allowed" that are on their way to a caller, and   *)
(* when n charges match the answers given: none is given without a charge, *)
(* and a charge nobody is told of has a broken connection to account for   *)
(* it.                                                                     *)
OnTheWay == {c \in Callers : call[c].pc = "replied" /\ call[c].allowed}

MatchesAnswers(n) ==
    /\ told + Cardinality(OnTheWay) <= n
    /\ n <= told + Cardinality(OnTheWay) + breaks

ClientTypeOK ==
    /\ now \in Nat
    /\ wire \in SUBSET Command
    /\ call \in [Callers -> CallState]
    /\ calls \in Nat
    /\ told \in Nat
    /\ breaks \in Nat

ClientInit ==
    /\ now = MaxSkew
    /\ wire = {}
    /\ call = [c \in Callers |-> Idle]
    /\ calls = 0
    /\ told = 0
    /\ breaks = 0

Clocks == (now - MaxSkew) .. (now + MaxSkew)

(* The handler reads time.Now() and hands the script to go-redis.          *)
Begin(c, p) ==
    /\ call[c] = Idle
    /\ calls < MaxCalls
    /\ \E stamp \in Clocks :
         LET m == [id |-> calls + 1, try |-> 0, policy |-> p, stamp |-> stamp]
         IN  /\ call' = [call EXCEPT ![c] = Waiting(m)]
             /\ wire' = wire \cup {m}
    /\ calls' = calls + 1
    /\ UNCHANGED <<now, told, breaks>>

(* Redis executes m; its answer goes to the goroutine that still waits for *)
(* this very attempt, if there is one.                                     *)
Execute(m, allowed) ==
    /\ wire' = wire \ {m}
    /\ call' = [c \in Callers |->
                  IF call[c] = Waiting(m) THEN Replied(m, allowed) ELSE call[c]]
    /\ UNCHANGED <<now, calls, told, breaks>>

Deliver(c) ==
    /\ call[c].pc = "replied"
    /\ call' = [call EXCEPT ![c] = Idle]
    /\ told' = IF call[c].allowed THEN told + 1 ELSE told
    /\ UNCHANGED <<now, wire, calls, breaks>>

(* What the wire may hold once the connection of m broke: m is lost, or    *)
(* Redis has it in its input buffer and will execute it all the same.      *)
AfterBreak(m) == {wire, wire \ {m}}

Retry(c) ==
    /\ call[c] # Idle
    /\ call[c].cmd.try < MaxRetries
    /\ LET m     == call[c].cmd
           again == [m EXCEPT !.try = @ + 1]
       IN  /\ call' = [call EXCEPT ![c] = Waiting(again)]
           /\ \E left \in AfterBreak(m) : wire' = left \cup {again}
    /\ breaks' = breaks + 1
    /\ UNCHANGED <<now, calls, told>>

(* Mutant of GiveUp: a caller that hears nothing lets the request pass.    *)
GiveUpOpen(c) ==
    /\ call[c] # Idle
    /\ wire' \in AfterBreak(call[c].cmd)
    /\ call' = [call EXCEPT ![c] = Idle]
    /\ told' = told + 1
    /\ breaks' = breaks + 1
    /\ UNCHANGED <<now, calls>>

(* Retries exhausted, an error go-redis does not retry, or the request     *)
(* context done: the check ends in an error and the handler answers 503.   *)
GiveUp(c) ==
    /\ call[c] # Idle
    /\ wire' \in AfterBreak(call[c].cmd)
    /\ call' = [call EXCEPT ![c] = Idle]
    /\ breaks' = breaks + 1
    /\ UNCHANGED <<now, calls, told>>

Tick ==
    /\ now < MaxTime
    /\ now' = now + 1
    /\ UNCHANGED <<wire, call, calls, told, breaks>>

(* The bounds are used up and nothing is in flight.                        *)
Quiet ==
    /\ now = MaxTime
    /\ wire = {}
    /\ \A c \in Callers : call[c] = Idle
    /\ UNCHANGED clientVars
=============================================================================
