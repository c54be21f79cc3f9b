---------------------------- MODULE Playground -----------------------------
(***************************************************************************)
(* The demo's playground (frontend-demo/app/dashboard/playground/page.tsx) *)
(* around its Simulator: checks one at a time and in bursts, configuration *)
(* edits meanwhile, reset, a display that is polled, and a page that can   *)
(* be left and opened again while the simulator, a variable of the module, *)
(* stays.  A burst calls the fireRequest of the render it was started in.  *)
(*                                                                         *)
(* The inputs take any number and clamp it, fractions too.  Beside every   *)
(* key of a whole limit and window, which is all that the API accepts,     *)
(* runs the script the demo claims to repeat: TokenBucket and FixedWindow  *)
(* of this directory, with a Redis of their own for the key and with the   *)
(* browser's clock.                                                        *)
(***************************************************************************)
EXTENDS Simulator, FiniteSets

CONSTANTS
    Identifiers,      \* sequences of name parts
    TypedLimits,      \* numbers users type for the limit, in units
    TypedWindows,     \* numbers users type for the window, in ticks
    MaxLimit,         \* the limit's clamp: 200 tokens in the code
    MinWindow, MaxWindow,  \* the window's clamps: 5 and 300 seconds
    LogSize,          \* 50
    BurstSize,        \* 20
    MaxCells,         \* cells of the token grid: 64
    First,            \* the configuration a page starts with
    None,             \* no result
    MaxTime,          \* bound: the clock stops here
    MaxChecks,        \* bound: single checks and bursts clicked
    MaxEdits          \* bound: edits, resets, pages left, corrections of the clock

Algorithms == {"token_bucket", "fixed_window"}
Limits     == Unit .. MaxLimit * Unit
Windows    == MinWindow * TicksPerSec .. MaxWindow * TicksPerSec
Config     == [id: Identifiers, algorithm: Algorithms, limit: Limits, window: Windows]
Keys       == [id: Identifiers, limit: Limits, window: Windows]

ASSUME PlaygroundAssumption ==
    /\ Identifiers \subseteq Seq(UNION {{id[n] : n \in DOMAIN id} : id \in Identifiers})
    /\ TypedLimits \subseteq Int /\ TypedWindows \subseteq Int
    /\ {MaxLimit, MinWindow, MaxWindow, LogSize, BurstSize, MaxCells} \subseteq Nat \ {0}
    /\ {MaxTime, MaxChecks, MaxEdits} \subseteq Nat
    /\ First \in Config
    /\ MaxWindow * TicksPerSec <= Unit  \* no rate is rounded down to nothing

VARIABLES
    open,      \* whether the page is shown
    config,    \* identifier, algorithm, limit and windowSeconds
    result,    \* the last check's answer
    log,       \* the newest first
    display,   \* tokens and windowState, as polled, and for which key
    polled,    \* the keys an interval is polling
    bursting,  \* the flag that disables the button
    bursts,    \* the loops that run: [number, left, config, live]
    checks, edits,  \* counted for the bounds
    edited,    \* history: edited since the last click or the start of a burst
    setBack,   \* history: the clock was set back
    hash,      \* Redis: per key, the token bucket's hash, where there is one
    counter    \* Redis: per key and window start, the counters, where there are any

pageVars  == <<open, config, result, log, display, polled, bursting, bursts>>
redisVars == <<hash, counter>>
bounds    == <<checks, edits>>
history   == <<edited, setBack>>
vars      == <<now, tb, fw, pageVars, redisVars, bounds, history>>

-----------------------------------------------------------------------------
(***************************************************************************)
(* The scripts.                                                            *)
(***************************************************************************)
Whole(k) == k.limit % Unit = 0 /\ k.window % TicksPerSec = 0

Policy(k)  == [limit |-> k.limit \div Unit, window |-> k.window \div TicksPerSec]
Policies   == [limit: 1 .. MaxLimit, window: MinWindow .. MaxWindow]
Stamped(k) == [policy |-> Policy(k), stamp |-> now]

Bucket == INSTANCE TokenBucket WITH
    Callers <- {}, MaxSkew <- 0, MaxRetries <- 0, MaxCalls <- 0,
    Limit <- [p \in Policies |-> p.limit], WindowSeconds <- [p \in Policies |-> p.window],
    Rate <- [p \in Policies |-> (p.limit * Unit) \div (p.window * TicksPerSec)],
    StoreErr <- 0, TopCapacity <- 0, TopRate <- 0, MaxRestarts <- 0,
    wire <- {}, call <- << >>, calls <- 0, told <- 0, breaks <- 0, bucket <- hash, snapshot <- 0,
    restarts <- 0, granted <- 0, runs <- 0, births <- 0, first <- 0, mark <- 0,
    rewound <- 0, promise <- 0

Window == INSTANCE FixedWindow WITH
    Callers <- {}, MaxSkew <- 0, MaxRetries <- 0, MaxCalls <- 0,
    Limit <- [p \in Policies |-> p.limit], WindowSeconds <- [p \in Policies |-> p.window],
    TopLimit <- 0, MaxRestarts <- 0,
    wire <- {}, call <- << >>, calls <- 0, told <- 0, breaks <- 0, snapshot <- 0,
    restarts <- 0, granted <- 0, charges <- 0, late <- 0, lost <- 0

(* What HMGET and GET read: an expired key reads as no key.                *)
HashOf(k) ==
    IF k \in DOMAIN hash /\ ~Bucket!Expired(hash[k]) THEN hash[k] ELSE Bucket!Absent

CountersOf(k) ==
    IF k \in DOMAIN counter THEN counter[k] ELSE [s \in Window!Starts |-> Window!Absent]
CounterOf(k, s) ==
    IF Window!Expired(CountersOf(k)[s]) THEN Window!Absent ELSE CountersOf(k)[s]

ScriptTokens(k) == Bucket!Found(HashOf(k), Policy(k), now)
ScriptStart(k)  == Window!WindowStart(Stamped(k))
ScriptCount(k)  == CounterOf(k, ScriptStart(k)).count

(* What remains of a window after count requests: math.max(0, ...).        *)
ScriptRemaining(k, count) == AtLeast(0, k.limit - count * Unit)

(* What the two scripts would answer, in units and ticks.                  *)
BucketScriptAnswer(k) ==
    LET found   == ScriptTokens(k)
        allowed == found >= Unit
        left    == IF allowed THEN found - Unit ELSE found
    IN  [allowed   |-> allowed,
         tokens    |-> left,
         remaining |-> RoundedDown(left),
         reset     |-> Bucket!ResetAt(left, Policy(k), now) * TicksPerSec,
         retry     |-> IF allowed THEN NoRetry
                       ELSE Bucket!RetryAfter(left, Policy(k)) * TicksPerSec]

WindowScriptAnswer(k) ==
    LET count   == ScriptCount(k)
        allowed == count < Policy(k).limit
        end     == Window!WindowEnd(Stamped(k)) * TicksPerSec
    IN  [allowed   |-> allowed,
         remaining |-> ScriptRemaining(k, IF allowed THEN count + 1 ELSE count),
         reset     |-> end,
         retry     |-> IF allowed THEN NoRetry ELSE end - NowSecs]

RunBucketScript(k) ==
    /\ hash' = Put(hash, k, [tokens |-> BucketScriptAnswer(k).tokens, last |-> now,
                             expireAt |-> now + Bucket!Ttl(Policy(k))])
    /\ UNCHANGED counter

RunWindowScript(k) ==
    /\ counter' = IF WindowScriptAnswer(k).allowed
                  THEN Put(counter, k, [CountersOf(k) EXCEPT ![ScriptStart(k)] =
                             Window!Incremented(CounterOf(k, ScriptStart(k)), Stamped(k))])
                  ELSE counter
    /\ UNCHANGED hash

RunScript(c) ==
    \/ ~Whole(Key(c)) /\ UNCHANGED redisVars
    \/ Whole(Key(c)) /\ c.algorithm = "token_bucket" /\ RunBucketScript(Key(c))
    \/ Whole(Key(c)) /\ c.algorithm = "fixed_window" /\ RunWindowScript(Key(c))

(* As if each key's script had its keys deleted when the simulator's went. *)
ForgetScripts(id) ==
    /\ hash' = Delete(hash, Gone(tb, id))
    /\ counter' = Delete(counter, Gone(fw, id))

-----------------------------------------------------------------------------
(***************************************************************************)
(* The page.                                                               *)
(***************************************************************************)
Entry == [config: Config, allowed: BOOLEAN, remaining: Int, start: Nat]

(* fireRequest: the log is cut at LogSize.  The answer goes to the page    *)
(* that is there if it is the one that asked.                              *)
Logged(entry) == SubSeq(<<entry>> \o log, 1, AtMost(LogSize, Len(log) + 1))

Fire(c, live) ==
    /\ Check(c)
    /\ RunScript(c)
    /\ IF live
       THEN /\ result' = [config |-> c, answer |-> Answer(c)]
            /\ log' = Logged([config |-> c, allowed |-> Answer(c).allowed,
                              remaining |-> Answer(c).remaining, start |-> WindowStart(Key(c))])
       ELSE UNCHANGED <<result, log>>

(* Mutant of Closure: a fireRequest that is not made anew when the limit   *)
(* changes.                                                                *)
ClosureKept == [config EXCEPT !.limit = First.limit]
Closure     == config

Click ==
    /\ open
    /\ checks < MaxChecks
    /\ checks' = checks + 1
    /\ Fire(Closure, TRUE)
    /\ edited' = (edited /\ bursting)
    /\ UNCHANGED <<open, config, display, polled, bursting, bursts, edits, setBack>>

(* Mutant: the button is not disabled.                                     *)
MayAlwaysBurst == TRUE
MayBurst       == ~bursting

(* handleBurst: the flag, the first of the requests, and a loop that waits *)
(* before each of the others.                                              *)
StartBurst ==
    /\ open
    /\ MayBurst
    /\ checks < MaxChecks
    /\ checks' = checks + 1
    /\ bursting' = TRUE
    /\ bursts' = bursts \cup
         {[number |-> CHOOSE n \in 0 .. Cardinality(bursts) : \A b \in bursts : b.number # n,
           left |-> BurstSize - 1, config |-> Closure, live |-> TRUE]}
    /\ Fire(Closure, TRUE)
    /\ edited' = FALSE
    /\ UNCHANGED <<open, config, display, polled, edits, setBack>>

FireInBurst(b) ==
    /\ b.left > 0
    /\ Fire(b.config, b.live)
    /\ bursts' = (bursts \ {b}) \cup {[b EXCEPT !.left = @ - 1]}
    /\ UNCHANGED <<open, config, display, polled, bursting, bounds, history>>

EndBurst(b) ==
    /\ b.left = 0
    /\ bursts' = bursts \ {b}
    /\ bursting' = IF b.live THEN FALSE ELSE bursting
    /\ UNCHANGED <<now, tb, fw, open, config, result, log, display, polled, redisVars,
                   bounds, history>>

(* handleReset.  Its mutant leaves the log.                                *)
LogKeptByReset == log
LogAfterReset  == << >>

Edit == edits < MaxEdits /\ edits' = edits + 1

HandleReset ==
    /\ open
    /\ Edit
    /\ Reset(config.id)
    /\ ForgetScripts(config.id)
    /\ result' = None
    /\ log' = LogAfterReset
    /\ UNCHANGED <<open, config, display, polled, bursting, bursts, checks, setBack, edited>>

(* What the poll reads for key k.                                          *)
Peek(k) == [key |-> k, tokens |-> PeekTokens(k), window |-> PeekWindow(k)]

(* The effect's cleanup clears the old interval; its mutant does not.      *)
ClearedNone(keys) == keys
Cleared(keys)     == {}

(* The inputs: a render with the new configuration, whose effect peeks and *)
(* polls from then on.  React runs it before the next event, since an      *)
(* input's change is a discrete one.                                       *)
Configure(c) ==
    /\ open
    /\ Edit
    /\ c # config
    /\ config' = c
    /\ display' = IF Key(c) = Key(config) THEN display ELSE Peek(Key(c))
    /\ polled' = IF Key(c) = Key(config) THEN polled ELSE Cleared(polled) \cup {Key(c)}
    /\ edited' = TRUE
    /\ UNCHANGED <<now, tb, fw, open, result, log, bursting, bursts, redisVars, checks, setBack>>

Clamp(n, low, high) == AtLeast(low, AtMost(high, n))

SetIdentifier(id)   == Configure([config EXCEPT !.id = IF id = << >> THEN First.id ELSE id])
SetAlgorithm(a)     == Configure([config EXCEPT !.algorithm = a])
SetLimit(n)         == Configure([config EXCEPT !.limit = Clamp(n, Unit, MaxLimit * Unit)])
SetWindowSeconds(n) ==
    Configure([config EXCEPT !.window =
                 Clamp(n, MinWindow * TicksPerSec, MaxWindow * TicksPerSec)])

(* Every 200 ms.                                                           *)
Poll ==
    /\ \E k \in polled : display' = Peek(k)
    /\ UNCHANGED <<now, tb, fw, open, config, result, log, polled, bursting, bursts, redisVars,
                   bounds, history>>

(* The page is left: its interval is cleared, its bursts go on.            *)
Leave ==
    /\ open
    /\ Edit
    /\ open' = FALSE
    /\ polled' = Cleared(polled)
    /\ bursts' = {[b EXCEPT !.live = FALSE] : b \in bursts}
    /\ UNCHANGED <<now, tb, fw, config, result, log, display, bursting, redisVars, checks, history>>

Open ==
    /\ ~open
    /\ open' = TRUE
    /\ config' = First
    /\ result' = None
    /\ log' = << >>
    /\ display' = Peek(Key(First))
    /\ polled' = {Key(First)}
    /\ bursting' = FALSE
    /\ edited' = FALSE
    /\ UNCHANGED <<now, tb, fw, bursts, redisVars, bounds, setBack>>

(***************************************************************************)
(* What the page shows.                                                    *)
(***************************************************************************)
(* The headers are put together from the limit as it is now and the        *)
(* answer as it was.                                                       *)
ResultScreen ==
    IF result = None THEN None
    ELSE [allowed |-> result.answer.allowed,
          headers |-> [limit |-> config.limit, remaining |-> result.answer.remaining,
                       retry |-> result.answer.retry]]

(* TokenGrid is handed a limit cut at MaxCells, and tokens that are not;   *)
(* of a fraction of a cell nothing is drawn.                               *)
Cells(limit) == AtMost(limit \div Unit, MaxCells)

(* Mutant: handed the whole limit, and rounding down.                      *)
FilledCellsOfAll(tokens, limit) == (tokens * Cells(limit)) \div (limit * Unit)
FilledCells(tokens, limit) ==
    AtMost(Cells(limit), (2 * tokens + Unit) \div (2 * Unit))

StateScreen ==
    IF config.algorithm = "token_bucket"
    THEN [filled |-> FilledCells(display.tokens, config.limit), cells |-> Cells(config.limit)]
    ELSE [filled |-> AtMost(config.limit, display.window.count * Unit), cells |-> config.limit]

-----------------------------------------------------------------------------
(* The clock runs, or is corrected.                                        *)
Tick ==
    /\ now < MaxTime
    /\ now' = now + 1
    /\ UNCHANGED <<tb, fw, pageVars, redisVars, bounds, history>>

SetBack ==
    /\ Edit
    /\ setBack' = TRUE
    /\ now > 0
    /\ now' = now - 1
    /\ UNCHANGED <<tb, fw, pageVars, redisVars, checks, edited>>

Nothing == [x \in {} |-> None]

Init ==
    /\ now = 0
    /\ tb = Nothing /\ fw = Nothing
    /\ hash = Nothing /\ counter = Nothing
    /\ open = TRUE
    /\ config = First
    /\ result = None
    /\ log = << >>
    /\ display = Peek(Key(First))
    /\ polled = {Key(First)}
    /\ bursting = FALSE
    /\ bursts = {}
    /\ checks = 0 /\ edits = 0
    /\ edited = FALSE /\ setBack = FALSE

Next ==
    \/ Click
    \/ StartBurst
    \/ \E b \in bursts : FireInBurst(b) \/ EndBurst(b)
    \/ HandleReset
    \/ \E id \in Identifiers \cup {<< >>} : SetIdentifier(id)
    \/ \E a \in Algorithms : SetAlgorithm(a)
    \/ \E n \in TypedLimits : SetLimit(n)
    \/ \E n \in TypedWindows : SetWindowSeconds(n)
    \/ Poll
    \/ Leave
    \/ Open
    \/ Tick
    \/ SetBack

Spec == Init /\ [][Next]_vars

-----------------------------------------------------------------------------
(***************************************************************************)
(* Properties.                                                             *)
(***************************************************************************)
InUse == DOMAIN tb \cup DOMAIN fw \cup DOMAIN hash \cup DOMAIN counter \cup {Key(config)}

TokenState  == [tokens: Nat, last: Nat]
WindowState == [count: Nat \ {0}, start: Nat]

TypeOK ==
    /\ now \in Nat
    /\ DOMAIN tb \subseteq Keys /\ \A k \in DOMAIN tb : tb[k] \in TokenState
    /\ DOMAIN fw \subseteq Keys /\ \A k \in DOMAIN fw : fw[k] \in WindowState
    /\ open \in BOOLEAN
    /\ config \in Config
    /\ result # None => result.config \in Config
    /\ log \in Seq(Entry) /\ Len(log) <= LogSize
    /\ display.key \in Keys
    /\ polled \subseteq Keys
    /\ bursting \in BOOLEAN
    /\ edited \in BOOLEAN

(* "Implements the same token-bucket and fixed-window math as the Go/Lua   *)
(* backend" (simulator.ts:22): a check of any key in use that the API      *)
(* would take, one with a whole limit and window, is answered as by the    *)
(* script, in every field, whatever checks, edits, bursts, resets and      *)
(* expiries came before.  Of the fixed window this holds while the clock   *)
(* is not set back: the script has a key for each window, the simulator    *)
(* only the last one (line 127).                                           *)
AgreesWithScripts ==
    \A k \in InUse : Whole(k) =>
        /\ TokenAnswer(k) = BucketScriptAnswer(k)
        /\ ~setBack => WindowAnswer(k) = WindowScriptAnswer(k)

(* The panel shows the state of the configuration that is shown, whichever *)
(* intervals and bursts are running (page.tsx:108-121), and the headers do *)
(* not mix two configurations (312-313) unless it was edited after the     *)
(* check, or after the burst that made it began.                           *)
ShowsItsConfiguration ==
    open => /\ display.key = Key(config)
            /\ (result # None /\ ~edited) =>
                  /\ result.config = config
                  /\ ResultScreen.headers.remaining < ResultScreen.headers.limit

(* An empty grid means that a check is refused, and with a fixed window a  *)
(* full bar does, when the panel is as fresh as its last poll: true also   *)
(* of limits with more tokens than cells, whose grid shows the first       *)
(* tokens only (page.tsx:12-13 and 333).  Panel and check look at the      *)
(* window with a comparison each (simulator.ts:67 and 127).                *)
EmptyMeansRefused ==
    (open /\ display = Peek(Key(config))) =>
        IF config.algorithm = "token_bucket"
        THEN StateScreen.filled = 0 => ~Answer(config).allowed
        ELSE StateScreen.filled = StateScreen.cells => ~Answer(config).allowed

(* The log never shows more requests allowed in one window than its limit, *)
(* rounded up where it is a fraction (simulator.ts:131), over edits,       *)
(* resets and bursts that outlive them, unless the clock was set back:     *)
(* what reset forgets in the simulator it forgets in the log               *)
(* (page.tsx:135-139).                                                     *)
LogWithinLimit ==
    ~setBack =>
        \A n \in DOMAIN log :
            log[n].config.algorithm = "fixed_window" =>
                Cardinality({m \in DOMAIN log : /\ log[m].allowed
                                                /\ log[m].config = log[n].config
                                                /\ log[m].start = log[n].start})
                  <= CeilDiv(log[n].config.limit, Unit)

(* The burst button is disabled while a burst of this page runs, and only  *)
(* then, whatever loops of pages that were left go on beside it            *)
(* (page.tsx:141-151): no two bursts of one page, and no button that stays *)
(* disabled.                                                               *)
OneBurst ==
    open => /\ bursting = (\E b \in bursts : b.live)
            /\ \A b, c \in bursts : b.live /\ c.live => b = c
=============================================================================
