----------------------------- MODULE Simulator -----------------------------
(***************************************************************************)
(* The demo's rate limiter (frontend-demo/lib/simulator.ts): both          *)
(* algorithms over two maps in memory, keyed by identifier, limit and      *)
(* window.  Tokens, limits and what remains of them are counted in units   *)
(* of 1/Unit of a token, times and windows in ticks, since the page hands  *)
(* it fractions of both; a rate is rounded down to whole units in a tick.  *)
(*                                                                         *)
(* An identifier is the sequence of the parts its colons separate, since   *)
(* reset compares names by their beginnings.  A part that is a number      *)
(* stands for a limit, so it is in units too: "user:1" is <<user, Unit>>.  *)
(***************************************************************************)
EXTENDS Integers, SequencesExt

CONSTANTS
    TicksPerSec,  \* clock ticks in a second: 1000 in the code
    Unit          \* units in one token

ASSUME SimulatorAssumption == TicksPerSec \in Nat \ {0} /\ Unit \in Nat \ {0}

VARIABLES
    now,  \* Date.now()
    tb,   \* per key: tokens and lastMs, for the keys there are
    fw    \* per key: count and windowStart, for the keys there are

AtMost(x, y)  == IF x <= y THEN x ELSE y
AtLeast(x, y) == IF x >= y THEN x ELSE y
CeilDiv(a, b) == (a + b - 1) \div b

Key(config)     == [id |-> config.id, limit |-> config.limit, window |-> config.window]
UnitsPerTick(k) == k.limit \div k.window

(* The second that has begun, and the window of seconds.                   *)
NowSecs         == (now \div TicksPerSec) * TicksPerSec
WindowStart(k)  == (NowSecs \div k.window) * k.window

(* A map with k set, and with the keys in gone deleted.                    *)
Put(map, k, v)    == [x \in DOMAIN map \cup {k} |-> IF x = k THEN v ELSE map[x]]
Delete(map, gone) == [x \in DOMAIN map \ gone |-> map[x]]

(***************************************************************************)
(* peekTokens and peekWindow.                                              *)
(***************************************************************************)
PeekTokens(k) ==
    IF k \notin DOMAIN tb THEN k.limit
    ELSE AtMost(k.limit, tb[k].tokens + AtLeast(0, now - tb[k].last) * UnitsPerTick(k))

(* Mutant: a window that ends now still counts.                            *)
PeekFreshLate(k) == k \notin DOMAIN fw \/ fw[k].start + k.window < NowSecs
PeekFresh(k)     == k \notin DOMAIN fw \/ fw[k].start < WindowStart(k)

PeekWindow(k) ==
    IF PeekFresh(k)
    THEN [count |-> 0, left |-> WindowStart(k) + k.window - NowSecs]
    ELSE [count |-> fw[k].count, left |-> fw[k].start + k.window - NowSecs]

(***************************************************************************)
(* check.                                                                  *)
(***************************************************************************)
NoRetry == -1

RoundedDown(amount) == (amount \div Unit) * Unit

(* Ticks it takes to refill amount, rounded up to seconds.                 *)
RefillTime(k, amount) == CeilDiv(amount, UnitsPerTick(k) * TicksPerSec) * TicksPerSec

(* Mutant of Refill: elapsed time may be negative.                         *)
RefillUnclamped(k, state) ==
    AtMost(k.limit, state.tokens + (now - state.last) * UnitsPerTick(k))
Refill(k, state) ==
    AtMost(k.limit, state.tokens + AtLeast(0, now - state.last) * UnitsPerTick(k))

(* Tokens never exceed the limit, so that a full bucket resets now.        *)
TokenAnswer(k) ==
    LET state   == IF k \in DOMAIN tb THEN tb[k] ELSE [tokens |-> k.limit, last |-> now]
        tokens  == Refill(k, state)
        allowed == tokens >= Unit
        left    == IF allowed THEN tokens - Unit ELSE tokens
    IN  [allowed   |-> allowed,
         tokens    |-> left,
         remaining |-> RoundedDown(left),
         reset     |-> NowSecs + RefillTime(k, k.limit - left),
         retry     |-> IF allowed THEN NoRetry ELSE RefillTime(k, Unit - left)]

(* The check looks at the window with a comparison of its own.  Its mutant *)
(* is as late.                                                             *)
FreshWindowLate(k) == k \notin DOMAIN fw \/ fw[k].start + k.window < NowSecs
FreshWindow(k)     == k \notin DOMAIN fw \/ fw[k].start < WindowStart(k)

(* Below the limit, which need not be whole.                               *)
HasRoom(k, count) == count * Unit < k.limit

WindowAnswer(k) ==
    LET count   == IF FreshWindow(k) THEN 0 ELSE fw[k].count
        reset   == WindowStart(k) + k.window
        allowed == FreshWindow(k) \/ HasRoom(k, count)
    IN  [allowed   |-> allowed,
         remaining |-> IF allowed THEN k.limit - (count + 1) * Unit ELSE 0,
         reset     |-> reset,
         retry     |-> IF allowed THEN NoRetry ELSE reset - NowSecs]

Answer(config) ==
    IF config.algorithm = "token_bucket"
    THEN TokenAnswer(Key(config)) ELSE WindowAnswer(Key(config))

(* What check leaves in the maps.                                          *)
CheckTokens(k) ==
    /\ tb' = Put(tb, k, [tokens |-> TokenAnswer(k).tokens, last |-> now])
    /\ UNCHANGED <<now, fw>>

CheckWindow(k) ==
    /\ fw' = IF FreshWindow(k) THEN Put(fw, k, [count |-> 1, start |-> WindowStart(k)])
             ELSE IF HasRoom(k, fw[k].count) THEN [fw EXCEPT ![k].count = @ + 1]
             ELSE fw
    /\ UNCHANGED <<now, tb>>

Check(config) ==
    \/ config.algorithm = "token_bucket" /\ CheckTokens(Key(config))
    \/ config.algorithm = "fixed_window" /\ CheckWindow(Key(config))

(***************************************************************************)
(* reset: every key that starts with the identifier and a colon.           *)
(***************************************************************************)
Name(k) == k.id \o <<k.limit, k.window>>
Gone(map, id) == {k \in DOMAIN map : IsStrictPrefix(id, Name(k))}

Reset(id) ==
    /\ tb' = Delete(tb, Gone(tb, id))
    /\ fw' = Delete(fw, Gone(fw, id))
    /\ UNCHANGED now
=============================================================================
