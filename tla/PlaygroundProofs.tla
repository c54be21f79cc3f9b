-------------------------- MODULE PlaygroundProofs --------------------------
(***************************************************************************)
(* What holds of the demo's playground for all identifiers, limits and     *)
(* windows, every number of checks, bursts, edits and resets, and every    *)
(* course of the clock: above all that its simulator answers as the        *)
(* backend's scripts do.                                                   *)
(***************************************************************************)
EXTENDS Playground, FiniteSetTheorems, SequenceTheorems, TLAPS

-----------------------------------------------------------------------------
(* Arithmetic.                                                             *)

LEMMA Division ==
    ASSUME NEW x \in Int, NEW y \in Int, y > 0
    PROVE  /\ x \div y \in Int
           /\ (x \div y) * y <= x
           /\ x < (x \div y) * y + y
BY Z3

LEMMA ProductMonotone ==
    ASSUME NEW x \in Int, NEW y \in Int, NEW z \in Nat, x <= y
    PROVE  x * z <= y * z
<1>1. y - x \in Nat /\ y = x + (y - x)
    OBVIOUS
<1>2. (y - x) * z \in Nat
    BY <1>1
<1>3. (x + (y - x)) * z = x * z + (y - x) * z
    OBVIOUS
<1>4. QED
    BY <1>1, <1>2, <1>3

(* A quotient lies where its dividend does.                                *)
LEMMA QuotientBelow ==
    ASSUME NEW x \in Int, NEW y \in Int, y > 0, NEW q \in Int, x < q * y
    PROVE  x \div y < q
<1> DEFINE d == x \div y
<1>1. d \in Int /\ d * y <= x
    BY Division
<1> HIDE DEF d
<1>2. SUFFICES ASSUME q <= d PROVE FALSE
    BY <1>1 DEF d
<1>3. q * y <= d * y
    BY <1>1, <1>2, ProductMonotone
<1>4. q * y \in Int /\ d * y \in Int
    BY <1>1
<1>5. QED
    BY <1>1, <1>3, <1>4

LEMMA QuotientAtLeast ==
    ASSUME NEW x \in Int, NEW y \in Int, y > 0, NEW q \in Int, q * y <= x
    PROVE  q <= x \div y
<1> DEFINE d == x \div y
<1>1. d \in Int /\ x < d * y + y
    BY Division
<1> HIDE DEF d
<1>2. SUFFICES ASSUME d + 1 <= q PROVE FALSE
    BY <1>1 DEF d
<1>3. (d + 1) * y <= q * y
    BY <1>1, <1>2, ProductMonotone
<1>4. q * y \in Int /\ d * y \in Int /\ (d + 1) * y = d * y + y
    BY <1>1
<1>5. QED
    BY <1>1, <1>3, <1>4

LEMMA WholeQuotient ==
    ASSUME NEW x \in Nat, NEW y \in Nat, y > 0, x % y = 0
    PROVE  x \div y \in Int /\ (x \div y) * y = x
BY Z3

-----------------------------------------------------------------------------
(***************************************************************************)
(* The simulator's arithmetic.                                             *)
(***************************************************************************)
LEMMA Sizes ==
    /\ TicksPerSec \in Nat \ {0} /\ Unit \in Nat \ {0}
    /\ MaxLimit \in Nat \ {0} /\ MinWindow \in Nat \ {0} /\ MaxWindow \in Nat \ {0}
    /\ LogSize \in Nat \ {0} /\ BurstSize \in Nat \ {0} /\ MaxCells \in Nat \ {0}
    /\ MaxTime \in Nat /\ MaxChecks \in Nat /\ MaxEdits \in Nat
    /\ MaxWindow * TicksPerSec <= Unit
BY SimulatorAssumption, PlaygroundAssumption

(* A rate is at least one unit in a tick, so that rounding it down at most *)
(* halves it.                                                              *)
LEMMA KeyFacts ==
    ASSUME NEW k \in Keys
    PROVE  /\ k.limit \in Nat \ {0} /\ Unit <= k.limit
           /\ k.window \in Nat \ {0}
           /\ UnitsPerTick(k) \in Nat \ {0}
           /\ k.limit <= 2 * (k.window * UnitsPerTick(k))
           /\ UnitsPerTick(k) * TicksPerSec \in Nat \ {0}
<1> DEFINE rate == k.limit \div k.window
<1>1. k.limit \in Nat \ {0} /\ Unit <= k.limit
    BY Sizes DEF Keys, Limits
<1>2. k.window \in Nat \ {0} /\ k.window <= k.limit
    <2>1. 1 * TicksPerSec <= MinWindow * TicksPerSec
        BY Sizes, ProductMonotone
    <2>2. /\ k.window \in MinWindow * TicksPerSec .. MaxWindow * TicksPerSec
          /\ MinWindow * TicksPerSec \in Int /\ MaxWindow * TicksPerSec \in Int
        BY Sizes DEF Keys, Windows
    <2>3. k.window \in Int /\ 1 <= k.window /\ k.window <= Unit
        BY <2>1, <2>2, Sizes
    <2>4. QED
        BY <1>1, <2>3, Sizes
<1>3. rate \in Int /\ rate * k.window <= k.limit /\ k.limit < rate * k.window + k.window
    BY <1>1, <1>2, Division
<1>4. 1 <= rate
    BY <1>1, <1>2, QuotientAtLeast
<1> HIDE DEF rate
<1>5. 1 * k.window <= rate * k.window
    BY <1>2, <1>3, <1>4, ProductMonotone
<1>6. rate * k.window = k.window * rate /\ k.window * rate \in Int
    BY <1>2, <1>3
<1>7. k.limit <= 2 * (k.window * rate)
    BY <1>1, <1>2, <1>3, <1>5, <1>6
<1>8. rate * TicksPerSec \in Nat \ {0}
    <2>1. 1 * TicksPerSec <= rate * TicksPerSec
        BY <1>3, <1>4, Sizes, ProductMonotone
    <2>2. QED
        BY <1>3, <1>4, <2>1, Sizes
<1>9. UnitsPerTick(k) = rate
    BY DEF UnitsPerTick, rate
<1>10. QED
    BY <1>1, <1>2, <1>3, <1>4, <1>7, <1>8, <1>9

(* The keys the API would take.                                            *)
LEMMA WholeFacts ==
    ASSUME NEW k \in Keys, Whole(k)
    PROVE  /\ Policy(k) \in Policies
           /\ Policy(k).limit \in Nat \ {0} /\ Policy(k).limit * Unit = k.limit
           /\ Policy(k).window \in Nat \ {0} /\ Policy(k).window * TicksPerSec = k.window
<1> DEFINE limit  == k.limit \div Unit
           window == k.window \div TicksPerSec
<1>1. /\ k.limit \in Nat /\ k.window \in Nat
      /\ k.limit \in Unit .. MaxLimit * Unit
      /\ k.window \in MinWindow * TicksPerSec .. MaxWindow * TicksPerSec
      /\ MaxLimit * Unit \in Int /\ MinWindow * TicksPerSec \in Int
      /\ MaxWindow * TicksPerSec \in Int
    BY KeyFacts, Sizes DEF Keys, Limits, Windows
<1>2. k.limit % Unit = 0 /\ k.window % TicksPerSec = 0
    BY DEF Whole
<1>3. limit \in Int /\ limit * Unit = k.limit
    BY <1>1, <1>2, Sizes, WholeQuotient
<1>4. window \in Int /\ window * TicksPerSec = k.window
    BY <1>1, <1>2, Sizes, WholeQuotient
<1>5. limit \in 1 .. MaxLimit
    <2>1. 1 <= limit
        BY <1>1, Sizes, QuotientAtLeast
    <2>2. limit < MaxLimit + 1
        <3>1. (MaxLimit + 1) * Unit = MaxLimit * Unit + Unit
            BY Sizes
        <3>2. k.limit < (MaxLimit + 1) * Unit
            BY <1>1, <3>1, Sizes
        <3>3. QED
            BY <1>1, <3>2, Sizes, QuotientBelow
    <2>3. QED
        BY <1>3, <2>1, <2>2, Sizes
<1>6. window \in MinWindow .. MaxWindow
    <2>1. MinWindow <= window
        BY <1>1, Sizes, QuotientAtLeast
    <2>2. window < MaxWindow + 1
        <3>1. (MaxWindow + 1) * TicksPerSec = MaxWindow * TicksPerSec + TicksPerSec
            BY Sizes
        <3>2. k.window < (MaxWindow + 1) * TicksPerSec
            BY <1>1, <3>1, Sizes
        <3>3. QED
            BY <1>1, <3>2, Sizes, QuotientBelow
    <2>3. QED
        BY <1>4, <2>1, <2>2, Sizes
<1>7. Policy(k) = [limit |-> limit, window |-> window]
    BY DEF Policy
<1> HIDE DEF limit, window
<1>8. QED
    BY <1>3, <1>4, <1>5, <1>6, <1>7, Sizes DEF Policies

LEMMA KeyIsKey ==
    ASSUME NEW c \in Config
    PROVE  /\ Key(c) \in Keys
           /\ Key(c).limit = c.limit /\ Key(c).window = c.window /\ Key(c).id = c.id
           /\ c.algorithm \in Algorithms
BY DEF Config, Keys, Key

(* The variables' types, and what else every step relies on.               *)
Burst(number, left, c, live) ==
    [number |-> number, left |-> left, config |-> c, live |-> live]

BurstType ==
    \A b \in bursts :
        \E number, left : \E c \in Config, live \in BOOLEAN : b = Burst(number, left, c, live)

TypeInv == TypeOK /\ BurstType /\ now <= MaxTime /\ setBack \in BOOLEAN

(* The display, given a state of the two maps: Peek.                       *)
LEMMA PeekIs ==
    ASSUME TypeOK, NEW k \in Keys
    PROVE  /\ PeekTokens(k) \in Nat /\ PeekTokens(k) <= k.limit
           /\ PeekWindow(k).count \in Nat
<1>1. ASSUME k \notin DOMAIN tb
      PROVE  PeekTokens(k) \in Nat /\ PeekTokens(k) <= k.limit
    BY <1>1, KeyFacts DEF PeekTokens
<1>2. ASSUME k \in DOMAIN tb
      PROVE  PeekTokens(k) \in Nat /\ PeekTokens(k) <= k.limit
    <2> DEFINE refill == AtLeast(0, now - tb[k].last) * UnitsPerTick(k)
    <2>1. tb[k].tokens \in Nat /\ tb[k].last \in Nat /\ now \in Nat
        BY <1>2 DEF TypeOK, TokenState
    <2>2. AtLeast(0, now - tb[k].last) \in Nat
        BY <2>1 DEF AtLeast
    <2>3. refill \in Nat
        BY <2>2, KeyFacts
    <2>4. PeekTokens(k) = AtMost(k.limit, tb[k].tokens + refill)
        BY <1>2 DEF PeekTokens
    <2> HIDE DEF refill
    <2>5. k.limit \in Nat
        BY KeyFacts
    <2>6. QED
        BY <2>1, <2>3, <2>4, <2>5 DEF AtMost
<1>3. PeekWindow(k).count \in Nat
    BY DEF PeekWindow, PeekFresh, TypeOK, WindowState
<1>4. QED
    BY <1>1, <1>2, <1>3

(* What a check finds is what is peeked at.                                *)
LEMMA TokenAnswerIs ==
    ASSUME TypeOK, NEW k \in Keys
    PROVE  LET found   == PeekTokens(k)
               allowed == found >= Unit
               left    == IF allowed THEN found - Unit ELSE found
           IN  TokenAnswer(k) =
                 [allowed   |-> allowed,
                  tokens    |-> left,
                  remaining |-> RoundedDown(left),
                  reset     |-> NowSecs + RefillTime(k, k.limit - left),
                  retry     |-> IF allowed THEN NoRetry ELSE RefillTime(k, Unit - left)]
<1> DEFINE state == IF k \in DOMAIN tb THEN tb[k] ELSE [tokens |-> k.limit, last |-> now]
<1>1. Refill(k, state) = PeekTokens(k)
    <2>1. CASE k \notin DOMAIN tb
        <3>1. /\ now - now = 0 /\ UnitsPerTick(k) \in Nat /\ k.limit \in Nat
            BY KeyFacts DEF TypeOK
        <3>2. AtLeast(0, now - now) * UnitsPerTick(k) = 0
            BY <3>1 DEF AtLeast
        <3>3. AtMost(k.limit, k.limit + 0) = k.limit
            BY <3>1 DEF AtMost
        <3>4. QED
            BY <2>1, <3>1, <3>2, <3>3 DEF Refill, PeekTokens
    <2>2. CASE k \in DOMAIN tb
        BY <2>2 DEF Refill, PeekTokens
    <2>3. QED
        BY <2>1, <2>2
<1>2. QED
    BY <1>1, Zenon DEF TokenAnswer

LEMMA RoundedDownIs ==
    ASSUME NEW x \in Nat
    PROVE  RoundedDown(x) \in Int /\ RoundedDown(x) <= x
<1>1. (x \div Unit) \in Int /\ (x \div Unit) * Unit <= x
    BY Sizes, Division
<1>2. (x \div Unit) * Unit \in Int
    BY <1>1, Sizes
<1>3. QED
    BY <1>1, <1>2 DEF RoundedDown

LEMMA AnswersAreBounded ==
    ASSUME TypeOK, NEW k \in Keys
    PROVE  /\ TokenAnswer(k).tokens \in Nat
           /\ TokenAnswer(k).allowed \in BOOLEAN
           /\ TokenAnswer(k).allowed = (PeekTokens(k) >= Unit)
           /\ TokenAnswer(k).remaining \in Int /\ TokenAnswer(k).remaining < k.limit
           /\ WindowAnswer(k).allowed \in BOOLEAN
           /\ WindowAnswer(k).allowed = HasRoom(k, PeekWindow(k).count)
           /\ WindowAnswer(k).remaining \in Int /\ WindowAnswer(k).remaining < k.limit
<1> DEFINE found == PeekTokens(k)
           left  == IF found >= Unit THEN found - Unit ELSE found
<1>1. /\ found \in Nat /\ found <= k.limit /\ Unit <= k.limit /\ k.limit \in Nat \ {0}
    BY PeekIs, KeyFacts
<1>2. /\ TokenAnswer(k).tokens = left
      /\ TokenAnswer(k).allowed = (found >= Unit)
      /\ TokenAnswer(k).remaining = RoundedDown(left)
    BY TokenAnswerIs
<1> HIDE DEF found
<1>3. left \in Nat /\ left < k.limit
    BY <1>1, Sizes
<1> HIDE DEF left
<1>4. RoundedDown(left) \in Int /\ RoundedDown(left) < k.limit
    BY <1>1, <1>3, RoundedDownIs
<1>5. /\ WindowAnswer(k).allowed \in BOOLEAN
      /\ WindowAnswer(k).allowed = HasRoom(k, PeekWindow(k).count)
    <2>1. PeekFresh(k) = FreshWindow(k)
        BY DEF PeekFresh, FreshWindow
    <2>2. HasRoom(k, 0) = TRUE
        BY <1>1, Sizes DEF HasRoom
    <2>3. CASE FreshWindow(k)
        BY <2>1, <2>2, <2>3 DEF WindowAnswer, PeekWindow
    <2>4. CASE ~FreshWindow(k)
        BY <2>1, <2>4 DEF WindowAnswer, PeekWindow, HasRoom
    <2>5. QED
        BY <2>3, <2>4
<1>6. WindowAnswer(k).remaining \in Int /\ WindowAnswer(k).remaining < k.limit
    <2> DEFINE count == IF FreshWindow(k) THEN 0 ELSE fw[k].count
    <2>1. count \in Nat
        BY DEF FreshWindow, TypeOK, WindowState
    <2>2. WindowAnswer(k).remaining
            = IF WindowAnswer(k).allowed THEN k.limit - (count + 1) * Unit ELSE 0
        BY DEF WindowAnswer
    <2> HIDE DEF count
    <2>3. 1 * Unit <= (count + 1) * Unit /\ (count + 1) * Unit \in Int
        BY <2>1, Sizes, ProductMonotone
    <2>4. QED
        BY <1>1, <2>2, <2>3, Sizes
<1>7. QED
    BY <1>1, <1>2, <1>3, <1>4, <1>5, <1>6, Sizes DEF found

-----------------------------------------------------------------------------
(***************************************************************************)
(* The scripts' arithmetic, which is the same.                             *)
(***************************************************************************)
LEMMA BucketFacts ==
    ASSUME NEW k \in Keys, Whole(k)
    PROVE  /\ Bucket!Capacity(Policy(k)) = k.limit
           /\ Bucket!Ttl(Policy(k)) = 2 * k.window
           /\ \A b : Bucket!Refilled(b, Policy(k), now)
                = AtMost(k.limit, b.tokens + AtLeast(0, now - b.last) * UnitsPerTick(k))
           /\ \A left : Bucket!RetryAfter(left, Policy(k)) * TicksPerSec
                = RefillTime(k, Unit - left)
<1>1. /\ Policy(k) \in Policies
      /\ Policy(k).limit * Unit = k.limit /\ Policy(k).window * TicksPerSec = k.window
    BY WholeFacts
<1>2. Bucket!Capacity(Policy(k)) = k.limit
    BY <1>1 DEF Bucket!Capacity
<1>3. [p \in Policies |-> (p.limit * Unit) \div (p.window * TicksPerSec)][Policy(k)]
        = UnitsPerTick(k)
    BY <1>1 DEF UnitsPerTick
<1>4. [p \in Policies |-> p.window][Policy(k)] * TicksPerSec = k.window
    BY <1>1
<1>5. Bucket!Ttl(Policy(k)) = 2 * k.window
    BY <1>4 DEF Bucket!Ttl, Bucket!WindowTicks
<1>6. \A b : Bucket!Refilled(b, Policy(k), now)
        = AtMost(k.limit, b.tokens + AtLeast(0, now - b.last) * UnitsPerTick(k))
    BY <1>2, <1>3 DEF Bucket!Refilled, Bucket!AtMost, Bucket!AtLeast, AtMost, AtLeast
<1>7. \A left : Bucket!RetryAfter(left, Policy(k)) * TicksPerSec = RefillTime(k, Unit - left)
    BY <1>3, Zenon DEF Bucket!RetryAfter, Bucket!CeilDiv, CeilDiv, RefillTime
<1>8. QED
    BY <1>2, <1>5, <1>6, <1>7

LEMMA BucketResets ==
    ASSUME now \in Nat, NEW k \in Keys, Whole(k), NEW left \in Int
    PROVE  Bucket!ResetAt(left, Policy(k), now) * TicksPerSec
             = NowSecs + RefillTime(k, k.limit - left)
<1> DEFINE secs == now \div TicksPerSec
           full == CeilDiv(k.limit - left, UnitsPerTick(k) * TicksPerSec)
<1>1. /\ Policy(k) \in Policies
      /\ Policy(k).limit * Unit = k.limit /\ Policy(k).window * TicksPerSec = k.window
    BY WholeFacts
<1>2. [p \in Policies |-> (p.limit * Unit) \div (p.window * TicksPerSec)][Policy(k)]
        = UnitsPerTick(k)
    BY <1>1 DEF UnitsPerTick
<1>3. Bucket!Capacity(Policy(k)) = k.limit
    BY BucketFacts
<1>4. Bucket!ResetAt(left, Policy(k), now) = secs + full
    BY <1>2, <1>3, Zenon DEF Bucket!ResetAt, Bucket!SecsToFull, Bucket!CeilDiv, CeilDiv
<1>5. secs \in Int
    BY Sizes, Division
<1>6. full \in Int
    <2> DEFINE rate == UnitsPerTick(k) * TicksPerSec
               sum  == k.limit - left + rate - 1
    <2>1. rate \in Nat \ {0} /\ sum \in Int
        BY KeyFacts
    <2> HIDE DEF rate, sum
    <2>2. sum \div rate \in Int
        BY <2>1, Division
    <2>3. full = sum \div rate
        BY DEF CeilDiv, rate, sum
    <2>4. QED
        BY <2>2, <2>3
<1>7. RefillTime(k, k.limit - left) = full * TicksPerSec /\ NowSecs = secs * TicksPerSec
    BY DEF RefillTime, NowSecs
<1> HIDE DEF secs, full
<1>8. (secs + full) * TicksPerSec = secs * TicksPerSec + full * TicksPerSec
    BY <1>5, <1>6, Sizes
<1>9. QED
    BY <1>4, <1>7, <1>8

(***************************************************************************)
(* The simulator's maps hold what the scripts' keys hold.                  *)
(*                                                                         *)
(* The answers agree because the states do: where the simulator has a      *)
(* bucket, Redis has a hash with the same tokens and stamp, that expires   *)
(* two windows after it.                                                   *)
(***************************************************************************)
HashSync ==
    /\ DOMAIN hash = {k \in DOMAIN tb : Whole(k)}
    /\ \A k \in DOMAIN hash :
         hash[k] = [tokens |-> tb[k].tokens, last |-> tb[k].last,
                    expireAt |-> tb[k].last + 2 * k.window]

(* A hash that expired belongs to a bucket that is full by now.            *)
LEMMA OverdueIsFull ==
    ASSUME TypeOK, NEW k \in Keys, k \in DOMAIN tb, now > tb[k].last + 2 * k.window
    PROVE  PeekTokens(k) = k.limit
<1> DEFINE elapsed == now - tb[k].last
           refill  == elapsed * UnitsPerTick(k)
           twice   == 2 * k.window
<1>1. /\ now \in Nat /\ tb[k].tokens \in Nat /\ tb[k].last \in Nat
      /\ k.limit \in Nat /\ UnitsPerTick(k) \in Nat /\ k.window \in Nat
      /\ k.limit <= 2 * (k.window * UnitsPerTick(k))
    BY KeyFacts DEF TypeOK, TokenState
<1>2. twice \in Nat /\ twice * UnitsPerTick(k) = 2 * (k.window * UnitsPerTick(k))
    BY <1>1
<1> HIDE DEF twice
<1>3. elapsed \in Nat /\ twice <= elapsed
    BY <1>1, <1>2 DEF twice
<1>4. AtLeast(0, elapsed) = elapsed
    BY <1>3 DEF AtLeast
<1>5. PeekTokens(k) = AtMost(k.limit, tb[k].tokens + refill)
    BY <1>4 DEF PeekTokens
<1> HIDE DEF elapsed
<1>6. twice * UnitsPerTick(k) <= refill
    BY <1>1, <1>2, <1>3, ProductMonotone
<1>7. refill \in Nat
    BY <1>1, <1>3
<1> HIDE DEF refill
<1>8. twice * UnitsPerTick(k) \in Int
    BY <1>1, <1>2
<1>9. k.limit <= tb[k].tokens + refill
    BY <1>1, <1>2, <1>6, <1>7, <1>8
<1>10. QED
    BY <1>1, <1>5, <1>7, <1>9 DEF AtMost

LEMMA TokensAgree ==
    ASSUME TypeOK, HashSync, NEW k \in Keys, Whole(k)
    PROVE  ScriptTokens(k) = PeekTokens(k)
<1>1. CASE k \notin DOMAIN tb
    BY <1>1, BucketFacts DEF HashSync, ScriptTokens, HashOf, PeekTokens, Bucket!Found
<1>2. CASE k \in DOMAIN tb
    <2>1. /\ tb[k].tokens \in Nat /\ k \in DOMAIN hash
          /\ hash[k] = [tokens |-> tb[k].tokens, last |-> tb[k].last,
                        expireAt |-> tb[k].last + 2 * k.window]
        BY <1>2 DEF TypeOK, TokenState, HashSync
    <2>2. hash[k] # Bucket!Absent
        BY <2>1 DEF Bucket!Absent
    <2>3. Bucket!Expired(hash[k]) <=> now > tb[k].last + 2 * k.window
        BY <2>1, <2>2 DEF Bucket!Expired
    <2>4. CASE Bucket!Expired(hash[k])
        <3>1. PeekTokens(k) = k.limit
            BY <1>2, <2>3, <2>4, OverdueIsFull
        <3>2. HashOf(k) = Bucket!Absent
            BY <2>4 DEF HashOf
        <3>3. QED
            BY <3>1, <3>2, BucketFacts DEF ScriptTokens, Bucket!Found
    <2>5. CASE ~Bucket!Expired(hash[k])
        <3>1. HashOf(k) = hash[k]
            BY <2>1, <2>5 DEF HashOf
        <3>2. ScriptTokens(k) = Bucket!Refilled(hash[k], Policy(k), now)
            BY <2>2, <3>1 DEF ScriptTokens, Bucket!Found
        <3>3. QED
            BY <1>2, <2>1, <3>2, BucketFacts DEF PeekTokens
    <2>6. QED
        BY <2>4, <2>5
<1>3. QED
    BY <1>1, <1>2

LEMMA BucketsAgree ==
    ASSUME TypeOK, HashSync, NEW k \in Keys, Whole(k)
    PROVE  TokenAnswer(k) = BucketScriptAnswer(k)
<1> DEFINE found == PeekTokens(k)
           left  == IF found >= Unit THEN found - Unit ELSE found
<1>1. ScriptTokens(k) = found
    BY TokensAgree
<1>2. left \in Int
    <2>1. found \in Nat
        BY PeekIs
    <2> HIDE DEF found
    <2>2. QED
        BY <2>1, Sizes
<1>3. Bucket!ResetAt(left, Policy(k), now) * TicksPerSec
        = NowSecs + RefillTime(k, k.limit - left)
    BY <1>2, BucketResets DEF TypeOK
<1>4. Bucket!RetryAfter(left, Policy(k)) * TicksPerSec = RefillTime(k, Unit - left)
    BY BucketFacts
<1>5. BucketScriptAnswer(k) =
        [allowed   |-> found >= Unit,
         tokens    |-> left,
         remaining |-> RoundedDown(left),
         reset     |-> Bucket!ResetAt(left, Policy(k), now) * TicksPerSec,
         retry     |-> IF found >= Unit THEN NoRetry
                       ELSE Bucket!RetryAfter(left, Policy(k)) * TicksPerSec]
    BY <1>1, Zenon DEF BucketScriptAnswer
<1>6. TokenAnswer(k) =
        [allowed   |-> found >= Unit,
         tokens    |-> left,
         remaining |-> RoundedDown(left),
         reset     |-> NowSecs + RefillTime(k, k.limit - left),
         retry     |-> IF found >= Unit THEN NoRetry ELSE RefillTime(k, Unit - left)]
    BY TokenAnswerIs
<1> HIDE DEF left, found
<1>7. QED
    BY <1>3, <1>4, <1>5, <1>6

(***************************************************************************)
(* The windows.  The simulator keeps one count per key, Redis one per key  *)
(* and window: they agree as long as time does not go back, since then the *)
(* simulator's window is the latest that Redis has a counter for.          *)
(***************************************************************************)
LEMMA QuotientIsMonotone ==
    ASSUME NEW x \in Int, NEW z \in Int, NEW y \in Int, y > 0, x <= z
    PROVE  x \div y <= z \div y
<1> DEFINE d == x \div y
<1>1. d \in Int /\ d * y <= x
    BY Division
<1> HIDE DEF d
<1>2. d * y \in Int
    BY <1>1
<1>3. d * y <= z
    BY <1>1, <1>2
<1>4. d <= z \div y
    BY <1>1, <1>3, QuotientAtLeast
<1>5. QED
    BY <1>4 DEF d

(* A time's latest multiple of y, which the code takes of milliseconds and *)
(* of seconds.                                                             *)
LEMMA LatestMultiple ==
    ASSUME NEW y \in Nat, y > 0, NEW x \in Nat
    PROVE  /\ x \div y \in Nat
           /\ (x \div y) * y \in Nat /\ (x \div y) * y <= x
           /\ x < (x \div y) * y + y
           /\ \A z \in Nat : x <= z => (x \div y) * y <= (z \div y) * y
<1>1. \A z \in Nat : z \div y \in Int
    BY Division
<1>2. x \div y \in Int /\ (x \div y) * y <= x /\ x < (x \div y) * y + y
    BY Division
<1>3. 0 <= x \div y
    <2>1. 0 * y <= x
        OBVIOUS
    <2>2. QED
        BY <2>1, QuotientAtLeast
<1>4. (x \div y) * y \in Nat
    BY <1>2, <1>3
<1>5. ASSUME NEW z \in Nat, x <= z
      PROVE  (x \div y) * y <= (z \div y) * y
    <2>1. x \div y <= z \div y
        BY <1>5, QuotientIsMonotone
    <2>2. QED
        BY <1>1, <1>2, <2>1, ProductMonotone
<1>6. QED
    BY <1>2, <1>3, <1>4, <1>5

SecondAt(time)   == (time \div TicksPerSec) * TicksPerSec
StartAt(k, time) == (SecondAt(time) \div k.window) * k.window

LEMMA StartsAreOrdered ==
    ASSUME NEW k \in Keys, NEW x \in Nat, NEW y \in Nat, x <= y
    PROVE  StartAt(k, x) \in Nat /\ StartAt(k, x) <= StartAt(k, y)
<1> DEFINE a == SecondAt(x)
           b == SecondAt(y)
<1>1. a \in Nat /\ b \in Nat /\ a <= b
    <2>1. TicksPerSec \in Nat /\ TicksPerSec > 0
        BY Sizes
    <2>2. a \in Nat /\ \A z \in Nat : x <= z => a <= SecondAt(z)
        BY <2>1, LatestMultiple DEF SecondAt
    <2>3. b \in Nat
        BY <2>1, LatestMultiple DEF SecondAt
    <2>4. QED
        BY <2>2, <2>3
<1> HIDE DEF a, b
<1>2. /\ (a \div k.window) * k.window \in Nat
      /\ (a \div k.window) * k.window <= (b \div k.window) * k.window
    <2>1. k.window \in Nat /\ k.window > 0
        BY KeyFacts
    <2>2. /\ (a \div k.window) * k.window \in Nat
          /\ \A z \in Nat : a <= z => (a \div k.window) * k.window <= (z \div k.window) * k.window
        BY <1>1, <2>1, LatestMultiple
    <2>3. QED
        BY <1>1, <2>2
<1>3. QED
    BY <1>2 DEF StartAt, a, b

LEMMA StartIs ==
    ASSUME TypeInv, NEW k \in Keys
    PROVE  WindowStart(k) \in Nat
<1>1. now \in Nat /\ now <= now
    BY DEF TypeInv, TypeOK
<1>2. WindowStart(k) = StartAt(k, now)
    BY DEF WindowStart, NowSecs, StartAt, SecondAt
<1>3. QED
    BY <1>1, <1>2, StartsAreOrdered

(* The script's window, of seconds, is the simulator's.                    *)
LEMMA QuotientOfMultiples ==
    ASSUME NEW x \in Nat, NEW y \in Nat, y > 0, NEW z \in Nat, z > 0
    PROVE  (x * z) \div (y * z) = x \div y
<1> DEFINE q == x \div y
           d == (x * z) \div (y * z)
<1>1. q \in Int /\ q * y <= x /\ x < q * y + y
    BY Division
<1>2. 1 * z <= y * z
    BY ProductMonotone
<1>3. x * z \in Int /\ y * z \in Int /\ y * z > 0
    BY <1>2
<1>4. d \in Int
    BY <1>3, Division
<1> HIDE DEF q
<1>5. q * y \in Int /\ q * y + y = (q + 1) * y
    BY <1>1
<1>6. q <= d
    <2>1. (q * y) * z <= x * z
        BY <1>1, <1>5, ProductMonotone
    <2>2. (q * y) * z = q * (y * z)
        BY <1>1
    <2>3. QED
        BY <1>1, <1>3, <2>1, <2>2, QuotientAtLeast
<1>7. d < q + 1
    <2>1. (x + 1) * z <= ((q + 1) * y) * z
        BY <1>1, <1>5, ProductMonotone
    <2>2. ((q + 1) * y) * z = (q + 1) * (y * z)
        BY <1>1
    <2>3. (x + 1) * z = x * z + z
        OBVIOUS
    <2>4. x * z < (q + 1) * (y * z)
        <3>1. (q + 1) * (y * z) \in Int
            BY <1>1, <1>3
        <3>2. QED
            BY <1>3, <2>1, <2>2, <2>3, <3>1
    <2>5. QED
        BY <1>1, <1>3, <2>4, QuotientBelow
<1> HIDE DEF d
<1>8. d = q
    BY <1>1, <1>4, <1>6, <1>7
<1>9. QED
    BY <1>8 DEF d, q

(* Where the window of key k that starts at the script's second s ends.    *)
End(k, s) == s * TicksPerSec + k.window

LEMMA WindowFacts ==
    ASSUME TypeInv, NEW k \in Keys, Whole(k)
    PROVE  /\ ScriptStart(k) \in Nat /\ ScriptStart(k) \in Window!Starts
           /\ WindowStart(k) = ScriptStart(k) * TicksPerSec
           /\ Window!WindowEnd(Stamped(k)) * TicksPerSec = End(k, ScriptStart(k))
           /\ now < End(k, ScriptStart(k)) /\ End(k, ScriptStart(k)) \in Nat
<1> DEFINE secs   == now \div TicksPerSec
           window == Policy(k).window
           n      == secs \div window
<1>1. now \in Nat /\ now <= MaxTime /\ MaxTime \in Nat
    BY Sizes DEF TypeInv, TypeOK
<1>2. /\ window \in Nat \ {0} /\ window * TicksPerSec = k.window
      /\ Policy(k) \in Policies
    BY WholeFacts
<1>3. /\ ScriptStart(k) = n * window
      /\ Window!WindowEnd(Stamped(k)) = n * window + window
    BY <1>2, Zenon DEF ScriptStart, Window!WindowEnd, Window!WindowStart, Window!NowSecs, Stamped
<1>4. secs \in Nat /\ now < secs * TicksPerSec + TicksPerSec
    BY <1>1, Sizes, LatestMultiple
<1>5. WindowStart(k) = n * k.window
    <2>1. (secs * TicksPerSec) \div (window * TicksPerSec) = secs \div window
        BY <1>2, <1>4, Sizes, QuotientOfMultiples
    <2>2. QED
        BY <1>2, <2>1 DEF WindowStart, NowSecs
<1>6. secs <= MaxTime \div TicksPerSec /\ MaxTime \div TicksPerSec \in Int
    BY <1>1, Sizes, QuotientIsMonotone, Division
<1> HIDE DEF secs, window
<1>7. n \in Nat /\ n * window \in Nat /\ n * window <= secs /\ secs < n * window + window
    BY <1>2, <1>4, LatestMultiple
<1> HIDE DEF n
<1>8. ScriptStart(k) \in Window!Starts
    <2>1. MaxTime + 0 = MaxTime
        BY <1>1
    <2>2. QED
        BY <1>3, <1>6, <1>7, <1>4, <2>1 DEF Window!Starts
<1>9. WindowStart(k) = (n * window) * TicksPerSec
    BY <1>2, <1>5, <1>7, Sizes
<1>10. (n * window + window) * TicksPerSec = (n * window) * TicksPerSec + k.window
    BY <1>2, <1>7, Sizes
<1>11. now < (n * window + window) * TicksPerSec
    <2> DEFINE end == n * window + window
    <2>1. end \in Nat /\ secs + 1 <= end
        BY <1>2, <1>4, <1>7
    <2> HIDE DEF end
    <2>2. (secs + 1) * TicksPerSec <= end * TicksPerSec
        BY <1>4, <2>1, Sizes, ProductMonotone
    <2>3. (secs + 1) * TicksPerSec = secs * TicksPerSec + TicksPerSec
        BY <1>4, Sizes
    <2>4. end * TicksPerSec \in Int /\ secs * TicksPerSec \in Int
        BY <1>4, <2>1, Sizes
    <2>5. now < end * TicksPerSec
        BY <1>1, <1>4, <2>2, <2>3, <2>4, Sizes
    <2>6. QED
        BY <2>5 DEF end
<1>12. End(k, ScriptStart(k)) = (n * window) * TicksPerSec + k.window
    BY <1>3 DEF End
<1>13. (n * window) * TicksPerSec + k.window \in Nat
    BY <1>7, Sizes, KeyFacts
<1>14. QED
    BY <1>3, <1>7, <1>8, <1>9, <1>10, <1>11, <1>12, <1>13

(* The counters c of key k have the simulator's count v.                   *)
Tallies(k, c, v) ==
    \E s \in Window!Starts :
        /\ v.start = s * TicksPerSec
        /\ c = [t \in Window!Starts |-> c[t]]
        /\ c[s] = [count |-> v.count, expireAt |-> End(k, s)]
        /\ \A t \in Window!Starts : t > s => c[t] = Window!Absent

PastStarts == \A k \in DOMAIN fw : fw[k].start <= WindowStart(k)

CounterSync ==
    ~setBack =>
        /\ PastStarts
        /\ DOMAIN counter = {k \in DOMAIN fw : Whole(k)}
        /\ \A k \in DOMAIN counter : Tallies(k, counter[k], fw[k])

(* What GET reads is what the simulator counts: nothing, of a fresh window. *)
LEMMA CounterRead ==
    ASSUME TypeInv, CounterSync, ~setBack, NEW k \in Keys, Whole(k)
    PROVE  IF FreshWindow(k)
           THEN CounterOf(k, ScriptStart(k)) = Window!Absent
           ELSE /\ k \in DOMAIN fw /\ fw[k].start = WindowStart(k)
                /\ CounterOf(k, ScriptStart(k))
                     = [count |-> fw[k].count, expireAt |-> End(k, ScriptStart(k))]
<1> DEFINE start == ScriptStart(k)
<1>1. /\ start \in Nat /\ start \in Window!Starts /\ now \in Nat
      /\ now < End(k, start) /\ End(k, start) \in Nat
      /\ WindowStart(k) = start * TicksPerSec
    BY WindowFacts DEF TypeInv, TypeOK
<1>2. CASE k \notin DOMAIN fw
    <2>1. CountersOf(k)[start] = Window!Absent
        BY <1>1, <1>2 DEF CounterSync, CountersOf
    <2>2. QED
        BY <1>2, <2>1 DEF CounterOf, Window!Expired, FreshWindow
<1>3. CASE k \in DOMAIN fw
    <2>1. /\ CountersOf(k) = counter[k] /\ Tallies(k, counter[k], fw[k])
          /\ fw[k].start <= WindowStart(k) /\ fw[k].start \in Nat
        BY <1>3 DEF CounterSync, PastStarts, CountersOf, TypeInv, TypeOK, WindowState
    <2>2. PICK s \in Window!Starts :
             /\ fw[k].start = s * TicksPerSec
             /\ CountersOf(k)[s] = [count |-> fw[k].count, expireAt |-> End(k, s)]
             /\ \A t \in Window!Starts : t > s => CountersOf(k)[t] = Window!Absent
        BY <2>1 DEF Tallies
    <2>3. s \in Nat
        BY DEF Window!Starts
    <2>4. CASE fw[k].start < WindowStart(k)
        <3>1. start > s
            <4>1. start <= s => start * TicksPerSec <= s * TicksPerSec
                BY <1>1, <2>3, Sizes, ProductMonotone
            <4>2. start * TicksPerSec \in Int /\ s * TicksPerSec \in Int
                BY <1>1, <2>3, Sizes
            <4> HIDE DEF start
            <4>3. QED
                BY <1>1, <2>2, <2>3, <2>4, <4>1, <4>2
        <3>2. CountersOf(k)[start] = Window!Absent
            BY <1>1, <2>2, <3>1
        <3>3. QED
            BY <2>4, <3>2 DEF CounterOf, Window!Expired, FreshWindow
    <2>5. CASE fw[k].start = WindowStart(k)
        <3>1. s = start
            <4>1. \/ s <= start /\ start <= s
                  \/ s + 1 <= start
                  \/ start + 1 <= s
                BY <1>1, <2>3
            <4>2. /\ s + 1 <= start => (s + 1) * TicksPerSec <= start * TicksPerSec
                  /\ start + 1 <= s => (start + 1) * TicksPerSec <= s * TicksPerSec
                BY <1>1, <2>3, Sizes, ProductMonotone
            <4> HIDE DEF start
            <4>3. /\ (s + 1) * TicksPerSec = s * TicksPerSec + TicksPerSec
                  /\ (start + 1) * TicksPerSec = start * TicksPerSec + TicksPerSec
                  /\ s * TicksPerSec \in Int /\ start * TicksPerSec \in Int
                BY <1>1, <2>3, Sizes
            <4>4. start * TicksPerSec = s * TicksPerSec
                BY <1>1, <2>2, <2>5
            <4>5. ~(s + 1 <= start) /\ ~(start + 1 <= s)
                BY <4>2, <4>3, <4>4, Sizes
            <4>6. QED
                BY <1>1, <2>3, <4>1, <4>5
        <3>2. CountersOf(k)[start] = [count |-> fw[k].count, expireAt |-> End(k, start)]
            BY <2>2, <3>1
        <3>3. ~Window!Expired(CountersOf(k)[start])
            BY <1>1, <3>2 DEF Window!Expired
        <3>4. ~FreshWindow(k)
            BY <1>3, <2>1, <2>5 DEF FreshWindow
        <3>5. QED
            BY <1>3, <2>5, <3>2, <3>3, <3>4 DEF CounterOf
    <2>6. WindowStart(k) \in Nat
        BY StartIs
    <2>7. QED
        BY <2>1, <2>4, <2>5, <2>6
<1>4. QED
    BY <1>2, <1>3

LEMMA CountsAgree ==
    ASSUME TypeInv, CounterSync, ~setBack, NEW k \in Keys, Whole(k)
    PROVE  ScriptCount(k) = IF FreshWindow(k) THEN 0 ELSE fw[k].count
BY CounterRead DEF ScriptCount, Window!Absent

(* A whole limit has room for a request where the count is below it, and   *)
(* what remains then is no debt.                                           *)
LEMMA RoomOfWhole ==
    ASSUME NEW k \in Keys, Whole(k), NEW count \in Nat
    PROVE  /\ HasRoom(k, count) = (count < Policy(k).limit)
           /\ HasRoom(k, count)
                => ScriptRemaining(k, count + 1) = k.limit - (count + 1) * Unit
           /\ ~HasRoom(k, count) => ScriptRemaining(k, count) = 0
<1> DEFINE limit == Policy(k).limit
<1>1. limit \in Nat \ {0} /\ limit * Unit = k.limit /\ k.limit \in Nat
    BY WholeFacts, KeyFacts
<1>2. /\ count * Unit \in Nat /\ (count + 1) * Unit = count * Unit + Unit
    BY Sizes
<1> HIDE DEF limit
<1>3. limit <= count => limit * Unit <= count * Unit
    BY <1>1, Sizes, ProductMonotone
<1>4. count + 1 <= limit => (count + 1) * Unit <= limit * Unit
    BY <1>1, Sizes, ProductMonotone
<1>5. count * Unit < k.limit <=> count < limit
    BY <1>1, <1>2, <1>3, <1>4, Sizes
<1>6. HasRoom(k, count) => ScriptRemaining(k, count + 1) = k.limit - (count + 1) * Unit
    <2>1. ASSUME HasRoom(k, count)
          PROVE  (count + 1) * Unit <= k.limit /\ (count + 1) * Unit \in Int
        BY <1>1, <1>2, <1>4, <1>5, <2>1, Sizes DEF HasRoom
    <2>2. QED
        BY <1>1, <2>1 DEF ScriptRemaining, AtLeast
<1>7. ~HasRoom(k, count) => ScriptRemaining(k, count) = 0
    BY <1>1, <1>2 DEF HasRoom, ScriptRemaining, AtLeast
<1>8. HasRoom(k, count) = (count < limit)
    BY <1>5 DEF HasRoom
<1>9. QED
    BY <1>6, <1>7, <1>8 DEF limit

LEMMA CountIs ==
    ASSUME TypeInv, NEW k \in Keys
    PROVE  /\ (IF FreshWindow(k) THEN 0 ELSE fw[k].count) \in Nat
           /\ WindowAnswer(k).allowed
                = HasRoom(k, IF FreshWindow(k) THEN 0 ELSE fw[k].count)
<1>1. (IF FreshWindow(k) THEN 0 ELSE fw[k].count) \in Nat
    BY DEF FreshWindow, TypeInv, TypeOK, WindowState
<1>2. PeekWindow(k).count = IF FreshWindow(k) THEN 0 ELSE fw[k].count
    BY DEF PeekWindow, PeekFresh, FreshWindow
<1>3. QED
    BY <1>1, <1>2, AnswersAreBounded DEF TypeInv

LEMMA WindowsAgree ==
    ASSUME TypeInv, CounterSync, ~setBack, NEW k \in Keys, Whole(k)
    PROVE  WindowAnswer(k) = WindowScriptAnswer(k)
<1> DEFINE count   == IF FreshWindow(k) THEN 0 ELSE fw[k].count
           allowed == HasRoom(k, count)
           reset   == WindowStart(k) + k.window
           Answered(remaining) ==
               [allowed   |-> allowed,
                remaining |-> remaining,
                reset     |-> reset,
                retry     |-> IF allowed THEN NoRetry ELSE reset - NowSecs]
<1>1. ScriptCount(k) = count
    BY CountsAgree
<1>2. count \in Nat /\ WindowAnswer(k).allowed = allowed
    BY CountIs
<1>3. (FreshWindow(k) \/ allowed) = allowed
    BY <1>2 DEF WindowAnswer
<1>4. WindowAnswer(k) = Answered(IF allowed THEN k.limit - (count + 1) * Unit ELSE 0)
    BY <1>3, Zenon DEF WindowAnswer
<1>5. Window!WindowEnd(Stamped(k)) * TicksPerSec = reset
    BY WindowFacts DEF End
<1>6. allowed = (count < Policy(k).limit)
    BY <1>2, RoomOfWhole
<1>7. WindowScriptAnswer(k)
        = Answered(ScriptRemaining(k, IF allowed THEN count + 1 ELSE count))
    BY <1>1, <1>5, <1>6, Zenon DEF WindowScriptAnswer
<1>8. ScriptRemaining(k, IF allowed THEN count + 1 ELSE count)
        = IF allowed THEN k.limit - (count + 1) * Unit ELSE 0
    BY <1>2, RoomOfWhole
<1>9. QED
    BY <1>4, <1>7, <1>8

-----------------------------------------------------------------------------
(***************************************************************************)
(* Type correctness.                                                       *)
(***************************************************************************)
LEMMA LoggedIs ==
    ASSUME log \in Seq(Entry), NEW e \in Entry
    PROVE  /\ Logged(e) \in Seq(Entry) /\ Len(Logged(e)) <= LogSize
           /\ DOMAIN Logged(e) = 1 .. Len(Logged(e))
           /\ Len(Logged(e)) \in Nat \ {0} /\ Logged(e)[1] = e
           /\ \A n \in 2 .. Len(Logged(e)) : n - 1 \in DOMAIN log /\ Logged(e)[n] = log[n - 1]
<1> DEFINE s   == <<e>> \o log
           m   == AtMost(LogSize, Len(log) + 1)
           new == SubSeq(s, 1, m)
<1>1. /\ s \in Seq(Entry) /\ Len(s) = Len(log) + 1 /\ Len(log) \in Nat
      /\ DOMAIN log = 1 .. Len(log)
      /\ s[1] = e /\ \A n \in 2 .. Len(s) : s[n] = log[n - 1]
    <2>1. <<e>> \in Seq(Entry) /\ Len(<<e>>) = 1 /\ <<e>>[1] = e
        OBVIOUS
    <2>2. QED
        BY <2>1, ConcatProperties, LenProperties
<1>2. m \in Nat \ {0} /\ m <= Len(s) /\ m <= LogSize
    BY <1>1, Sizes DEF AtMost
<1> HIDE DEF s, m
<1>3. \A n \in 1 .. m : s[n] \in Entry
    BY <1>1, <1>2, ElementOfSeq
<1>4. new \in Seq(Entry) /\ Len(new) = m /\ \A n \in 1 .. m : new[n] = s[n]
    <2>1. /\ new \in Seq(Entry) /\ Len(new) = IF 1 <= m THEN m - 1 + 1 ELSE 0
          /\ \A n \in 1 .. m - 1 + 1 : new[n] = s[1 + n - 1]
        BY <1>2, <1>3, SubSeqProperties
    <2> HIDE DEF new
    <2>2. QED
        BY <1>2, <2>1
<1> HIDE DEF new
<1>5. DOMAIN new = 1 .. Len(new)
    BY <1>4, LenProperties
<1>6. \A n \in 2 .. m : n - 1 \in 1 .. Len(log) /\ new[n] = log[n - 1]
    BY <1>1, <1>2, <1>4
<1>7. new[1] = e
    BY <1>1, <1>2, <1>4
<1>8. QED
    BY <1>1, <1>2, <1>4, <1>5, <1>6, <1>7 DEF Logged, new, s, m

EntryOf(c) == [config |-> c, allowed |-> Answer(c).allowed,
               remaining |-> Answer(c).remaining, start |-> WindowStart(Key(c))]

LEMMA AnswerIs ==
    ASSUME TypeInv, NEW c \in Config
    PROVE  /\ Answer(c).allowed \in BOOLEAN
           /\ Answer(c).remaining \in Int /\ Answer(c).remaining < c.limit
           /\ EntryOf(c) \in Entry
<1>1. /\ Answer(c).allowed \in BOOLEAN
      /\ Answer(c).remaining \in Int /\ Answer(c).remaining < c.limit
    BY AnswersAreBounded, KeyIsKey DEF Answer, TypeInv
<1>2. WindowStart(Key(c)) \in Nat
    BY KeyIsKey, StartIs
<1>3. QED
    BY <1>1, <1>2 DEF EntryOf, Entry

TableTypes ==
    /\ DOMAIN tb \subseteq Keys /\ \A k \in DOMAIN tb : tb[k] \in TokenState
    /\ DOMAIN fw \subseteq Keys /\ \A k \in DOMAIN fw : fw[k] \in WindowState

LEMMA CheckType ==
    ASSUME TypeInv, NEW c \in Config, Check(c)
    PROVE  TableTypes' /\ now' = now
<1> DEFINE k == Key(c)
<1>1. k \in Keys /\ now \in Nat
    BY KeyIsKey DEF TypeInv, TypeOK
<1>2. CASE CheckTokens(k)
    <2>1. [tokens |-> TokenAnswer(k).tokens, last |-> now] \in TokenState
        BY <1>1, AnswersAreBounded DEF TokenState, TypeInv
    <2>2. QED
        BY <1>1, <1>2, <2>1 DEF CheckTokens, Put, TableTypes, TypeInv, TypeOK
<1>3. CASE CheckWindow(k)
    <2>1. /\ now' = now /\ tb' = tb
          /\ WindowStart(k) \in Nat
        BY <1>1, <1>3, StartIs DEF CheckWindow
    <2>2. CASE FreshWindow(k)
        <3>1. [count |-> 1, start |-> WindowStart(k)] \in WindowState
            BY <2>1 DEF WindowState
        <3>2. QED
            BY <1>1, <1>3, <2>1, <2>2, <3>1 DEF CheckWindow, Put, TableTypes, TypeInv, TypeOK
    <2>3. CASE ~FreshWindow(k)
        <3>1. k \in DOMAIN fw /\ fw[k] \in WindowState
            BY <2>3 DEF FreshWindow, TypeInv, TypeOK
        <3>2. [fw[k] EXCEPT !.count = @ + 1] \in WindowState
            BY <3>1 DEF WindowState
        <3>3. fw' = fw \/ fw' = [fw EXCEPT ![k] = [fw[k] EXCEPT !.count = @ + 1]]
            BY <1>3, <2>3 DEF CheckWindow
        <3>4. QED
            BY <1>1, <2>1, <3>2, <3>3 DEF TableTypes, TypeInv, TypeOK
    <2>4. QED
        BY <2>2, <2>3
<1>4. QED
    BY <1>2, <1>3 DEF Check

LEMMA FireIs ==
    ASSUME TypeInv, NEW c \in Config, NEW live \in BOOLEAN, Fire(c, live)
    PROVE  /\ TableTypes' /\ now' = now
           /\ IF live THEN /\ result' = [config |-> c, answer |-> Answer(c)]
                           /\ log' = Logged(EntryOf(c))
              ELSE result' = result /\ log' = log
           /\ result' # None => result'.config \in Config
           /\ log' \in Seq(Entry) /\ Len(log') <= LogSize
<1>1. TableTypes' /\ now' = now
    BY CheckType DEF Fire
<1>2. IF live THEN /\ result' = [config |-> c, answer |-> Answer(c)]
                   /\ log' = Logged(EntryOf(c))
      ELSE result' = result /\ log' = log
    BY DEF Fire, EntryOf
<1>3. log \in Seq(Entry) /\ Len(log) <= LogSize /\ (result # None => result.config \in Config)
    BY DEF TypeInv, TypeOK
<1>4. log' \in Seq(Entry) /\ Len(log') <= LogSize
    BY <1>2, <1>3, AnswerIs, LoggedIs
<1>5. QED
    BY <1>1, <1>2, <1>3, <1>4

(* The inputs clamp what is typed.                                         *)
LEMMA InputsConfigure ==
    ASSUME TypeInv,
           \/ \E id \in Identifiers \cup {<< >>} : SetIdentifier(id)
           \/ \E a \in Algorithms : SetAlgorithm(a)
           \/ \E n \in TypedLimits : SetLimit(n)
           \/ \E n \in TypedWindows : SetWindowSeconds(n)
    PROVE  \E c \in Config : Configure(c)
<1>1. config \in Config /\ First \in Config
    BY PlaygroundAssumption DEF TypeInv, TypeOK
<1>2. ASSUME NEW id \in Identifiers \cup {<< >>}, SetIdentifier(id)
      PROVE  \E c \in Config : Configure(c)
    <2>1. (IF id = << >> THEN First.id ELSE id) \in Identifiers
        BY <1>1 DEF Config
    <2>2. [config EXCEPT !.id = IF id = << >> THEN First.id ELSE id] \in Config
        BY <1>1, <2>1 DEF Config
    <2>3. QED
        BY <1>2, <2>2 DEF SetIdentifier
<1>3. ASSUME NEW a \in Algorithms, SetAlgorithm(a)
      PROVE  \E c \in Config : Configure(c)
    <2>1. [config EXCEPT !.algorithm = a] \in Config
        BY <1>1 DEF Config
    <2>2. QED
        BY <1>3, <2>1 DEF SetAlgorithm
<1>4. ASSUME NEW n \in TypedLimits, SetLimit(n)
      PROVE  \E c \in Config : Configure(c)
    <2>1. n \in Int
        BY PlaygroundAssumption
    <2>2. 1 * Unit <= MaxLimit * Unit /\ MaxLimit * Unit \in Int
        BY Sizes, ProductMonotone
    <2>3. Clamp(n, Unit, MaxLimit * Unit) \in Limits
        BY <2>1, <2>2, Sizes DEF Clamp, AtLeast, AtMost, Limits
    <2>4. [config EXCEPT !.limit = Clamp(n, Unit, MaxLimit * Unit)] \in Config
        BY <1>1, <2>3 DEF Config
    <2>5. QED
        BY <1>4, <2>4 DEF SetLimit
<1>5. ASSUME NEW n \in TypedWindows, SetWindowSeconds(n)
      PROVE  \E c \in Config : Configure(c)
    <2> DEFINE low  == MinWindow * TicksPerSec
               high == MaxWindow * TicksPerSec
    <2>1. n \in Int
        BY PlaygroundAssumption
    <2>2. low \in Int /\ high \in Int
        BY Sizes
    <2>3. Windows = low .. high
        BY DEF Windows
    <2>4. SetWindowSeconds(n) <=> Configure([config EXCEPT !.window = Clamp(n, low, high)])
        BY DEF SetWindowSeconds
    <2> HIDE DEF low, high
    <2>5. First.window \in low .. high
        BY <1>1, <2>3 DEF Config
    <2>6. Clamp(n, low, high) \in Windows
        BY <2>1, <2>2, <2>3, <2>5 DEF Clamp, AtLeast, AtMost
    <2>7. [config EXCEPT !.window = Clamp(n, low, high)] \in Config
        BY <1>1, <2>6 DEF Config
    <2>8. QED
        BY <1>5, <2>4, <2>7
<1>6. QED
    BY <1>2, <1>3, <1>4, <1>5

LEMMA Steps ==
    ASSUME TypeInv, [Next]_vars
    PROVE  \/ Click \/ StartBurst
           \/ \E b \in bursts : FireInBurst(b)
           \/ \E b \in bursts : EndBurst(b)
           \/ HandleReset
           \/ \E c \in Config : Configure(c)
           \/ Poll \/ Leave \/ Open \/ Tick \/ SetBack
           \/ UNCHANGED vars
BY InputsConfigure DEF Next

LEMMA BurstIs ==
    ASSUME BurstType, NEW b \in bursts
    PROVE  /\ b.config \in Config /\ b.live \in BOOLEAN
           /\ \A left : [b EXCEPT !.left = left] = Burst(b.number, left, b.config, b.live)
           /\ [b EXCEPT !.live = FALSE] = Burst(b.number, b.left, b.config, FALSE)
<1>1. PICK number, left : \E c \in Config, live \in BOOLEAN : b = Burst(number, left, c, live)
    BY DEF BurstType
<1>2. PICK c \in Config, live \in BOOLEAN : b = Burst(number, left, c, live)
    BY <1>1
<1>3. b = [number |-> number, left |-> left, config |-> c, live |-> live]
    BY <1>2 DEF Burst
<1>4. b.number = number /\ b.left = left /\ b.config = c /\ b.live = live
    BY <1>3
<1>5. \A l : [[number |-> number, left |-> left, config |-> c, live |-> live] EXCEPT !.left = l]
                = [number |-> number, left |-> l, config |-> c, live |-> live]
    OBVIOUS
<1>6. \A l : [[number |-> number, left |-> left, config |-> c, live |-> live] EXCEPT !.live = l]
                = [number |-> number, left |-> left, config |-> c, live |-> l]
    OBVIOUS
<1>7. QED
    BY <1>3, <1>4, <1>5, <1>6, Zenon DEF Burst

LEMMA LeftBursts ==
    ASSUME BurstType, Leave, NEW b \in bursts'
    PROVE  \E a \in bursts : b = Burst(a.number, a.left, a.config, FALSE)
<1>1. PICK a \in bursts : b = [a EXCEPT !.live = FALSE]
    BY DEF Leave
<1>2. [a EXCEPT !.live = FALSE] = Burst(a.number, a.left, a.config, FALSE)
    BY BurstIs
<1>3. QED
    BY <1>1, <1>2

(* The steps that check, as one.                                           *)
Checks(c, live) ==
    /\ Fire(c, live)
    /\ UNCHANGED <<open, config, display, polled, setBack>>
    /\ edited' \in BOOLEAN /\ bursting' \in BOOLEAN
    /\ BurstType'

LEMMA CheckSteps ==
    ASSUME TypeInv, \/ Click \/ StartBurst
                    \/ \E b \in bursts : FireInBurst(b)
    PROVE  \E c \in Config, live \in BOOLEAN : Checks(c, live)
<1>1. /\ config \in Config /\ bursting \in BOOLEAN /\ edited \in BOOLEAN /\ BurstType
    BY DEF TypeInv, TypeOK
<1>2. CASE Click
    <2>1. Fire(config, TRUE)
        BY <1>2 DEF Click, Closure
    <2>2. BurstType'
        BY <1>1, <1>2 DEF Click, BurstType
    <2>3. QED
        BY <1>1, <1>2, <2>1, <2>2 DEF Click, Checks
<1>3. CASE StartBurst
    <2>1. Fire(config, TRUE)
        BY <1>3 DEF StartBurst, Closure
    <2>2. PICK n : bursts' = bursts \cup {Burst(n, BurstSize - 1, config, TRUE)}
        BY <1>3 DEF StartBurst, Closure, Burst
    <2>3. BurstType'
        BY <1>1, <2>2, Zenon DEF BurstType
    <2>4. QED
        BY <1>1, <1>3, <2>1, <2>3 DEF StartBurst, Checks
<1>4. ASSUME NEW b \in bursts, FireInBurst(b)
      PROVE  \E c \in Config, live \in BOOLEAN : Checks(c, live)
    <2>1. b.config \in Config /\ b.live \in BOOLEAN /\ Fire(b.config, b.live)
        BY <1>1, <1>4, BurstIs DEF FireInBurst
    <2>2. bursts' = (bursts \ {b}) \cup {Burst(b.number, b.left - 1, b.config, b.live)}
        BY <1>1, <1>4, BurstIs, Zenon DEF FireInBurst
    <2>3. BurstType'
        BY <1>1, <2>1, <2>2, Zenon DEF BurstType
    <2>4. QED
        BY <1>1, <1>4, <2>1, <2>3 DEF FireInBurst, Checks, history
<1>5. QED
    BY <1>2, <1>3, <1>4

LEMMA TypeStep == TypeInv /\ [Next]_vars => TypeInv'
<1> SUFFICES ASSUME TypeInv, [Next]_vars
             PROVE  TypeInv'
    OBVIOUS
<1>1. ASSUME NEW c \in Config, NEW live \in BOOLEAN, Checks(c, live)
      PROVE  TypeInv'
    <2>1. /\ TableTypes' /\ now' = now
          /\ result' # None => result'.config \in Config
          /\ log' \in Seq(Entry) /\ Len(log') <= LogSize
        BY <1>1, FireIs DEF Checks
    <2>2. QED
        BY <1>1, <2>1 DEF Checks, TableTypes, TypeInv, TypeOK
<1>2. ASSUME NEW b \in bursts, EndBurst(b)
      PROVE  TypeInv'
    BY <1>2 DEF EndBurst, TypeInv, TypeOK, BurstType, bounds, history
<1>3. CASE HandleReset
    <2>1. /\ log' \in Seq(Entry) /\ Len(log') = 0
        BY <1>3 DEF HandleReset, LogAfterReset
    <2>2. Len(log') <= LogSize
        BY <2>1, Sizes
    <2>3. TableTypes' /\ now' = now
        BY <1>3 DEF HandleReset, Reset, Delete, Gone, TableTypes, TypeInv, TypeOK
    <2>4. QED
        BY <1>3, <2>1, <2>2, <2>3 DEF HandleReset, TableTypes, TypeInv, TypeOK, BurstType
<1>4. ASSUME NEW c \in Config, Configure(c)
      PROVE  TypeInv'
    <2>1. Key(c) \in Keys /\ Key(config) \in Keys
        BY KeyIsKey DEF TypeInv, TypeOK
    <2>2. display'.key \in Keys /\ polled' \subseteq Keys
        BY <1>4, <2>1 DEF Configure, Peek, Cleared, TypeInv, TypeOK
    <2>3. QED
        BY <1>4, <2>2 DEF Configure, redisVars, TypeInv, TypeOK, BurstType
<1>5. CASE Poll
    <2>1. display'.key \in Keys
        BY <1>5 DEF Poll, Peek, TypeInv, TypeOK
    <2>2. QED
        BY <1>5, <2>1 DEF Poll, bounds, history, TypeInv, TypeOK, BurstType
<1>6. CASE Leave
    <2>1. \A b \in bursts' : \E a \in bursts : b = Burst(a.number, a.left, a.config, FALSE)
        BY <1>6, LeftBursts DEF TypeInv
    <2>2. \A a \in bursts : a.config \in Config
        BY BurstIs DEF TypeInv
    <2>3. BurstType'
        BY <2>1, <2>2, Zenon DEF BurstType
    <2>4. QED
        BY <1>6, <2>3 DEF Leave, Cleared, bounds, history, TypeInv, TypeOK
<1>7. CASE Open
    <2>1. First \in Config /\ Key(First) \in Keys
        BY PlaygroundAssumption, KeyIsKey
    <2>2. display'.key \in Keys /\ polled' \subseteq Keys
        BY <1>7, <2>1 DEF Open, Peek
    <2>3. log' \in Seq(Entry) /\ Len(log') = 0
        BY <1>7 DEF Open
    <2>4. Len(log') <= LogSize
        BY <2>3, Sizes
    <2>5. QED
        BY <1>7, <2>1, <2>2, <2>3, <2>4 DEF Open, TypeInv, TypeOK, BurstType
<1>8. CASE Tick
    BY <1>8, Sizes DEF Tick, pageVars, history, TypeInv, TypeOK, BurstType
<1>9. CASE SetBack
    BY <1>9, Sizes DEF SetBack, pageVars, TypeInv, TypeOK, BurstType
<1>10. CASE UNCHANGED vars
    BY <1>10 DEF vars, pageVars, history, TypeInv, TypeOK, BurstType
<1>11. QED
    BY <1>1, <1>2, <1>3, <1>4, <1>5, <1>6, <1>7, <1>8, <1>9, <1>10, Steps, CheckSteps

LEMMA TypeInvariant == Spec => []TypeInv
<1>1. Init => TypeInv
    <2> SUFFICES ASSUME Init PROVE TypeInv
        OBVIOUS
    <2>1. /\ First \in Config /\ Key(First) \in Keys
          /\ 0 <= LogSize /\ 0 <= MaxTime
        BY PlaygroundAssumption, KeyIsKey, Sizes
    <2>2. log \in Seq(Entry) /\ Len(log) = 0
        BY DEF Init
    <2>3. display.key \in Keys
        BY <2>1 DEF Init, Peek
    <2>4. DOMAIN tb = {} /\ DOMAIN fw = {}
        BY DEF Init, Nothing
    <2>5. QED
        BY <2>1, <2>2, <2>3, <2>4 DEF Init, TypeInv, TypeOK, BurstType
<1>2. QED
    BY <1>1, TypeStep, PTL DEF Spec

(* The simulator's amounts and counts, the page's configuration, whatever  *)
(* number, also a fraction or a negative one, is typed, its log and its    *)
(* display keep their types; the log never grows past its limit            *)
(* (page.tsx:126-132 and 204-223, simulator.ts:86-134).                    *)
THEOREM TypeCorrect == Spec => []TypeOK
<1>1. TypeInv => TypeOK
    BY DEF TypeInv
<1>2. QED
    BY <1>1, TypeInvariant, PTL

-----------------------------------------------------------------------------
(***************************************************************************)
(* The simulator answers as the scripts do.                                *)
(***************************************************************************)
SyncInv == HashSync /\ CounterSync /\ DOMAIN counter \subseteq Keys

LEMMA BucketCheckSyncs ==
    ASSUME TypeInv, SyncInv, NEW k \in Keys, Whole(k), CheckTokens(k), RunBucketScript(k),
           setBack' = setBack
    PROVE  SyncInv'
<1> DEFINE left == TokenAnswer(k).tokens
<1>1. /\ tb' = Put(tb, k, [tokens |-> left, last |-> now])
      /\ hash' = Put(hash, k, [tokens |-> left, last |-> now, expireAt |-> now + 2 * k.window])
    BY BucketsAgree, BucketFacts DEF CheckTokens, RunBucketScript, SyncInv, TypeInv
<1> HIDE DEF left
<1>2. HashSync'
    <2>1. /\ DOMAIN hash = {x \in DOMAIN tb : Whole(x)}
          /\ \A x \in DOMAIN hash :
               hash[x] = [tokens |-> tb[x].tokens, last |-> tb[x].last,
                          expireAt |-> tb[x].last + 2 * x.window]
        BY DEF SyncInv, HashSync
    <2>2. /\ DOMAIN tb' = DOMAIN tb \cup {k} /\ DOMAIN hash' = DOMAIN hash \cup {k}
          /\ tb'[k] = [tokens |-> left, last |-> now]
          /\ hash'[k] = [tokens |-> left, last |-> now, expireAt |-> now + 2 * k.window]
          /\ \A x \in DOMAIN tb \ {k} : tb'[x] = tb[x]
          /\ \A x \in DOMAIN hash \ {k} : hash'[x] = hash[x]
        BY <1>1 DEF Put
    <2>3. DOMAIN hash' = {x \in DOMAIN tb' : Whole(x)}
        BY <2>1, <2>2
    <2>4. \A x \in DOMAIN hash' :
            hash'[x] = [tokens |-> tb'[x].tokens, last |-> tb'[x].last,
                        expireAt |-> tb'[x].last + 2 * x.window]
        BY <2>1, <2>2
    <2>5. QED
        BY <2>3, <2>4 DEF HashSync, Whole
<1>3. CounterSync'
    <2>1. now' = now /\ fw' = fw /\ counter' = counter
        BY DEF CheckTokens, RunBucketScript
    <2>2. \A x : WindowStart(x)' = WindowStart(x)
        BY <2>1 DEF WindowStart, NowSecs
    <2>3. QED
        BY <2>1, <2>2
        DEF CounterSync, PastStarts, SyncInv, Tallies, End, Window!Starts, Window!Absent, Whole
<1>4. DOMAIN counter' \subseteq Keys
    BY DEF RunBucketScript, SyncInv
<1>5. QED
    BY <1>2, <1>3, <1>4 DEF SyncInv

(* What a check of a window leaves, while time does not go back.           *)
LEMMA CheckWindowIs ==
    ASSUME TypeInv, PastStarts, NEW k \in Keys, CheckWindow(k)
    PROVE  /\ LET count == IF FreshWindow(k) THEN 0 ELSE fw[k].count
              IN  IF WindowAnswer(k).allowed
                  THEN fw' = Put(fw, k, [count |-> count + 1, start |-> WindowStart(k)])
                  ELSE fw' = fw
           /\ \A x : WindowStart(x)' = WindowStart(x)
           /\ PastStarts'
<1> DEFINE count == IF FreshWindow(k) THEN 0 ELSE fw[k].count
           start == WindowStart(k)
<1>1. WindowAnswer(k).allowed = HasRoom(k, count)
    BY CountIs
<1>2. start \in Nat
    BY StartIs
<1>3. IF WindowAnswer(k).allowed
      THEN fw' = Put(fw, k, [count |-> count + 1, start |-> start])
      ELSE fw' = fw
    <2>1. CASE FreshWindow(k)
        <3>1. count = 0 /\ 0 + 1 = 1
            BY <2>1
        <3>2. WindowAnswer(k).allowed
            BY <2>1 DEF WindowAnswer
        <3>3. fw' = Put(fw, k, [count |-> 1, start |-> start])
            BY <2>1 DEF CheckWindow
        <3>4. count + 1 = 1
            BY <3>1
        <3> HIDE DEF count
        <3>5. QED
            BY <3>2, <3>3, <3>4
    <2>2. CASE ~FreshWindow(k)
        <3>1. /\ k \in DOMAIN fw /\ fw[k].start = start
              /\ fw[k] = [count |-> fw[k].count, start |-> start]
            BY <1>2, <2>2 DEF FreshWindow, PastStarts, TypeInv, TypeOK, WindowState
        <3>2. [fw[k] EXCEPT !.count = @ + 1] = [count |-> fw[k].count + 1, start |-> start]
            BY <3>1
        <3>3. fw' = IF HasRoom(k, fw[k].count)
                    THEN [fw EXCEPT ![k] = [count |-> fw[k].count + 1, start |-> start]]
                    ELSE fw
            BY <2>2, <3>2 DEF CheckWindow
        <3>4. QED
            BY <1>1, <2>2, <3>1, <3>3 DEF Put
    <2>3. QED
        BY <2>1, <2>2
<1>4. \A x : WindowStart(x)' = WindowStart(x)
    BY DEF CheckWindow, WindowStart, NowSecs
<1>5. PastStarts'
    <2> HIDE DEF count
    <2>1. start <= start
        BY <1>2
    <2> HIDE DEF start
    <2>2. \A x \in DOMAIN fw' : \/ x \in DOMAIN fw /\ fw'[x] = fw[x]
                                \/ x = k /\ fw'[x].start = start
        <3>1. CASE fw' = fw
            BY <3>1
        <3>2. CASE fw' = Put(fw, k, [count |-> count + 1, start |-> start])
            BY <3>2 DEF Put
        <3>3. QED
            BY <1>3, <3>1, <3>2
    <2>3. QED
        BY <1>4, <2>1, <2>2 DEF PastStarts, start
<1>6. QED
    BY <1>3, <1>4, <1>5

(* One count more in the key of the current window.                        *)
LEMMA TalliesStep ==
    ASSUME NEW k, NEW c, NEW s \in Window!Starts, NEW n,
           c = [t \in Window!Starts |-> c[t]],
           \A t \in Window!Starts : t > s => c[t] = Window!Absent
    PROVE  Tallies(k, [c EXCEPT ![s] = [count |-> n, expireAt |-> End(k, s)]],
                   [count |-> n, start |-> s * TicksPerSec])
<1> DEFINE new == [c EXCEPT ![s] = [count |-> n, expireAt |-> End(k, s)]]
<1>1. /\ new = [t \in Window!Starts |-> new[t]]
      /\ new[s] = [count |-> n, expireAt |-> End(k, s)]
      /\ \A t \in Window!Starts : t # s => new[t] = c[t]
    OBVIOUS
<1>2. \A t \in Window!Starts : t > s => t # s
    BY DEF Window!Starts
<1> HIDE DEF new
<1>3. Tallies(k, new, [count |-> n, start |-> s * TicksPerSec])
    BY <1>1, <1>2 DEF Tallies
<1>4. QED
    BY <1>3 DEF new

(* The counters a script finds have nothing after its own window.          *)
LEMMA NothingLater ==
    ASSUME TypeInv, CounterSync, ~setBack, NEW k \in Keys, Whole(k)
    PROVE  /\ CountersOf(k) = [t \in Window!Starts |-> CountersOf(k)[t]]
           /\ \A t \in Window!Starts : t > ScriptStart(k) => CountersOf(k)[t] = Window!Absent
<1> DEFINE start == ScriptStart(k)
           old   == CountersOf(k)
<1>1. start \in Nat /\ WindowStart(k) = start * TicksPerSec
    BY WindowFacts
<1>2. CASE k \notin DOMAIN fw
    BY <1>2 DEF CountersOf, CounterSync
<1>3. CASE k \in DOMAIN fw
    <2>1. /\ old = counter[k] /\ Tallies(k, counter[k], fw[k])
          /\ fw[k].start <= WindowStart(k)
        BY <1>3 DEF CountersOf, CounterSync, PastStarts
    <2> HIDE DEF old, start
    <2>2. PICK s \in Window!Starts :
             /\ fw[k].start = s * TicksPerSec
             /\ old = [t \in Window!Starts |-> old[t]]
             /\ \A t \in Window!Starts : t > s => old[t] = Window!Absent
        BY <2>1 DEF Tallies
    <2>3. s \in Nat /\ \A t \in Window!Starts : t \in Nat
        BY DEF Window!Starts
    <2>4. s <= start
        <3>1. start + 1 <= s => (start + 1) * TicksPerSec <= s * TicksPerSec
            BY <1>1, <2>3, Sizes, ProductMonotone
        <3>2. /\ (start + 1) * TicksPerSec = start * TicksPerSec + TicksPerSec
              /\ start * TicksPerSec \in Int /\ s * TicksPerSec \in Int
            BY <1>1, <2>3, Sizes
        <3>3. s * TicksPerSec <= start * TicksPerSec
            BY <1>1, <2>1, <2>2
        <3>4. ~(start + 1 <= s)
            BY <3>1, <3>2, <3>3, Sizes
        <3>5. QED
            BY <1>1, <2>3, <3>4
    <2>5. \A t \in Window!Starts : t > start => old[t] = Window!Absent
        BY <1>1, <2>2, <2>3, <2>4
    <2>6. QED
        BY <2>2, <2>5 DEF old, start
<1>4. QED
    BY <1>2, <1>3

LEMMA WindowCheckSyncs ==
    ASSUME TypeInv, SyncInv, NEW k \in Keys, Whole(k), CheckWindow(k), RunWindowScript(k),
           setBack' = setBack
    PROVE  SyncInv'
<1> DEFINE start == ScriptStart(k)
           old   == CountersOf(k)
           read  == CounterOf(k, start)
           count == IF FreshWindow(k) THEN 0 ELSE fw[k].count
<1>1. /\ start \in Window!Starts /\ now \in Nat
      /\ now < End(k, start) /\ End(k, start) \in Nat
      /\ WindowStart(k) = start * TicksPerSec
      /\ Window!WindowEnd(Stamped(k)) * TicksPerSec = End(k, start)
    BY WindowFacts DEF TypeInv, TypeOK
<1>2. now' = now /\ tb' = tb /\ hash' = hash
    BY DEF CheckWindow, RunWindowScript
<1>3. HashSync'
    BY <1>2 DEF HashSync, SyncInv, Whole
<1>4. ASSUME ~setBack
      PROVE  CounterSync'
    <2>1. CounterSync /\ PastStarts
        BY <1>4 DEF SyncInv, CounterSync
    <2>2. /\ IF WindowAnswer(k).allowed
             THEN fw' = Put(fw, k, [count |-> count + 1, start |-> start * TicksPerSec])
             ELSE fw' = fw
          /\ PastStarts'
        BY <1>1, <2>1, CheckWindowIs
    <2>3. WindowAnswer(k).allowed = WindowScriptAnswer(k).allowed
        BY <1>4, <2>1, WindowsAgree
    <2>4. IF FreshWindow(k) THEN read = Window!Absent
          ELSE read = [count |-> fw[k].count, expireAt |-> End(k, start)]
        BY <1>4, <2>1, CounterRead
    <2>5. Window!Incremented(read, Stamped(k)) = [count |-> count + 1, expireAt |-> End(k, start)]
        <3>1. CASE FreshWindow(k)
            <4>1. Window!ExpireAt(1, End(k, start)) = [count |-> 1, expireAt |-> End(k, start)]
                BY <1>1 DEF Window!ExpireAt
            <4>2. Window!Incremented(read, Stamped(k)) = [count |-> 1, expireAt |-> End(k, start)]
                BY <1>1, <2>4, <3>1, <4>1, Zenon DEF Window!Incremented
            <4>3. QED
                BY <3>1, <4>2
        <3>2. CASE ~FreshWindow(k)
            BY <2>4, <3>2 DEF Window!Incremented, Window!Absent
        <3>3. QED
            BY <3>1, <3>2
    <2> DEFINE new == [old EXCEPT ![start] = [count |-> count + 1, expireAt |-> End(k, start)]]
    <2>6. IF WindowAnswer(k).allowed THEN counter' = Put(counter, k, new) ELSE counter' = counter
        BY <2>3, <2>5 DEF RunWindowScript
    <2>7. Tallies(k, new, [count |-> count + 1, start |-> start * TicksPerSec])
        BY <1>1, <1>4, <2>1, NothingLater, TalliesStep
    <2> HIDE DEF new, count, start
    <2>8. /\ DOMAIN counter = {x \in DOMAIN fw : Whole(x)}
          /\ \A x \in DOMAIN counter : Tallies(x, counter[x], fw[x])
        BY <1>4, <2>1 DEF CounterSync
    <2>9. /\ DOMAIN counter' = {x \in DOMAIN fw' : Whole(x)}
          /\ \A x \in DOMAIN counter' : Tallies(x, counter'[x], fw'[x])
        BY <2>2, <2>6, <2>7, <2>8 DEF Put
    <2>10. QED
        BY <2>2, <2>9
        DEF CounterSync, PastStarts, Tallies, End, Window!Starts, Window!Absent, Whole
<1>5. DOMAIN counter' \subseteq Keys
    BY DEF RunWindowScript, Put, SyncInv
<1>6. QED
    BY <1>3, <1>4, <1>5 DEF SyncInv, CounterSync

(* No script runs beside a key with a fraction.                            *)
LEMMA OddCheckSyncs ==
    ASSUME TypeInv, SyncInv, NEW k \in Keys, ~Whole(k), CheckTokens(k) \/ CheckWindow(k),
           UNCHANGED redisVars, setBack' = setBack
    PROVE  SyncInv'
<1>1. hash' = hash /\ counter' = counter /\ now' = now
    BY DEF redisVars, CheckTokens, CheckWindow
<1>2. HashSync'
    <2>1. /\ DOMAIN hash = {x \in DOMAIN tb : Whole(x)}
          /\ \A x \in DOMAIN hash :
               hash[x] = [tokens |-> tb[x].tokens, last |-> tb[x].last,
                          expireAt |-> tb[x].last + 2 * x.window]
        BY DEF SyncInv, HashSync
    <2>2. /\ {x \in DOMAIN tb' : Whole(x)} = {x \in DOMAIN tb : Whole(x)}
          /\ \A x \in DOMAIN hash : tb'[x] = tb[x]
        BY <2>1 DEF CheckTokens, CheckWindow, Put
    <2>3. QED
        BY <1>1, <2>1, <2>2 DEF HashSync, Whole
<1>3. ASSUME ~setBack
      PROVE  CounterSync'
    <2>1. /\ PastStarts /\ DOMAIN counter = {x \in DOMAIN fw : Whole(x)}
          /\ \A x \in DOMAIN counter : Tallies(x, counter[x], fw[x])
        BY <1>3 DEF SyncInv, CounterSync
    <2>2. \A x : WindowStart(x)' = WindowStart(x)
        BY <1>1 DEF WindowStart, NowSecs
    <2>3. CASE fw' = fw
        BY <1>1, <2>1, <2>2, <2>3
        DEF CounterSync, PastStarts, Tallies, End, Window!Starts, Window!Absent, Whole
    <2>4. CASE fw' # fw
        <3>1. CheckWindow(k)
            BY <2>4 DEF CheckTokens
        <3>2. /\ PastStarts'
              /\ \E v : fw' = Put(fw, k, v)
            BY <2>1, <2>4, <3>1, CheckWindowIs
        <3>3. /\ {x \in DOMAIN fw' : Whole(x)} = {x \in DOMAIN fw : Whole(x)}
              /\ \A x \in DOMAIN counter : fw'[x] = fw[x]
            BY <2>1, <3>2 DEF Put
        <3>4. /\ DOMAIN counter' = {x \in DOMAIN fw' : Whole(x)}
              /\ \A x \in DOMAIN counter' : Tallies(x, counter'[x], fw'[x])
            BY <1>1, <2>1, <3>3
        <3>5. QED
            BY <3>2, <3>4
            DEF CounterSync, PastStarts, Tallies, End, Window!Starts, Window!Absent, Whole
    <2>5. QED
        BY <2>3, <2>4
<1>4. QED
    BY <1>1, <1>2, <1>3 DEF SyncInv, CounterSync

LEMMA FireSyncs ==
    ASSUME TypeInv, SyncInv, NEW c \in Config, NEW live, Fire(c, live), setBack' = setBack
    PROVE  SyncInv'
<1>1. Key(c) \in Keys
    BY KeyIsKey
<1>2. CASE ~Whole(Key(c))
    <2>1. (CheckTokens(Key(c)) \/ CheckWindow(Key(c))) /\ UNCHANGED redisVars
        BY <1>2 DEF Fire, Check, RunScript
    <2>2. QED
        BY <1>1, <1>2, <2>1, OddCheckSyncs
<1>3. CASE Whole(Key(c)) /\ c.algorithm = "token_bucket"
    <2>1. CheckTokens(Key(c)) /\ RunBucketScript(Key(c))
        BY <1>3 DEF Fire, Check, RunScript
    <2>2. QED
        BY <1>1, <1>3, <2>1, BucketCheckSyncs
<1>4. CASE Whole(Key(c)) /\ c.algorithm # "token_bucket"
    <2>1. CheckWindow(Key(c)) /\ RunWindowScript(Key(c))
        BY <1>4 DEF Fire, Check, RunScript
    <2>2. QED
        BY <1>1, <1>4, <2>1, WindowCheckSyncs
<1>5. QED
    BY <1>2, <1>3, <1>4

LEMMA SyncStep == TypeInv /\ SyncInv /\ [Next]_vars => SyncInv'
<1> SUFFICES ASSUME TypeInv, SyncInv, [Next]_vars
             PROVE  SyncInv'
    OBVIOUS
<1>1. ASSUME NEW c \in Config, NEW live \in BOOLEAN, Checks(c, live)
      PROVE  SyncInv'
    BY <1>1, FireSyncs DEF Checks
<1>2. CASE HandleReset
    <2>1. /\ tb' = Delete(tb, Gone(tb, config.id)) /\ fw' = Delete(fw, Gone(fw, config.id))
          /\ hash' = Delete(hash, Gone(tb, config.id))
          /\ counter' = Delete(counter, Gone(fw, config.id))
          /\ now' = now /\ setBack' = setBack
        BY <1>2 DEF HandleReset, Reset, ForgetScripts
    <2>2. HashSync'
        BY <2>1 DEF SyncInv, HashSync, Delete, Whole, Gone
    <2>3. CounterSync'
        <3>1. \A x : WindowStart(x)' = WindowStart(x)
            BY <2>1 DEF WindowStart, NowSecs
        <3>2. ASSUME ~setBack
              PROVE  /\ DOMAIN counter' = {k \in DOMAIN fw' : Whole(k)}
                     /\ \A k \in DOMAIN fw' : k \in DOMAIN fw /\ fw'[k] = fw[k]
                     /\ \A k \in DOMAIN counter' : k \in DOMAIN counter /\ counter'[k] = counter[k]
            BY <2>1, <3>2 DEF SyncInv, CounterSync, Delete
        <3>3. ASSUME ~setBack
              PROVE  /\ \A k \in DOMAIN fw : fw[k].start <= WindowStart(k)
                     /\ \A k \in DOMAIN counter : k \in DOMAIN fw /\ Tallies(k, counter[k], fw[k])
            BY <3>3 DEF SyncInv, CounterSync, PastStarts
        <3>4. ASSUME ~setBack
              PROVE  /\ \A k \in DOMAIN fw' : fw'[k].start <= WindowStart(k)'
                     /\ \A k \in DOMAIN counter' : Tallies(k, counter'[k], fw'[k])
            <4>1. \A k \in DOMAIN fw' : fw'[k].start <= WindowStart(k)'
                BY <3>1, <3>2, <3>3, <3>4
            <4>2. \A k \in DOMAIN counter' : k \in DOMAIN fw'
                BY <3>2, <3>4
            <4>3. QED
                BY <3>2, <3>3, <3>4, <4>1, <4>2
        <3>5. QED
            BY <2>1, <3>2, <3>4
            DEF CounterSync, PastStarts, Tallies, End, Window!Starts, Window!Absent, Whole
    <2>4. DOMAIN counter' \subseteq Keys
        BY <2>1 DEF Delete, SyncInv
    <2>5. QED
        BY <2>2, <2>3, <2>4 DEF SyncInv
<1>3. CASE Tick
    <2>1. tb' = tb /\ fw' = fw /\ hash' = hash /\ counter' = counter /\ now' = now + 1
          /\ setBack' = setBack
        BY <1>3 DEF Tick, redisVars, history
    <2>2. HashSync'
        BY <2>1 DEF SyncInv, HashSync, Whole
    <2>3. \A k \in Keys : /\ WindowStart(k) \in Nat /\ WindowStart(k)' \in Nat
                          /\ WindowStart(k) <= WindowStart(k)'
        <3>1. now \in Nat /\ now + 1 \in Nat /\ now <= now + 1
            BY DEF TypeInv, TypeOK
        <3>2. \A k : WindowStart(k) = StartAt(k, now) /\ WindowStart(k)' = StartAt(k, now + 1)
            BY <2>1 DEF WindowStart, NowSecs, StartAt, SecondAt
        <3>3. QED
            BY <3>1, <3>2, StartsAreOrdered
    <2>4. \A k \in DOMAIN fw : k \in Keys /\ fw[k].start \in Nat
        BY DEF TypeInv, TypeOK, WindowState
    <2>5. CounterSync'
        <3>1. ASSUME ~setBack
              PROVE  PastStarts'
            <4>1. \A k \in DOMAIN fw : fw[k].start <= WindowStart(k)
                BY <3>1 DEF SyncInv, CounterSync, PastStarts
            <4>2. \A k \in DOMAIN fw : fw[k].start <= WindowStart(k)'
                BY <2>3, <2>4, <4>1
            <4>3. QED
                BY <2>1, <4>2 DEF PastStarts
        <3>2. QED
            BY <2>1, <3>1
            DEF SyncInv, CounterSync, Tallies, End, Window!Starts, Window!Absent, Whole
    <2>6. QED
        BY <2>1, <2>2, <2>5 DEF SyncInv
<1>4. CASE SetBack
    BY <1>4 DEF SetBack, redisVars, SyncInv, HashSync, CounterSync, Whole
<1>5. ASSUME tb' = tb, fw' = fw, hash' = hash, counter' = counter, now' = now, setBack' = setBack
      PROVE  SyncInv'
    <2>1. \A x : WindowStart(x)' = WindowStart(x)
        BY <1>5 DEF WindowStart, NowSecs
    <2>2. QED
        BY <1>5, <2>1
        DEF SyncInv, HashSync, CounterSync, PastStarts, Tallies, End, Window!Starts,
            Window!Absent, Whole
<1>6. ASSUME NEW b \in bursts, EndBurst(b)
      PROVE  SyncInv'
    BY <1>5, <1>6 DEF EndBurst, redisVars, history
<1>7. ASSUME NEW c \in Config, Configure(c)
      PROVE  SyncInv'
    BY <1>5, <1>7 DEF Configure, redisVars
<1>8. CASE Poll \/ Leave \/ Open \/ UNCHANGED vars
    BY <1>5, <1>8 DEF Poll, Leave, Open, vars, redisVars, history
<1>9. QED
    BY <1>1, <1>2, <1>3, <1>4, <1>6, <1>7, <1>8, Steps, CheckSteps

LEMMA SyncInvariant == Spec => []SyncInv
<1>1. Init => SyncInv
    BY DEF Init, Nothing, SyncInv, HashSync, CounterSync, PastStarts, Whole
<1>2. QED
    BY <1>1, SyncStep, TypeInvariant, PTL DEF Spec

LEMMA KeysInUse ==
    ASSUME TypeInv, SyncInv
    PROVE  InUse \subseteq Keys
<1>1. DOMAIN tb \subseteq Keys /\ DOMAIN fw \subseteq Keys /\ Key(config) \in Keys
    BY KeyIsKey DEF TypeInv, TypeOK
<1>2. DOMAIN hash \subseteq Keys /\ DOMAIN counter \subseteq Keys
    BY <1>1 DEF SyncInv, HashSync
<1>3. QED
    BY <1>1, <1>2 DEF InUse

(* The demo's claim to "implement the same math" as the backend            *)
(* (simulator.ts:22): any key in use that the API would take is answered   *)
(* as by the script, in every field, whatever checks, bursts, edits,       *)
(* resets and expiries came before; of the fixed window while the clock is *)
(* not set back.                                                           *)
THEOREM AnswersAsTheScripts == Spec => []AgreesWithScripts
<1>1. TypeInv /\ SyncInv => AgreesWithScripts
    <2> SUFFICES ASSUME TypeInv, SyncInv, NEW k \in InUse, Whole(k)
                 PROVE  /\ TokenAnswer(k) = BucketScriptAnswer(k)
                        /\ ~setBack => WindowAnswer(k) = WindowScriptAnswer(k)
        BY DEF AgreesWithScripts
    <2>1. ASSUME k \in Keys
          PROVE  /\ TokenAnswer(k) = BucketScriptAnswer(k)
                 /\ ~setBack => WindowAnswer(k) = WindowScriptAnswer(k)
        BY <2>1, BucketsAgree, WindowsAgree DEF SyncInv, TypeInv
    <2>2. QED
        BY <2>1, KeysInUse
<1>2. QED
    BY <1>1, SyncInvariant, TypeInvariant, PTL

-----------------------------------------------------------------------------
(***************************************************************************)
(* What is shown.                                                          *)
(***************************************************************************)
(* What is peeked at is what a check would find, also after the clock was  *)
(* When the panel is fresh, an empty grid means that a check is refused,   *)
(* and with a fixed window a full bar does, for limits with more tokens    *)
(* than cells too (page.tsx:12-13 and 333).                                *)
THEOREM EmptyIsRefused == Spec => []EmptyMeansRefused
<1>1. TypeInv => EmptyMeansRefused
    <2> SUFFICES ASSUME TypeInv, display = Peek(Key(config))
                 PROVE  IF config.algorithm = "token_bucket"
                        THEN StateScreen.filled = 0 => ~Answer(config).allowed
                        ELSE StateScreen.filled = StateScreen.cells => ~Answer(config).allowed
        BY DEF EmptyMeansRefused
    <2> DEFINE k      == Key(config)
               tokens == PeekTokens(k)
               count  == PeekWindow(k).count
    <2>1. /\ k \in Keys /\ k.limit = config.limit /\ k.limit \in Nat \ {0}
          /\ tokens \in Nat /\ count \in Nat
          /\ TokenAnswer(k).allowed = (tokens >= Unit)
          /\ WindowAnswer(k).allowed = HasRoom(k, count)
          /\ Unit <= k.limit
        BY KeyIsKey, KeyFacts, PeekIs, AnswersAreBounded DEF TypeInv, TypeOK
    <2>2. display.tokens = tokens /\ display.window.count = count
        BY DEF Peek
    <2> HIDE DEF tokens, count, k
    <2>3. ASSUME config.algorithm = "token_bucket", Answer(config).allowed
          PROVE  StateScreen.filled # 0
        <3>1. tokens >= Unit
            BY <2>1, <2>3 DEF Answer, k
        <3>2. 1 <= (2 * tokens + Unit) \div (2 * Unit)
            <4>1. /\ 2 * tokens + Unit \in Int /\ 2 * Unit \in Int /\ 2 * Unit > 0
                  /\ 1 * (2 * Unit) <= 2 * tokens + Unit
                BY <2>1, <3>1, Sizes
            <4>2. QED
                BY <4>1, QuotientAtLeast
        <3>3. (2 * tokens + Unit) \div (2 * Unit) \in Int
            BY <2>1, Sizes, Division
        <3>4. Cells(config.limit) \in Nat /\ 1 <= Cells(config.limit)
            <4>1. 1 * Unit <= config.limit
                BY <2>1, Sizes
            <4>2. config.limit \div Unit \in Int /\ 1 <= config.limit \div Unit
                BY <2>1, <4>1, Sizes, Division, QuotientAtLeast
            <4>3. QED
                BY <4>2, Sizes DEF Cells, AtMost
        <3>5. FilledCells(tokens, config.limit) # 0
            BY <3>2, <3>3, <3>4 DEF FilledCells, AtMost
        <3>6. QED
            BY <2>2, <2>3, <3>5 DEF StateScreen
    <2>4. ASSUME config.algorithm # "token_bucket", Answer(config).allowed
          PROVE  StateScreen.filled # StateScreen.cells
        <3>1. HasRoom(k, count)
            BY <2>1, <2>4 DEF Answer, k
        <3>2. count * Unit \in Int /\ count * Unit < config.limit
            BY <2>1, <3>1, Sizes DEF HasRoom
        <3>3. AtMost(config.limit, count * Unit) # config.limit
            BY <2>1, <3>2 DEF AtMost
        <3>4. QED
            BY <2>2, <2>4, <3>3 DEF StateScreen
    <2>5. QED
        BY <2>3, <2>4
<1>2. QED
    BY <1>1, TypeInvariant, PTL

(***************************************************************************)
(* A page that is open has at most one burst of its own, and the flag says *)
(* whether it has one; the bursts of pages that were left are not live.    *)
(***************************************************************************)
LiveInv ==
    /\ ~open => \A b \in bursts : ~b.live
    /\ open => /\ bursting <=> \E b \in bursts : b.live
               /\ \A b, c \in bursts : b.live /\ c.live => b = c

LEMMA LiveStep == TypeInv /\ LiveInv /\ [Next]_vars => LiveInv'
<1> SUFFICES ASSUME TypeInv, LiveInv, [Next]_vars
             PROVE  LiveInv'
    OBVIOUS
<1>1. CASE StartBurst
    <2>1. PICK n : bursts' = bursts \cup {Burst(n, BurstSize - 1, config, TRUE)}
        BY <1>1 DEF StartBurst, Closure, Burst
    <2>2. Burst(n, BurstSize - 1, config, TRUE).live
        BY DEF Burst
    <2>3. open /\ open' = open /\ ~bursting /\ bursting' = TRUE
        BY <1>1 DEF StartBurst, MayBurst
    <2>4. \A b \in bursts : ~b.live
        BY <2>3 DEF LiveInv
    <2>5. QED
        BY <2>1, <2>2, <2>3, <2>4 DEF LiveInv
<1>2. ASSUME NEW b \in bursts, FireInBurst(b)
      PROVE  LiveInv'
    <2>1. PICK n : n = Burst(b.number, b.left - 1, b.config, b.live)
        OBVIOUS
    <2>2. bursts' = (bursts \ {b}) \cup {n} /\ open' = open /\ bursting' = bursting
        BY <1>2, <2>1, BurstIs, Zenon DEF FireInBurst, TypeInv
    <2>3. n.live = b.live
        BY <2>1 DEF Burst
    <2>4. QED
        BY <2>2, <2>3, Zenon DEF LiveInv
<1>3. ASSUME NEW b \in bursts, EndBurst(b)
      PROVE  LiveInv'
    <2>1. /\ bursts' = bursts \ {b} /\ open' = open
          /\ bursting' = IF b.live THEN FALSE ELSE bursting
        BY <1>3 DEF EndBurst
    <2>2. QED
        BY <2>1 DEF LiveInv
<1>4. CASE Leave
    <2>1. \A b \in bursts' : \E a \in bursts : b = Burst(a.number, a.left, a.config, FALSE)
        BY <1>4, LeftBursts DEF TypeInv
    <2>2. \A b \in bursts' : ~b.live
        BY <2>1 DEF Burst
    <2>3. QED
        BY <1>4, <2>2 DEF Leave, LiveInv
<1>5. CASE Open
    BY <1>5 DEF Open, LiveInv
<1>6. CASE Click \/ HandleReset \/ Poll \/ Tick \/ SetBack \/ UNCHANGED vars
    <2>1. UNCHANGED <<open, bursting, bursts>>
        BY <1>6 DEF Click, HandleReset, Poll, Tick, SetBack, vars, pageVars
    <2>2. QED
        BY <2>1 DEF LiveInv
<1>7. ASSUME NEW c \in Config, Configure(c)
      PROVE  LiveInv'
    BY <1>7 DEF Configure, LiveInv
<1>8. QED
    BY <1>1, <1>2, <1>3, <1>4, <1>5, <1>6, <1>7, Steps

LEMMA LiveInvariant == Spec => []LiveInv
<1>1. Init => LiveInv
    BY DEF Init, LiveInv
<1>2. QED
    BY <1>1, LiveStep, TypeInvariant, PTL DEF Spec

(* The burst button is disabled while a burst of this page runs, and only  *)
(* then, whatever loops of pages that were left go on beside it            *)
(* (page.tsx:141-151).                                                     *)
THEOREM OneBurstAtATime == Spec => []OneBurst
<1>1. TypeInv /\ LiveInv => OneBurst
    BY DEF TypeInv, TypeOK, LiveInv, OneBurst
<1>2. QED
    BY <1>1, LiveInvariant, TypeInvariant, PTL

(***************************************************************************)
(* An open page polls and displays its own configuration, and unless it    *)
(* was edited since, its result and its burst are of that configuration    *)
(* too.                                                                    *)
(***************************************************************************)
ShownInv ==
    /\ IF open THEN polled = {Key(config)} /\ display.key = Key(config) ELSE polled = {}
    /\ (open /\ ~edited) =>
         /\ \A b \in bursts : b.live => b.config = config
         /\ result # None => /\ result.config = config
                            /\ result.answer.remaining < config.limit

(* What a check leaves on the page.                                        *)
LEMMA ResultIs ==
    ASSUME TypeInv, NEW c \in Config, Fire(c, TRUE)
    PROVE  result'.config = c /\ result'.answer.remaining < c.limit
<1>1. result' = [config |-> c, answer |-> Answer(c)]
    BY DEF Fire
<1>2. QED
    BY <1>1, AnswerIs

LEMMA ShownStep == TypeInv /\ LiveInv /\ ShownInv /\ [Next]_vars => ShownInv'
<1> SUFFICES ASSUME TypeInv, LiveInv, ShownInv, [Next]_vars
             PROVE  ShownInv'
    OBVIOUS
<1>1. config \in Config /\ First \in Config
    BY PlaygroundAssumption DEF TypeInv, TypeOK
<1>2. CASE Click
    <2>1. result'.config = config /\ result'.answer.remaining < config.limit
        BY <1>1, <1>2, ResultIs DEF Click, Closure
    <2>2. ASSUME ~edited'
          PROVE  \A b \in bursts : b.live => b.config = config
        BY <1>2, <2>2 DEF Click, LiveInv, ShownInv
    <2>3. QED
        BY <1>2, <2>1, <2>2 DEF Click, ShownInv
<1>3. CASE StartBurst
    <2>1. result'.config = config /\ result'.answer.remaining < config.limit
        BY <1>1, <1>3, ResultIs DEF StartBurst, Closure
    <2>2. PICK n : bursts' = bursts \cup {Burst(n, BurstSize - 1, config, TRUE)}
        BY <1>3 DEF StartBurst, Closure, Burst
    <2>3. Burst(n, BurstSize - 1, config, TRUE).config = config
        BY DEF Burst
    <2>4. \A b \in bursts : ~b.live
        BY <1>3 DEF StartBurst, MayBurst, LiveInv
    <2>5. \A b \in bursts' : b.live => b.config = config
        BY <2>2, <2>3, <2>4
    <2>6. QED
        BY <1>3, <2>1, <2>5 DEF StartBurst, ShownInv
<1>4. ASSUME NEW b \in bursts, FireInBurst(b)
      PROVE  ShownInv'
    <2>1. PICK n : n = Burst(b.number, b.left - 1, b.config, b.live)
        OBVIOUS
    <2>2. bursts' = (bursts \ {b}) \cup {n}
        BY <1>4, <2>1, BurstIs, Zenon DEF FireInBurst, TypeInv
    <2>3. n.live = b.live /\ n.config = b.config
        BY <2>1 DEF Burst
    <2>4. UNCHANGED <<open, config, display, polled, edited>>
        BY <1>4 DEF FireInBurst, history
    <2>5. b.config \in Config /\ b.live \in BOOLEAN
        BY BurstIs DEF TypeInv
    <2>6. CASE b.live
        <3>1. result'.config = b.config /\ result'.answer.remaining < b.config.limit
            BY <1>4, <2>5, <2>6, ResultIs DEF FireInBurst
        <3>2. QED
            BY <2>2, <2>3, <2>4, <2>6, <3>1 DEF ShownInv
    <2>7. CASE ~b.live
        <3>1. result' = result
            BY <1>4, <2>7 DEF FireInBurst, Fire
        <3>2. QED
            BY <2>2, <2>3, <2>4, <2>7, <3>1 DEF ShownInv
    <2>8. QED
        BY <2>6, <2>7
<1>5. ASSUME NEW b \in bursts, EndBurst(b)
      PROVE  ShownInv'
    BY <1>5 DEF EndBurst, history, ShownInv
<1>6. CASE HandleReset
    BY <1>6 DEF HandleReset, ShownInv
<1>7. ASSUME NEW c \in Config, Configure(c)
      PROVE  ShownInv'
    BY <1>7 DEF Configure, Peek, Cleared, ShownInv
<1>8. CASE Poll
    <2>1. PICK k \in polled : display' = Peek(k)
        BY <1>8 DEF Poll
    <2>2. QED
        BY <1>8, <2>1 DEF Poll, Peek, history, ShownInv
<1>9. CASE Leave
    BY <1>9 DEF Leave, Cleared, ShownInv
<1>10. CASE Open
    <2>1. /\ open' = TRUE /\ config' = First /\ result' = None /\ bursts' = bursts
          /\ display'.key = Key(First) /\ polled' = {Key(First)}
        BY <1>10 DEF Open, Peek
    <2>2. \A b \in bursts : ~b.live
        BY <1>10 DEF Open, LiveInv
    <2>3. QED
        BY <2>1, <2>2 DEF ShownInv
<1>11. CASE Tick \/ SetBack \/ UNCHANGED vars
    BY <1>11 DEF Tick, SetBack, vars, pageVars, history, ShownInv
<1>12. QED
    BY <1>2, <1>3, <1>4, <1>5, <1>6, <1>7, <1>8, <1>9, <1>10, <1>11, Steps

LEMMA ShownInvariant == Spec => []ShownInv
<1>1. Init => ShownInv
    BY DEF Init, Peek, ShownInv
<1>2. QED
    BY <1>1, ShownStep, TypeInvariant, LiveInvariant, PTL DEF Spec

(* The panel shows the state of the configuration that is shown, whichever *)
(* intervals and bursts are running (page.tsx:108-121), and the headers do *)
(* not mix two configurations unless it was edited after the check or the  *)
(* start of the burst (312-313).                                           *)
THEOREM ShowsItsOwn == Spec => []ShowsItsConfiguration
<1>1. ShownInv => ShowsItsConfiguration
    BY DEF ShownInv, ShowsItsConfiguration, ResultScreen
<1>2. QED
    BY <1>1, ShownInvariant, PTL

-----------------------------------------------------------------------------
(***************************************************************************)
(* The log never shows more of a window than its limit, rounded up.  It    *)
(* shows no more than the simulator counted, which is forgotten only when  *)
(* the log is cleared: of a window that is over, the count reached that    *)
(* many at most.                                                           *)
(***************************************************************************)
AllowedIn(l, c, s) == {n \in DOMAIN l : l[n].allowed /\ l[n].config = c /\ l[n].start = s}

Most(k) == CeilDiv(k.limit, Unit)

Room(k, s) ==
    IF k \notin DOMAIN fw \/ s > fw[k].start THEN 0
    ELSE IF s = fw[k].start THEN fw[k].count ELSE Most(k)

LogInv ==
    ~setBack =>
        /\ \A k \in DOMAIN fw : fw[k].count <= Most(k)
        /\ \A c \in Config, s \in Nat :
             c.algorithm = "fixed_window" => Cardinality(AllowedIn(log, c, s)) <= Room(Key(c), s)

LEMMA AllowedIsFinite ==
    ASSUME NEW l \in Seq(Entry), NEW c, NEW s
    PROVE  IsFiniteSet(AllowedIn(l, c, s)) /\ Cardinality(AllowedIn(l, c, s)) \in Nat
<1>1. Len(l) \in Nat /\ DOMAIN l = 1 .. Len(l)
    BY LenProperties
<1>2. IsFiniteSet(1 .. Len(l))
    BY <1>1, FS_Interval
<1>3. AllowedIn(l, c, s) \subseteq 1 .. Len(l)
    BY <1>1 DEF AllowedIn
<1>4. IsFiniteSet(AllowedIn(l, c, s))
    BY <1>2, <1>3, FS_Subset
<1>5. QED
    BY <1>4, FS_CardinalityType

(* A new entry pushes the others back by one, or out.                      *)
LEMMA LoggedShows ==
    ASSUME log \in Seq(Entry), NEW e \in Entry, NEW c, NEW s
    PROVE  Cardinality(AllowedIn(Logged(e), c, s))
             <= Cardinality(AllowedIn(log, c, s))
                + (IF e.allowed /\ e.config = c /\ e.start = s THEN 1 ELSE 0)
<1> DEFINE old   == AllowedIn(log, c, s)
           new   == AllowedIn(Logged(e), c, s)
           older == new \ {1}
           shift == [n \in older |-> n - 1]
<1>1. IsFiniteSet(old) /\ Cardinality(old) \in Nat
    BY AllowedIsFinite
<1>2. IsFiniteSet(new) /\ Cardinality(new) \in Nat
    BY LoggedIs, AllowedIsFinite
<1>3. /\ \A n \in older : n \in Nat /\ n - 1 \in old
      /\ 1 \in new => e.allowed /\ e.config = c /\ e.start = s
    <2>1. /\ DOMAIN Logged(e) = 1 .. Len(Logged(e)) /\ Len(Logged(e)) \in Nat \ {0}
          /\ Logged(e)[1] = e
          /\ \A n \in 2 .. Len(Logged(e)) : n - 1 \in DOMAIN log /\ Logged(e)[n] = log[n - 1]
        BY LoggedIs
    <2>2. \A n \in older : n \in 2 .. Len(Logged(e))
        BY <2>1 DEF AllowedIn
    <2>3. QED
        BY <2>1, <2>2 DEF AllowedIn
<1> HIDE DEF old, new
<1>4. Cardinality(older) <= Cardinality(old)
    <2>1. shift \in [older -> old]
        BY <1>3
    <2>2. \A m, n \in older : m - 1 = n - 1 => m = n
        BY <1>3
    <2>3. IsInjective(shift)
        BY <2>2 DEF IsInjective
    <2>4. shift \in Injection(older, old)
        BY <2>1, <2>3 DEF Injection
    <2>5. QED
        BY <1>1, <2>4, FS_Injection
<1>5. Cardinality(older) = IF 1 \in new THEN Cardinality(new) - 1 ELSE Cardinality(new)
    BY <1>2, FS_RemoveElement
<1> HIDE DEF older
<1>6. Cardinality(new) <= Cardinality(old)
                            + (IF e.allowed /\ e.config = c /\ e.start = s THEN 1 ELSE 0)
    BY <1>1, <1>2, <1>3, <1>4, <1>5
<1>7. QED
    BY <1>6 DEF new, old

LEMMA MostIs ==
    ASSUME NEW k \in Keys
    PROVE  /\ Most(k) \in Nat \ {0}
           /\ \A count \in Nat : HasRoom(k, count) => count + 1 <= Most(k)
<1> DEFINE total == k.limit + Unit - 1
<1>1. k.limit \in Nat \ {0} /\ Unit <= k.limit
    BY KeyFacts
<1>2. total \in Int /\ Most(k) = total \div Unit
    BY <1>1, Sizes DEF Most, CeilDiv
<1>3. ASSUME NEW count \in Nat, HasRoom(k, count)
      PROVE  count + 1 <= Most(k)
    <2>1. count * Unit \in Int /\ (count + 1) * Unit = count * Unit + Unit
        BY Sizes
    <2>2. (count + 1) * Unit <= total
        BY <1>1, <1>3, <2>1, Sizes DEF HasRoom
    <2> HIDE DEF total
    <2>3. QED
        BY <1>2, <2>2, Sizes, QuotientAtLeast
<1>4. HasRoom(k, 0)
    BY <1>1, Sizes DEF HasRoom
<1>5. Most(k) \in Int
    BY <1>2, Sizes, Division
<1>6. 1 <= Most(k)
    BY <1>3, <1>4
<1>7. QED
    BY <1>3, <1>5, <1>6

LEMMA RoomIs ==
    ASSUME TypeInv, LogInv, ~setBack, NEW k \in Keys, NEW s \in Nat
    PROVE  Room(k, s) \in Nat /\ Room(k, s) <= Most(k)
<1>1. Most(k) \in Nat \ {0}
    BY MostIs
<1>2. \A x \in DOMAIN fw : /\ fw[x].start \in Nat /\ fw[x].count \in Nat
                           /\ fw[x].count <= Most(x)
    BY DEF TypeInv, TypeOK, WindowState, LogInv
<1>3. QED
    BY <1>1, <1>2 DEF Room

(* A check of key k leaves no less room anywhere, and where it is allowed  *)
(* and counted, one more.                                                  *)
LEMMA RoomStep ==
    ASSUME TypeInv, SyncInv, LogInv, ~setBack, NEW k \in Keys, CheckWindow(k)
    PROVE  /\ \A x \in DOMAIN fw' : fw'[x].count <= Most(x)
           /\ \A x \in Keys, s \in Nat :
                /\ Room(x, s) \in Nat /\ Room(x, s)' \in Nat
                /\ Room(x, s) + (IF WindowAnswer(k).allowed /\ x = k /\ s = WindowStart(k)
                                 THEN 1 ELSE 0)
                     <= Room(x, s)'
<1> DEFINE count == IF FreshWindow(k) THEN 0 ELSE fw[k].count
           start == WindowStart(k)
<1>1. /\ \A x \in Keys : Most(x) \in Nat \ {0}
      /\ \A x \in DOMAIN fw : /\ x \in Keys /\ fw[x].start \in Nat /\ fw[x].count \in Nat
                              /\ fw[x].count <= Most(x)
      /\ start \in Nat
    BY MostIs, StartIs DEF TypeInv, TypeOK, WindowState, LogInv
<1>2. PastStarts
    BY DEF SyncInv, CounterSync
<1>3. /\ IF WindowAnswer(k).allowed
         THEN fw' = Put(fw, k, [count |-> count + 1, start |-> start])
         ELSE fw' = fw
      /\ count \in Nat /\ WindowAnswer(k).allowed = HasRoom(k, count)
    BY <1>2, CheckWindowIs, CountIs
<1>4. \A x \in Keys, s \in Nat : Room(x, s) \in Nat
    BY <1>1 DEF Room
<1>5. CASE ~WindowAnswer(k).allowed
    <2>1. fw' = fw
        BY <1>3, <1>5
    <2>2. \A x, s : Room(x, s)' = Room(x, s)
        BY <2>1 DEF Room, Most
    <2>3. QED
        BY <1>1, <1>4, <1>5, <2>1, <2>2
<1>6. CASE WindowAnswer(k).allowed
    <2>1. fw' = Put(fw, k, [count |-> count + 1, start |-> start])
        BY <1>3, <1>6
    <2>2. count \in Nat /\ count + 1 <= Most(k)
        BY <1>3, <1>6, MostIs
    <2>3. k \in DOMAIN fw => \/ fw[k].start < start
                             \/ fw[k].start = start /\ fw[k].count = count
        BY <1>1, <1>2 DEF FreshWindow, PastStarts
    <2> HIDE DEF count, start
    <2>4. /\ DOMAIN fw' = DOMAIN fw \cup {k}
          /\ fw'[k].count = count + 1 /\ fw'[k].start = start
          /\ \A x \in DOMAIN fw \ {k} : fw'[x] = fw[x]
        BY <2>1 DEF Put
    <2>5. \A x \in DOMAIN fw' : fw'[x].count <= Most(x)
        BY <1>1, <2>2, <2>4
    <2>6. \A s \in Nat : Room(k, s)' = IF s > start THEN 0
                                       ELSE IF s = start THEN count + 1 ELSE Most(k)
        BY <2>4 DEF Room, Most
    <2>7. \A s \in Nat : Room(k, s) + (IF s = start THEN 1 ELSE 0) <= Room(k, s)'
        BY <1>1, <2>2, <2>3, <2>6 DEF Room
    <2>8. \A x \in Keys \ {k}, s \in Nat : Room(x, s)' = Room(x, s)
        BY <2>4 DEF Room, Most
    <2>9. \A s \in Nat : Room(k, s)' \in Nat
        BY <1>1, <2>2, <2>6
    <2>10. QED
        BY <1>4, <1>6, <2>5, <2>7, <2>8, <2>9 DEF start
<1>7. QED
    BY <1>5, <1>6

LEMMA LogStep == TypeInv /\ SyncInv /\ LogInv /\ [Next]_vars => LogInv'
<1> SUFFICES ASSUME TypeInv, SyncInv, LogInv, [Next]_vars, ~setBack'
             PROVE  LogInv'
    BY DEF LogInv
<1>1. ~setBack
    BY DEF Next, Click, StartBurst, FireInBurst, EndBurst, HandleReset, SetIdentifier,
           SetAlgorithm, SetLimit, SetWindowSeconds, Configure, Poll, Leave, Open, Tick, SetBack,
           history, vars
<1>2. /\ \A x \in DOMAIN fw : fw[x].count <= Most(x)
      /\ \A d \in Config, s \in Nat :
           d.algorithm = "fixed_window" => Cardinality(AllowedIn(log, d, s)) <= Room(Key(d), s)
      /\ log \in Seq(Entry)
    BY <1>1 DEF LogInv, TypeInv, TypeOK
<1>3. ASSUME NEW c \in Config, NEW live \in BOOLEAN, Checks(c, live)
      PROVE  LogInv'
    <2> DEFINE e == EntryOf(c)
    <2>1. /\ Check(c) /\ Key(c) \in Keys
          /\ e \in Entry /\ e.config = c /\ e.start = WindowStart(Key(c))
          /\ e.allowed = Answer(c).allowed
        BY <1>3, KeyIsKey, AnswerIs DEF Checks, Fire, EntryOf
    <2>2. log' = IF live THEN Logged(e) ELSE log
        BY <1>3, FireIs DEF Checks
    <2> HIDE DEF e
    <2>3. ASSUME NEW d \in Config, NEW s \in Nat
          PROVE  /\ Cardinality(AllowedIn(log, d, s)) \in Nat
                 /\ Cardinality(AllowedIn(log', d, s)) \in Nat
                 /\ Cardinality(AllowedIn(log', d, s))
                      <= Cardinality(AllowedIn(log, d, s))
                         + (IF e.allowed /\ c = d /\ s = WindowStart(Key(c)) THEN 1 ELSE 0)
        <3>1. Cardinality(AllowedIn(log, d, s)) \in Nat
            BY <1>2, AllowedIsFinite
        <3>2. CASE live
            <4>1. Cardinality(AllowedIn(Logged(e), d, s)) \in Nat
                BY <1>2, <2>1, LoggedIs, AllowedIsFinite
            <4>2. QED
                BY <1>2, <2>1, <2>2, <3>1, <3>2, <4>1, LoggedShows
        <3>3. CASE ~live
            BY <2>2, <3>1, <3>3
        <3>4. QED
            BY <3>2, <3>3
    <2>4. CASE c.algorithm = "fixed_window"
        <3>1. CheckWindow(Key(c)) /\ Answer(c) = WindowAnswer(Key(c))
            BY <2>1, <2>4 DEF Check, Answer
        <3>2. \A x \in DOMAIN fw' : fw'[x].count <= Most(x)
            BY <1>1, <2>1, <3>1, RoomStep
        <3>3. ASSUME NEW d \in Config, NEW s \in Nat, d.algorithm = "fixed_window"
              PROVE  Cardinality(AllowedIn(log', d, s)) <= Room(Key(d), s)'
            <4>1. /\ Room(Key(d), s) \in Nat /\ Room(Key(d), s)' \in Nat
                  /\ Room(Key(d), s) + (IF e.allowed /\ Key(d) = Key(c) /\ s = WindowStart(Key(c))
                                        THEN 1 ELSE 0)
                       <= Room(Key(d), s)'
                BY <1>1, <2>1, <3>1, KeyIsKey, RoomStep
            <4>2. Cardinality(AllowedIn(log, d, s)) <= Room(Key(d), s)
                BY <1>2, <3>3
            <4>3. QED
                BY <2>3, <4>1, <4>2
        <3>4. QED
            BY <3>2, <3>3 DEF LogInv
    <2>5. CASE c.algorithm # "fixed_window"
        <3>1. fw' = fw
            BY <2>1, <2>5 DEF Check, CheckTokens
        <3>2. \A x, s : Room(x, s)' = Room(x, s)
            BY <3>1 DEF Room, Most
        <3>3. ASSUME NEW d \in Config, NEW s \in Nat, d.algorithm = "fixed_window"
              PROVE  Cardinality(AllowedIn(log', d, s)) <= Cardinality(AllowedIn(log, d, s))
            BY <2>3, <2>5, <3>3
        <3>4. \A d \in Config, s \in Nat :
                d.algorithm = "fixed_window" => Cardinality(AllowedIn(log', d, s)) <= Room(Key(d), s)
            <4> SUFFICES ASSUME NEW d \in Config, NEW s \in Nat, d.algorithm = "fixed_window"
                         PROVE  Cardinality(AllowedIn(log', d, s)) <= Room(Key(d), s)
                OBVIOUS
            <4>1. Room(Key(d), s) \in Nat
                BY <1>1, KeyIsKey, RoomIs
            <4>2. Cardinality(AllowedIn(log', d, s)) <= Cardinality(AllowedIn(log, d, s))
                BY <3>3
            <4>3. Cardinality(AllowedIn(log, d, s)) <= Room(Key(d), s)
                BY <1>2
            <4>4. QED
                BY <2>3, <4>1, <4>2, <4>3
        <3>5. QED
            BY <1>2, <3>1, <3>2, <3>4 DEF LogInv
    <2>6. QED
        BY <2>4, <2>5
<1>4. ASSUME log' = << >>,
             DOMAIN fw' \subseteq DOMAIN fw, \A x \in DOMAIN fw' : fw'[x] = fw[x],
             TypeInv'
      PROVE  LogInv'
    <2>1. \A d, s : Cardinality(AllowedIn(log', d, s)) = 0
        BY <1>4, FS_EmptySet DEF AllowedIn
    <2>2. \A x \in DOMAIN fw' : fw'[x].count <= Most(x)
        BY <1>2, <1>4
    <2>3. \A d \in Config, s \in Nat : Room(Key(d), s)' \in Nat
        <3>1. \A d \in Config : Key(d) \in Keys /\ Most(Key(d)) \in Nat
            BY KeyIsKey, MostIs
        <3>2. \A x \in DOMAIN fw' : fw'[x].count \in Nat
            BY <1>4 DEF TypeInv, TypeOK, WindowState
        <3>3. QED
            BY <3>1, <3>2 DEF Room, Most
    <2>4. QED
        BY <2>1, <2>2, <2>3 DEF LogInv
<1>5. TypeInv'
    BY TypeStep
<1>6. CASE HandleReset
    BY <1>4, <1>5, <1>6 DEF HandleReset, LogAfterReset, Reset, Delete
<1>7. CASE Open
    BY <1>4, <1>5, <1>7 DEF Open
<1>8. ASSUME UNCHANGED <<fw, log>>
      PROVE  LogInv'
    BY <1>1, <1>8 DEF LogInv, AllowedIn, Room, Most
<1>9. ASSUME NEW b \in bursts, EndBurst(b)
      PROVE  LogInv'
    BY <1>8, <1>9 DEF EndBurst
<1>10. ASSUME NEW c \in Config, Configure(c)
      PROVE  LogInv'
    BY <1>8, <1>10 DEF Configure
<1>11. CASE Poll \/ Leave \/ Tick \/ SetBack \/ UNCHANGED vars
    BY <1>8, <1>11 DEF Poll, Leave, Tick, SetBack, pageVars, vars
<1>12. QED
    BY <1>3, <1>6, <1>7, <1>9, <1>10, <1>11, Steps, CheckSteps

LEMMA LogInvariant == Spec => []LogInv
<1>1. Init => LogInv
    <2> SUFFICES ASSUME Init PROVE LogInv
        OBVIOUS
    <2>1. log = << >> /\ DOMAIN fw = {}
        BY DEF Init, Nothing
    <2>2. \A d, s : Cardinality(AllowedIn(log, d, s)) = 0
        BY <2>1, FS_EmptySet DEF AllowedIn
    <2>3. QED
        BY <2>1, <2>2 DEF LogInv, Room
<1>2. QED
    BY <1>1, LogStep, TypeInvariant, SyncInvariant, PTL DEF Spec

(* The log never shows more requests allowed in one window than its limit, *)
(* rounded up where the input let a fraction through, over edits, resets   *)
(* and bursts that outlive them, unless the clock was set back             *)
(* (page.tsx:126-139, simulator.ts:107-134).                               *)
THEOREM LogsKeepWithinLimits == Spec => []LogWithinLimit
<1>1. TypeInv /\ SyncInv /\ LogInv => LogWithinLimit
    <2> SUFFICES ASSUME TypeInv, SyncInv, LogInv, ~setBack,
                        NEW n \in DOMAIN log, log[n].config.algorithm = "fixed_window"
                 PROVE  Cardinality({m \in DOMAIN log : /\ log[m].allowed
                                                        /\ log[m].config = log[n].config
                                                        /\ log[m].start = log[n].start})
                          <= CeilDiv(log[n].config.limit, Unit)
        BY DEF LogWithinLimit
    <2> DEFINE c == log[n].config
               s == log[n].start
    <2>1. log \in Seq(Entry) /\ log[n] \in Entry
        BY LenProperties, ElementOfSeq DEF TypeInv, TypeOK
    <2>2. c \in Config /\ s \in Nat
        BY <2>1 DEF Entry
    <2>3. Cardinality(AllowedIn(log, c, s)) <= Room(Key(c), s)
        BY <2>2 DEF LogInv
    <2>4. /\ Room(Key(c), s) \in Nat /\ Room(Key(c), s) <= Most(Key(c))
          /\ Most(Key(c)) \in Nat /\ Key(c).limit = c.limit
        BY <2>2, KeyIsKey, MostIs, RoomIs
    <2>5. Cardinality(AllowedIn(log, c, s)) \in Nat
        BY <2>1, AllowedIsFinite
    <2>6. Cardinality(AllowedIn(log, c, s)) <= Most(Key(c))
        BY <2>3, <2>4, <2>5
    <2>7. QED
        BY <2>4, <2>6 DEF AllowedIn, Most
<1>2. QED
    BY <1>1, LogInvariant, TypeInvariant, SyncInvariant, PTL
=============================================================================
