------------------------- MODULE TokenBucketProofs -------------------------
(***************************************************************************)
(* What holds of the token bucket for every set of callers and policies,   *)
(* every clock skew, number of retries and number of restarts: how much it *)
(* admits, what its answers promise, and that, reached over an unreliable  *)
(* connection, it implements Limiter.                                      *)
(***************************************************************************)
EXTENDS TokenBucket, RedisClientProofs

-----------------------------------------------------------------------------
(* Arithmetic.                                                             *)

LEMMA Distribute ==
    ASSUME NEW x \in Int, NEW y \in Int, NEW z \in Int
    PROVE  x * (y + z) = x * y + x * z
OBVIOUS

LEMMA ProductMonotone ==
    ASSUME NEW x \in Int, NEW y \in Int, NEW z \in Nat, x <= y
    PROVE  x * z <= y * z
<1>1. PICK d \in Nat : y = x + d
    <2>1. y - x \in Nat /\ y = x + (y - x)
        OBVIOUS
    <2>2. QED
        BY <2>1
<1>2. d * z >= 0
    OBVIOUS
<1>3. y * z = x * z + d * z
    BY <1>1
<1>4. QED
    BY <1>2, <1>3

LEMMA CeilDivType ==
    ASSUME NEW x \in Nat, NEW y \in Nat \ {0}
    PROVE  CeilDiv(x, y) \in Nat
BY DEF CeilDiv

LEMMA Division ==
    ASSUME NEW x \in Int, NEW y \in Int, y > 0
    PROVE  /\ x \div y \in Int
           /\ (x \div y) * y <= x
           /\ x < (x \div y) * y + y
BY Z3

LEMMA CeilDivCovers ==
    ASSUME NEW x \in Int, NEW y \in Nat \ {0}
    PROVE  CeilDiv(x, y) \in Int /\ x <= CeilDiv(x, y) * y
<1> DEFINE q == (x + y - 1) \div y
<1>1. q \in Int /\ x + y - 1 < q * y + y
    BY Division
<1> HIDE DEF q
<1>2. q * y \in Int
    BY <1>1
<1>3. x <= q * y
    BY <1>1, <1>2
<1>4. QED
    BY <1>1, <1>3 DEF CeilDiv, q

LEMMA Associate ==
    ASSUME NEW x \in Int, NEW y \in Int, NEW z \in Int
    PROVE  x * (y * z) = (x * y) * z
OBVIOUS

-----------------------------------------------------------------------------
(* The amounts of the script.                                              *)

LEMMA PolicyFacts ==
    ASSUME NEW p \in Policies
    PROVE  /\ Limit[p] \in Nat \ {0}
           /\ WindowSeconds[p] \in Nat \ {0}
           /\ Rate[p] \in Nat \ {0}
           /\ Rate[p] <= TopRate
           /\ Capacity(p) \in Nat
           /\ Unit <= Capacity(p)
           /\ Capacity(p) <= TopCapacity
           /\ WindowTicks(p) \in Nat
           /\ Ttl(p) \in Nat
           /\ Rate[p] * TicksPerSec \in Nat \ {0}
<1>1. /\ Limit[p] \in Nat \ {0}
      /\ WindowSeconds[p] \in Nat \ {0}
      /\ Rate[p] \in Nat \ {0}
      /\ Rate[p] <= TopRate
      /\ Capacity(p) <= TopCapacity
      /\ Unit \in Nat \ {0}
      /\ TicksPerSec \in Nat \ {0}
    BY TokenBucketAssumption, RedisClientAssumption
<1>2. 1 * Unit <= Limit[p] * Unit
    BY <1>1, ProductMonotone
<1>3. Capacity(p) \in Nat
    BY <1>1 DEF Capacity
<1>4. WindowTicks(p) \in Nat /\ Ttl(p) \in Nat
    BY <1>1 DEF WindowTicks, Ttl
<1>5. 1 * TicksPerSec <= Rate[p] * TicksPerSec
    BY <1>1, ProductMonotone
<1>6. QED
    BY <1>1, <1>2, <1>3, <1>4, <1>5 DEF Capacity

LEMMA CommandFacts ==
    ASSUME TypeOK, NEW m \in wire
    PROVE  /\ m \in Command
           /\ m.policy \in Policies
           /\ m.stamp \in Nat
BY DEF TypeOK, ClientTypeOK, Command

LEMMA ReadType ==
    ASSUME TypeOK
    PROVE  Read \in Bucket \cup {Absent}
BY DEF TypeOK, Read

(* What a script finds is no more than the capacity, and no more than what *)
(* the key holds and the refill of the time by which the stamp is newer.   *)
LEMMA FoundBounds ==
    ASSUME NEW b \in Bucket \cup {Absent}, NEW p \in Policies, NEW n \in Nat
    PROVE  /\ Found(b, p, n) \in Nat
           /\ Found(b, p, n) <= Capacity(p)
           /\ b # Absent =>
                Found(b, p, n) <= b.tokens + TopRate * AtLeast(0, n - b.last)
<1>1. /\ Capacity(p) \in Nat
      /\ Rate[p] \in Nat
      /\ TopRate \in Nat
      /\ Rate[p] <= TopRate
    BY PolicyFacts, TokenBucketAssumption
<1>2. CASE b = Absent
    BY <1>1, <1>2 DEF Found
<1>3. CASE b # Absent
    <2> DEFINE e == AtLeast(0, n - b.last)
    <2>1. b.tokens \in Nat /\ b.last \in Nat
        BY <1>3 DEF Bucket
    <2>2. e \in Nat
        BY <2>1 DEF AtLeast
    <2>3. e * Rate[p] \in Nat /\ Rate[p] * e <= TopRate * e
        BY <1>1, <2>2, ProductMonotone
    <2>4. Found(b, p, n) = AtMost(Capacity(p), b.tokens + e * Rate[p])
        BY <1>3 DEF Found, Refilled
    <2>5. e * Rate[p] = Rate[p] * e
        BY <1>1, <2>2
    <2> HIDE DEF e
    <2>6. TopRate * e \in Nat
        BY <1>1, <2>2
    <2>7. Found(b, p, n) \in Nat /\ Found(b, p, n) <= Capacity(p)
        BY <1>1, <2>1, <2>3, <2>4 DEF AtMost
    <2>8. Found(b, p, n) <= b.tokens + e * Rate[p]
        BY <1>1, <2>1, <2>3, <2>4 DEF AtMost
    <2>9. Found(b, p, n) <= b.tokens + TopRate * e
        BY <2>1, <2>3, <2>5, <2>6, <2>7, <2>8
    <2>10. QED
        BY <1>3, <2>7, <2>9 DEF e
<1>4. QED
    BY <1>2, <1>3

LEMMA StoredBounds ==
    ASSUME NEW x \in Nat, NEW p \in Policies, NEW t \in Stored(x, p)
    PROVE  t \in Nat /\ t <= Capacity(p) /\ t <= x + StoreErr
BY PolicyFacts, TokenBucketAssumption DEF Stored, AtLeast, AtMost

-----------------------------------------------------------------------------
(* Type correctness.                                                       *)

LEMMA InitType == Init => TypeOK /\ ClientInv /\ StampInv
BY ClientInitInv DEF Init, TypeOK, ClientInv, StampInv, ClientInit

LEMMA RunScriptType ==
    ASSUME TypeOK, NEW m \in wire, RunScript(m), ClientTypeOK'
    PROVE  TypeOK'
<1> DEFINE found   == Found(Read, m.policy, m.stamp)
           allowed == found >= Unit
           left    == IF allowed THEN found - Unit ELSE found
<1>1. /\ m.policy \in Policies
      /\ m.stamp \in Nat
    BY CommandFacts
<1>2. found \in Nat
    BY <1>1, ReadType, FoundBounds
<1>3. Unit \in Nat \ {0} /\ TicksPerSec \in Nat
    BY TokenBucketAssumption, RedisClientAssumption
<1>4. left \in Nat
    BY <1>2, <1>3
<1>5. PICK t \in Stored(left, m.policy) :
        bucket' = [tokens |-> t, last |-> m.stamp,
                   expireAt |-> now + Ttl(m.policy)]
    BY DEF RunScript
<1>6. bucket' \in Bucket
    BY <1>1, <1>4, <1>5, StoredBounds, PolicyFacts DEF Bucket, TypeOK, ClientTypeOK
<1>7. promise' \in Promise \cup {NoPromise}
    <2>1. CASE allowed
        BY <2>1 DEF RunScript
    <2>2. CASE ~allowed
        <3>1. left < Unit
            BY <1>2, <1>3, <2>2
        <3>2. Unit - left \in Nat
            BY <1>3, <1>4, <3>1
        <3>3. RetryAfter(left, m.policy) \in Nat
            BY <1>1, <3>2, PolicyFacts, CeilDivType DEF RetryAfter
        <3>4. m.stamp + RetryAfter(left, m.policy) * TicksPerSec \in Nat
            BY <1>1, <1>3, <3>3
        <3>5. promise' \in {promise,
                            [policy |-> m.policy, run |-> runs,
                             due |-> m.stamp + RetryAfter(left, m.policy) * TicksPerSec]}
            BY <2>2 DEF RunScript
        <3>6. QED
            BY <1>1, <3>4, <3>5 DEF Promise, TypeOK
    <2>3. QED
        BY <2>1, <2>2
<1>8. rewound' \in Nat
    BY <1>1 DEF RunScript, TypeOK, AtLeast
<1>9. QED
    BY <1>1, <1>6, <1>7, <1>8 DEF RunScript, TypeOK

LEMMA RestartType ==
    ASSUME TypeOK, Restart
    PROVE  TypeOK'
<1>1. ClientTypeOK'
    BY DEF Restart, clientVars, TypeOK, ClientTypeOK
<1>2. CASE snapshot = Absent
    BY <1>1, <1>2 DEF Restart, TypeOK
<1>3. CASE snapshot # Absent
    <2>1. snapshot.last \in Nat
        BY <1>3 DEF TypeOK, Bucket
    <2>2. rewound + AtLeast(0, mark - snapshot.last) \in Nat
        BY <2>1 DEF TypeOK, AtLeast
    <2>3. QED
        BY <1>1, <1>3, <2>1, <2>2 DEF Restart, TypeOK
<1>4. QED
    BY <1>2, <1>3

TypeInv == TypeOK /\ ClientInv /\ StampInv

LEMMA TypeStep == TypeInv /\ [Next]_vars => TypeInv'
<1> SUFFICES ASSUME TypeInv, [Next]_vars
             PROVE  TypeInv'
    OBVIOUS
<1> USE DEF TypeInv
<1>1. ASSUME NEW c \in Callers, ClientStep(c)
      PROVE  TypeInv'
    <2>1. ClientInv'
        BY <1>1, BeginInv, CallerStepInv DEF ClientStep
    <2>2. StampInv'
        BY <1>1, StampStep DEF ClientStep
    <2>3. QED
        BY <1>1, <2>1, <2>2 DEF ClientStep, TypeOK, ClientInv, bucketVars, history
<1>2. ASSUME NEW m \in wire, RunScript(m)
      PROVE  TypeInv'
    <2> DEFINE allowed == Found(Read, m.policy, m.stamp) >= Unit
    <2>1. allowed \in BOOLEAN /\ Execute(m, allowed)
        BY <1>2 DEF RunScript
    <2>2. ClientInv' /\ StampInv'
        BY <2>1, ExecuteInv, ExecuteStamp
    <2>3. TypeOK'
        BY <1>2, <2>2, RunScriptType DEF ClientInv
    <2>4. QED
        BY <2>2, <2>3
<1>3. CASE Dump
    <2>1. UNCHANGED clientVars
        BY <1>3 DEF Dump
    <2>2. ClientInv' /\ StampInv'
        BY <2>1, ClientStutterInv, ClientStutterStamp
    <2>3. QED
        BY <1>3, <2>2, ReadType DEF Dump, TypeOK, ClientInv, history
<1>4. CASE Restart
    <2>1. UNCHANGED clientVars
        BY <1>4 DEF Restart
    <2>2. QED
        BY <1>4, <2>1, RestartType, ClientStutterInv, ClientStutterStamp
<1>5. CASE Idling
    <2>1. ClientInv' /\ StampInv'
        BY <1>5, IdlingInv, IdlingStamp DEF Idling
    <2>2. QED
        BY <1>5, <2>1 DEF Idling, TypeOK, ClientInv, bucketVars, history
<1>6. CASE UNCHANGED vars
    <2>1. UNCHANGED clientVars
        BY <1>6 DEF vars
    <2>2. QED
        BY <1>6, <2>1, ClientStutterInv, ClientStutterStamp
        DEF vars, TypeOK, ClientInv, bucketVars, history
<1>7. QED
    BY <1>1, <1>2, <1>3, <1>4, <1>5, <1>6 DEF Next

LEMMA TypeInvariant == Spec => []TypeInv
<1>1. Init => TypeInv
    BY InitType DEF TypeInv
<1>2. QED
    BY <1>1, TypeStep, PTL DEF Spec

(* Every variable keeps its type; in particular no amount of tokens, no    *)
(* expiry and no retry time is ever negative (token_bucket.go:36-60).      *)
THEOREM TypeCorrect == Spec => []TypeOK
<1>1. TypeInv => TypeOK
    BY DEF TypeInv
<1>2. QED
    BY <1>1, TypeInvariant, PTL

-----------------------------------------------------------------------------
(***************************************************************************)
(* The bound on admissions.                                                *)
(*                                                                         *)
(* The bound alone is not inductive: an admission is paid for by a token   *)
(* in the bucket, so the tokens held count as well; and what a restart     *)
(* brings back is paid for by a birth, so the dump must fit in a capacity. *)
(***************************************************************************)
Held == IF bucket = Absent THEN 0 ELSE bucket.tokens

Budget == granted * Unit + Held <= Supply

BucketFacts ==
    /\ bucket # Absent => bucket.tokens <= TopCapacity /\ bucket.last = mark
    /\ snapshot # Absent => snapshot.tokens <= TopCapacity

NothingRan ==
    runs = 0 => /\ bucket = Absent
                /\ snapshot = Absent
                /\ granted = 0
                /\ births = 0
                /\ mark = first
                /\ rewound = 0

(* The latest stamp is not further ahead of Redis than a clock can be.     *)
MarkInv ==
    /\ mark <= now + MaxSkew
    /\ snapshot # Absent => snapshot.last <= now + MaxSkew

BudgetInv == Budget /\ BucketFacts /\ NothingRan /\ MarkInv

LEMMA SupplyTypes ==
    ASSUME TypeOK
    PROVE  /\ Unit \in Nat \ {0} /\ StoreErr \in Nat
           /\ TopCapacity \in Nat /\ TopRate \in Nat
           /\ RefillTime \in Int /\ Held \in Nat
           /\ granted * Unit \in Nat
           /\ TopCapacity * births \in Nat
           /\ TopRate * RefillTime \in Int
           /\ StoreErr * runs \in Nat
           /\ Supply \in Int
<1>1. /\ Unit \in Nat \ {0} /\ StoreErr \in Nat
      /\ TopCapacity \in Nat /\ TopRate \in Nat
    BY TokenBucketAssumption
<1>2. RefillTime \in Int
    BY DEF TypeOK, RefillTime
<1>3. Held \in Nat
    BY DEF TypeOK, Held, Bucket
<1>4. /\ granted * Unit \in Nat
      /\ TopCapacity * births \in Nat
      /\ StoreErr * runs \in Nat
    BY <1>1 DEF TypeOK
<1>5. TopRate * RefillTime \in Int
    BY <1>1, <1>2
<1>6. QED
    BY <1>1, <1>2, <1>3, <1>4, <1>5 DEF Supply

LEMMA InitBudget == Init => BudgetInv
<1> SUFFICES ASSUME Init PROVE BudgetInv
    OBVIOUS
<1>1. RefillTime = 0 /\ Held = 0
    BY DEF Init, RefillTime, Held
<1>2. Supply = 0
    BY <1>1, TokenBucketAssumption DEF Supply, Init
<1>3. now + MaxSkew >= 0
    BY RedisClientAssumption DEF Init, ClientInit
<1>4. QED
    BY <1>1, <1>2, <1>3, TokenBucketAssumption
    DEF Init, BudgetInv, Budget, BucketFacts, NothingRan, MarkInv

(* A script's stamp moves the refilled time by how far it is ahead of the  *)
(* latest stamp, and not at all when it is behind.                         *)
LEMMA RefillTimeOfScript ==
    ASSUME TypeOK, NothingRan, NEW m \in wire, RunScript(m)
    PROVE  RefillTime' = IF runs = 0 THEN RefillTime
                         ELSE RefillTime + AtLeast(0, m.stamp - mark)
<1>1. m.stamp \in Nat
    BY CommandFacts
<1>2. mark' = m.stamp
    BY DEF RunScript
<1>3. CASE runs = 0
    <2>1. first' = m.stamp /\ rewound' = 0
        BY <1>3 DEF RunScript
    <2>2. QED
        BY <1>1, <1>2, <1>3, <2>1 DEF RefillTime, NothingRan, TypeOK
<1>4. CASE runs # 0
    <2>1. first' = first /\ rewound' = rewound + AtLeast(0, mark - m.stamp)
        BY <1>4 DEF RunScript
    <2>2. QED
        BY <1>1, <1>2, <1>4, <2>1 DEF RefillTime, AtLeast, TypeOK
<1>5. QED
    BY <1>3, <1>4

(* Whatever the script finds was supplied before it takes its token.       *)
LEMMA FoundIsSupplied ==
    ASSUME TypeOK, BudgetInv, NEW m \in wire, RunScript(m)
    PROVE  granted * Unit + Found(Read, m.policy, m.stamp)
             <= TopCapacity * births' + TopRate * RefillTime' + StoreErr * runs
<1> DEFINE found == Found(Read, m.policy, m.stamp)
           e     == RefillTime' - RefillTime
<1>1. /\ m.policy \in Policies
      /\ m.stamp \in Nat
      /\ found \in Nat
      /\ found <= Capacity(m.policy)
      /\ Capacity(m.policy) \in Nat
      /\ Capacity(m.policy) <= TopCapacity
    BY CommandFacts, ReadType, FoundBounds, PolicyFacts
<1>2. e \in Nat
    BY <1>1, RefillTimeOfScript, SupplyTypes DEF BudgetInv, AtLeast, TypeOK
<1>3. TopRate * RefillTime' = TopRate * RefillTime + TopRate * e
    <2>1. RefillTime' = RefillTime + e
        BY <1>2, RefillTimeOfScript, SupplyTypes, <1>1 DEF BudgetInv, AtLeast, TypeOK
    <2>2. QED
        BY <1>2, <2>1, SupplyTypes, Distribute
<1>4. TopRate * e \in Nat
    BY <1>2, SupplyTypes
<1> HIDE DEF e, found
<1>5. CASE Read = Absent
    <2>1. births' = births + 1
        BY <1>5 DEF RunScript
    <2>2. TopCapacity * births' = TopCapacity * births + TopCapacity
        BY <2>1, SupplyTypes DEF TypeOK
    <2>3. granted * Unit + Held <= Supply
        BY DEF BudgetInv, Budget
    <2>4. QED
        BY <1>1, <1>3, <1>4, <2>2, <2>3, SupplyTypes DEF Supply, found
<1>6. CASE Read # Absent
    <2>1. Read = bucket /\ bucket # Absent
        BY <1>6 DEF Read
    <2>2. births' = births
        BY <1>6 DEF RunScript
    <2>3. runs # 0
        BY <2>1 DEF BudgetInv, NothingRan
    <2>4. bucket \in Bucket /\ bucket.last = mark /\ Held = bucket.tokens
        BY <2>1 DEF TypeOK, BudgetInv, BucketFacts, Held
    <2>5. e = AtLeast(0, m.stamp - mark)
        BY <2>3, <1>1, RefillTimeOfScript, SupplyTypes DEF e, BudgetInv, AtLeast, TypeOK
    <2>6. found <= Held + TopRate * e
        BY <1>1, <2>1, <2>4, <2>5, FoundBounds DEF found
    <2>7. granted * Unit + Held <= Supply
        BY DEF BudgetInv, Budget
    <2>8. QED
        BY <1>1, <1>3, <1>4, <2>2, <2>6, <2>7, SupplyTypes DEF Supply, found
<1>7. QED
    BY <1>5, <1>6

LEMMA RunScriptBudget ==
    ASSUME TypeInv, TypeOK', BudgetInv, NEW m \in wire, RunScript(m)
    PROVE  BudgetInv'
<1> DEFINE found   == Found(Read, m.policy, m.stamp)
           allowed == found >= Unit
           left    == IF allowed THEN found - Unit ELSE found
<1> USE DEF TypeInv
<1>1. /\ m.policy \in Policies
      /\ m.stamp \in Nat
      /\ found \in Nat
      /\ Capacity(m.policy) <= TopCapacity
      /\ Capacity(m.policy) \in Nat
    BY CommandFacts, ReadType, FoundBounds, PolicyFacts
<1>2. left \in Nat
    BY <1>1, SupplyTypes
<1>3. PICK t \in Stored(left, m.policy) :
        bucket' = [tokens |-> t, last |-> m.stamp,
                   expireAt |-> now + Ttl(m.policy)]
    BY DEF RunScript
<1>4. t \in Nat /\ t <= Capacity(m.policy) /\ t <= left + StoreErr
    BY <1>1, <1>2, <1>3, StoredBounds
<1>5. bucket' # Absent /\ Held' = t
    BY <1>3, <1>4 DEF Held, Absent
<1>6. granted' * Unit + left = granted * Unit + found
    <2>1. CASE allowed
        <3>1. granted' = granted + 1
            BY <2>1 DEF RunScript
        <3>2. granted' * Unit = granted * Unit + Unit
            BY <3>1, SupplyTypes DEF TypeOK
        <3>3. QED
            BY <1>1, <2>1, <3>2, SupplyTypes
    <2>2. CASE ~allowed
        BY <2>2 DEF RunScript
    <2>3. QED
        BY <2>1, <2>2
<1>7. StoreErr * runs' = StoreErr * runs + StoreErr
    <2>1. runs' = runs + 1
        BY DEF RunScript
    <2>2. QED
        BY <2>1, SupplyTypes DEF TypeOK
<1>8. granted * Unit + found
        <= TopCapacity * births' + TopRate * RefillTime' + StoreErr * runs
    BY FoundIsSupplied
<1>9. /\ granted' * Unit \in Nat
      /\ TopCapacity * births' \in Nat
      /\ RefillTime' \in Int
      /\ TopRate * RefillTime' \in Int
      /\ Supply' = TopCapacity * births' + TopRate * RefillTime' + StoreErr * runs'
    <2>1. /\ granted' \in Nat /\ births' \in Nat
          /\ mark' \in Nat /\ first' \in Nat /\ rewound' \in Nat
        BY DEF TypeOK
    <2>2. RefillTime' \in Int
        BY <2>1 DEF RefillTime
    <2>3. QED
        BY <2>1, <2>2, SupplyTypes DEF Supply
<1> HIDE DEF found, left
<1>10. Budget'
    <2>1. granted' * Unit + t <= Supply'
        BY <1>1, <1>2, <1>4, <1>6, <1>7, <1>8, <1>9, SupplyTypes
    <2>2. QED
        BY <1>5, <2>1 DEF Budget
<1>11. BucketFacts'
    BY <1>1, <1>3, <1>4, SupplyTypes DEF RunScript, BucketFacts, BudgetInv
<1>12. NothingRan'
    BY DEF RunScript, NothingRan, TypeOK
<1>13. MarkInv'
    BY DEF RunScript, Execute, MarkInv, BudgetInv, StampInv, OnTime
<1>14. QED
    BY <1>10, <1>11, <1>12, <1>13 DEF BudgetInv

LEMMA RestartBudget ==
    ASSUME TypeOK, TypeOK', BudgetInv, Restart
    PROVE  BudgetInv'
<1>1. bucket' = snapshot /\ granted' = granted /\ runs' = runs /\ first' = first
      /\ snapshot' = snapshot /\ now' = now
    BY DEF Restart, clientVars
<1>2. CASE snapshot = Absent
    <2>1. births' = births /\ mark' = mark /\ rewound' = rewound
        BY <1>2 DEF Restart
    <2>2. RefillTime' = RefillTime /\ Supply' = Supply
        BY <1>1, <2>1 DEF RefillTime, Supply
    <2>3. Held' = 0
        BY <1>1, <1>2 DEF Held
    <2>4. Budget'
        BY <1>1, <2>2, <2>3, SupplyTypes DEF BudgetInv, Budget
    <2>5. QED
        BY <1>1, <1>2, <2>1, <2>4 DEF BudgetInv, BucketFacts, NothingRan, MarkInv
<1>3. CASE snapshot # Absent
    <2>1. /\ births' = births + 1
          /\ mark' = snapshot.last
          /\ rewound' = rewound + AtLeast(0, mark - snapshot.last)
        BY <1>3 DEF Restart
    <2>2. snapshot \in Bucket
        BY <1>3 DEF TypeOK
    <2>3. /\ snapshot.tokens \in Nat /\ snapshot.last \in Nat
          /\ snapshot.tokens <= TopCapacity
        BY <1>3, <2>2 DEF Bucket, BudgetInv, BucketFacts
    <2> DEFINE e == AtLeast(0, snapshot.last - mark)
    <2>4. e \in Nat /\ RefillTime' = RefillTime + e
        BY <1>1, <2>1, <2>3 DEF RefillTime, AtLeast, TypeOK
    <2> HIDE DEF e
    <2>5. TopRate * RefillTime' = TopRate * RefillTime + TopRate * e
        BY <2>4, SupplyTypes, Distribute
    <2>6. TopRate * e \in Nat
        BY <2>4, SupplyTypes
    <2>7. TopCapacity * births' = TopCapacity * births + TopCapacity
        BY <2>1, SupplyTypes DEF TypeOK
    <2>8. Supply' = Supply + TopCapacity + TopRate * e
        BY <1>1, <2>5, <2>6, <2>7, SupplyTypes DEF Supply
    <2>9. Held' = snapshot.tokens
        BY <1>1, <1>3 DEF Held
    <2>10. Budget'
        BY <1>1, <2>3, <2>6, <2>8, <2>9, SupplyTypes DEF BudgetInv, Budget
    <2>11. runs # 0
        BY <1>3 DEF BudgetInv, NothingRan
    <2>12. QED
        BY <1>1, <1>3, <2>1, <2>3, <2>10, <2>11
        DEF BudgetInv, BucketFacts, NothingRan, MarkInv
<1>4. QED
    BY <1>2, <1>3

(* A step that touches neither the bucket nor the history.                 *)
LEMMA QuietBudget ==
    ASSUME TypeOK, BudgetInv, UNCHANGED bucketVars, UNCHANGED history,
           NEW later \in Nat, now' = later, now <= later
    PROVE  BudgetInv'
<1>1. Budget'
    BY DEF bucketVars, history, BudgetInv, Budget, Held, Supply, RefillTime
<1>2. BucketFacts' /\ NothingRan'
    BY DEF bucketVars, history, BudgetInv, BucketFacts, NothingRan
<1>3. MarkInv'
    <2>1. now \in Nat /\ mark \in Nat /\ MaxSkew \in Nat
        BY RedisClientAssumption DEF TypeOK, ClientTypeOK
    <2>2. snapshot # Absent => snapshot.last \in Nat
        BY DEF TypeOK, Bucket
    <2>4. mark' = mark /\ snapshot' = snapshot
        BY DEF bucketVars, history
    <2>5. mark <= now + MaxSkew /\ (snapshot # Absent => snapshot.last <= now + MaxSkew)
        BY DEF BudgetInv, MarkInv
    <2>6. \A x \in Nat : x <= now + MaxSkew => x <= later + MaxSkew
        BY <2>1
    <2>7. mark' <= later + MaxSkew
        BY <2>1, <2>4, <2>5, <2>6
    <2>8. snapshot' # Absent => snapshot'.last <= later + MaxSkew
        BY <2>2, <2>4, <2>5, <2>6
    <2>9. QED
        BY <2>7, <2>8 DEF MarkInv
<1>4. QED
    BY <1>1, <1>2, <1>3 DEF BudgetInv

LEMMA DumpBudget ==
    ASSUME TypeOK, BudgetInv, Dump
    PROVE  BudgetInv'
<1>1. snapshot' = Read /\ UNCHANGED <<clientVars, bucket, restarts, history>>
    BY DEF Dump
<1>2. Read = bucket \/ Read = Absent
    BY DEF Read
<1>3. Budget'
    BY <1>1 DEF history, BudgetInv, Budget, Held, Supply, RefillTime
<1>4. QED
    BY <1>1, <1>2, <1>3
    DEF history, clientVars, BudgetInv, BucketFacts, NothingRan, MarkInv

LEMMA BudgetStep == TypeInv /\ TypeInv' /\ BudgetInv /\ [Next]_vars => BudgetInv'
<1> SUFFICES ASSUME TypeInv, TypeInv', BudgetInv, [Next]_vars
             PROVE  BudgetInv'
    OBVIOUS
<1>0. TypeOK /\ TypeOK' /\ now \in Nat /\ now' \in Nat
    BY DEF TypeInv, TypeOK, ClientTypeOK
<1>1. ASSUME NEW c \in Callers, ClientStep(c)
      PROVE  BudgetInv'
    <2>1. now' = now
        BY <1>1 DEF ClientStep, Begin, Deliver, Retry, GiveUp
    <2>2. QED
        BY <1>0, <1>1, <2>1, QuietBudget DEF ClientStep
<1>2. ASSUME NEW m \in wire, RunScript(m)
      PROVE  BudgetInv'
    BY <1>0, <1>2, RunScriptBudget
<1>3. CASE Dump
    BY <1>0, <1>3, DumpBudget
<1>4. CASE Restart
    BY <1>0, <1>4, RestartBudget
<1>5. CASE Idling
    <2>1. now <= now'
        BY <1>0, <1>5 DEF Idling, Tick, Quiet, clientVars
    <2>2. QED
        BY <1>0, <1>5, <2>1, QuietBudget DEF Idling
<1>6. CASE UNCHANGED vars
    <2>1. now' = now
        BY <1>6 DEF vars, clientVars
    <2>2. QED
        BY <1>0, <1>6, <2>1, QuietBudget DEF vars
<1>7. QED
    BY <1>1, <1>2, <1>3, <1>4, <1>5, <1>6 DEF Next

LEMMA BudgetInvariant == Spec => [](TypeInv /\ BudgetInv)
<1>1. Init => BudgetInv
    BY InitBudget
<1>2. QED
    BY <1>1, TypeInvariant, BudgetStep, PTL DEF Spec

(* However calls, retries, expiries, restarts, clocks and policies         *)
(* interleave, the scripts admit no more than one capacity for each time   *)
(* the bucket was handed out and the refill of the time the stamps span,   *)
(* counting moves backwards (token_bucket.go:31-54).                       *)
THEOREM AdmissionsAreBounded == Spec => []AdmissionBound
<1>1. TypeInv /\ BudgetInv => AdmissionBound
    BY SupplyTypes DEF TypeInv, BudgetInv, Budget, AdmissionBound
<1>2. QED
    BY <1>1, BudgetInvariant, PTL

(* As long as no script runs with a stamp older than the one before, the   *)
(* time that has passed bounds the admissions.                             *)
THEOREM InOrderIsBounded == Spec => []InOrderBound
<1>1. TypeInv /\ BudgetInv => InOrderBound
    <2> SUFFICES ASSUME TypeInv, BudgetInv, rewound = 0
                 PROVE  granted * Unit <= TopCapacity * births
                            + TopRate * (now + MaxSkew - first) + StoreErr * runs
        BY DEF InOrderBound
    <2> DEFINE passed == now + MaxSkew - first
    <2>1. TypeOK /\ mark \in Nat /\ first \in Nat /\ now \in Nat /\ MaxSkew \in Nat
        BY RedisClientAssumption DEF TypeInv, TypeOK, ClientTypeOK
    <2>2. mark <= now + MaxSkew
        BY DEF BudgetInv, MarkInv
    <2>3. RefillTime <= passed /\ RefillTime \in Int /\ passed \in Int
        BY <2>1, <2>2 DEF RefillTime
    <2>4. RefillTime * TopRate <= passed * TopRate
        BY <2>1, <2>3, SupplyTypes, ProductMonotone
    <2>5. TopRate * RefillTime <= TopRate * passed /\ TopRate * passed \in Int
        BY <2>1, <2>3, <2>4, SupplyTypes
    <2>6. granted * Unit + Held <= Supply
        BY DEF BudgetInv, Budget
    <2> HIDE DEF passed
    <2>7. granted * Unit <= TopCapacity * births + TopRate * passed + StoreErr * runs
        BY <2>1, <2>5, <2>6, SupplyTypes DEF Supply
    <2>8. QED
        BY <2>7 DEF passed
<1>2. QED
    BY <1>1, BudgetInvariant, PTL

-----------------------------------------------------------------------------
(***************************************************************************)
(* Expiry.                                                                 *)
(***************************************************************************)

(* The key outlives its stamp by two windows, less the skew of the clock   *)
(* the stamp was read from.                                                *)
Lives(b) ==
    b # Absent => \A p \in Policies : b.last + Ttl(p) <= b.expireAt + MaxSkew

LifeInv == OneWindow => Lives(bucket) /\ Lives(snapshot)

LEMMA RunScriptLife ==
    ASSUME TypeInv, LifeInv, NEW m \in wire, RunScript(m)
    PROVE  LifeInv'
<1>1. /\ m.policy \in Policies /\ m.stamp \in Nat
      /\ now \in Nat /\ MaxSkew \in Nat
      /\ m.stamp <= now + MaxSkew
    BY CommandFacts, RedisClientAssumption
    DEF TypeInv, TypeOK, ClientTypeOK, StampInv, OnTime
<1>2. PICK t : bucket' = [tokens |-> t, last |-> m.stamp,
                          expireAt |-> now + Ttl(m.policy)]
    BY DEF RunScript
<1>3. OneWindow => \A p \in Policies : Ttl(p) = Ttl(m.policy)
    BY <1>1 DEF OneWindow, Ttl, WindowTicks
<1>4. \A p \in Policies : Ttl(p) \in Nat
    BY PolicyFacts
<1>5. OneWindow => \A p \in Policies :
                      m.stamp + Ttl(p) <= now + Ttl(m.policy) + MaxSkew
    BY <1>1, <1>3, <1>4
<1>6. snapshot' = snapshot
    BY DEF RunScript
<1>7. OneWindow => Lives(bucket)'
    BY <1>2, <1>5 DEF Lives
<1>8. QED
    BY <1>6, <1>7 DEF LifeInv, Lives

LEMMA LifeStep == TypeInv /\ LifeInv /\ [Next]_vars => LifeInv'
<1> SUFFICES ASSUME TypeInv, LifeInv, [Next]_vars
             PROVE  LifeInv'
    OBVIOUS
<1>1. ASSUME NEW m \in wire, RunScript(m)
      PROVE  LifeInv'
    BY <1>1, RunScriptLife
<1>2. CASE \E c \in Callers : ClientStep(c)
    BY <1>2 DEF ClientStep, bucketVars, LifeInv, Lives
<1>3. CASE Dump
    BY <1>3 DEF Dump, Read, LifeInv, Lives
<1>4. CASE Restart
    BY <1>4 DEF Restart, LifeInv, Lives
<1>5. CASE Idling
    BY <1>5 DEF Idling, bucketVars, LifeInv, Lives
<1>6. CASE UNCHANGED vars
    BY <1>6 DEF vars, bucketVars, LifeInv, Lives
<1>7. QED
    BY <1>1, <1>2, <1>3, <1>4, <1>5, <1>6 DEF Next

(* A bucket refilled for a whole window is full.                           *)
LEMMA WindowRefills ==
    ASSUME NEW b \in Bucket, NEW p \in Policies, NEW n \in Nat,
           n - b.last >= WindowTicks(p)
    PROVE  Found(b, p, n) = Capacity(p)
<1> DEFINE e == n - b.last
<1>1. /\ b.tokens \in Nat /\ b.last \in Nat
      /\ WindowTicks(p) \in Nat /\ Rate[p] \in Nat /\ Capacity(p) \in Nat
    BY PolicyFacts DEF Bucket
<1>2. e \in Nat /\ AtLeast(0, e) = e
    BY <1>1 DEF AtLeast
<1>3. WindowTicks(p) * Rate[p] <= e * Rate[p]
    BY <1>1, <1>2, ProductMonotone
<1>4. WindowTicks(p) * Rate[p] = Capacity(p)
    <2>1. Rate[p] * WindowTicks(p) = Capacity(p)
        BY TokenBucketAssumption
    <2>2. QED
        BY <1>1, <2>1
<1>5. b # Absent
    BY <1>1 DEF Absent, Bucket
<1>6. Found(b, p, n) = AtMost(Capacity(p), b.tokens + e * Rate[p])
    BY <1>2, <1>5 DEF Found, Refilled
<1>7. e * Rate[p] \in Nat
    BY <1>1, <1>2
<1> HIDE DEF e
<1>8. QED
    BY <1>1, <1>3, <1>4, <1>6, <1>7 DEF AtMost

(* A key that expired held nothing a caller would miss, whatever the       *)
(* limits, while all windows are of one length (token_bucket.go:54, 70).   *)
THEOREM ExpiryIsHarmless == Spec => []ExpiryForgetsNothing
<1>1. Init => LifeInv
    BY DEF Init, LifeInv, Lives
<1>2. TypeInv /\ LifeInv => ExpiryForgetsNothing
    <2> SUFFICES ASSUME TypeInv, LifeInv, NEW m \in wire, OneWindow,
                        Expired(bucket),
                        now - m.stamp <= WindowTicks(m.policy) - MaxSkew
                 PROVE  Found(bucket, m.policy, m.stamp) = Capacity(m.policy)
        BY DEF ExpiryForgetsNothing
    <2>1. /\ m.policy \in Policies /\ m.stamp \in Nat
          /\ now \in Nat /\ MaxSkew \in Nat
          /\ WindowTicks(m.policy) \in Nat
        BY CommandFacts, PolicyFacts, RedisClientAssumption
        DEF TypeInv, TypeOK, ClientTypeOK
    <2>2. bucket \in Bucket /\ bucket # Absent
        BY DEF Expired, TypeInv, TypeOK
    <2>3. bucket.last \in Nat /\ bucket.expireAt \in Nat /\ now > bucket.expireAt
        BY <2>2 DEF Bucket, Expired
    <2>4. bucket.last + 2 * WindowTicks(m.policy) <= bucket.expireAt + MaxSkew
        BY <2>1, <2>2 DEF LifeInv, Lives, Ttl
    <2>5. m.stamp - bucket.last >= WindowTicks(m.policy)
        BY <2>1, <2>3, <2>4
    <2>6. QED
        BY <2>1, <2>2, <2>5, WindowRefills
<1>3. QED
    BY <1>1, <1>2, TypeInvariant, LifeStep, PTL DEF Spec

-----------------------------------------------------------------------------
(***************************************************************************)
(* What the answers say about later.                                       *)
(*                                                                         *)
(* That a token will be found is not inductive by itself: what the key     *)
(* will hold when the promise falls due has to be covered, script by       *)
(* script, by what it holds now.  A script with any stamp may run before.  *)
(***************************************************************************)

(* What the bucket will hold when the refusal pr falls due.                *)
Foretold(b, pr) == b.tokens + AtLeast(0, pr.due - b.last) * Rate[pr.policy]

Covers(b, pr, scripts) ==
    /\ b # Absent
    /\ pr.run <= scripts
    /\ Foretold(b, pr) + StoreErr * (scripts - pr.run) >= Unit

PromiseInv == (SameRate /\ promise # NoPromise) => Covers(bucket, promise, runs)

(* Time that passes in two steps, the first of them perhaps backwards,     *)
(* refills no less than time that passes in one.                           *)
LEMMA Detour ==
    ASSUME NEW due \in Nat, NEW last \in Nat, NEW stamp \in Nat, NEW rate \in Nat
    PROVE  AtLeast(0, due - last) * rate
             <= AtLeast(0, stamp - last) * rate + AtLeast(0, due - stamp) * rate
<1> DEFINE whole  == AtLeast(0, due - last)
           before == AtLeast(0, stamp - last)
           after  == AtLeast(0, due - stamp)
<1>1. /\ whole \in Nat /\ before \in Nat /\ after \in Nat
      /\ whole <= before + after
    BY DEF AtLeast
<1> HIDE DEF whole, before, after
<1>2. whole * rate <= (before + after) * rate
    BY <1>1, ProductMonotone
<1>3. (before + after) * rate = before * rate + after * rate
    BY <1>1
<1>4. QED
    BY <1>1, <1>2, <1>3 DEF whole, before, after

(* A refused script finds a key, and less than a token, so that no         *)
(* capacity cuts off what was refilled.                                    *)
LEMMA RefusalFinds ==
    ASSUME TypeOK, NEW m \in wire, Found(Read, m.policy, m.stamp) < Unit
    PROVE  /\ bucket \in Bucket /\ bucket # Absent
           /\ Found(Read, m.policy, m.stamp)
                = bucket.tokens + AtLeast(0, m.stamp - bucket.last) * Rate[m.policy]
<1> DEFINE refill == AtLeast(0, m.stamp - bucket.last) * Rate[m.policy]
<1>1. /\ m.policy \in Policies /\ m.stamp \in Nat
      /\ Capacity(m.policy) \in Nat /\ Unit <= Capacity(m.policy)
      /\ Rate[m.policy] \in Nat /\ Unit \in Nat
    BY CommandFacts, PolicyFacts, TokenBucketAssumption
<1>2. Read # Absent
    BY <1>1 DEF Found
<1>3. Read = bucket
    BY <1>2 DEF Read
<1>4. bucket \in Bucket /\ bucket # Absent
    BY <1>2, <1>3 DEF TypeOK
<1>5. bucket.tokens \in Nat /\ AtLeast(0, m.stamp - bucket.last) \in Nat
    BY <1>1, <1>4 DEF Bucket, AtLeast
<1>6. bucket.tokens + refill \in Nat
    BY <1>1, <1>5
<1>7. Found(Read, m.policy, m.stamp) = AtMost(Capacity(m.policy), bucket.tokens + refill)
    BY <1>2, <1>3 DEF Found, Refilled
<1> HIDE DEF refill
<1>8. Found(Read, m.policy, m.stamp) = bucket.tokens + refill
    BY <1>1, <1>6, <1>7 DEF AtMost
<1>9. QED
    BY <1>4, <1>8 DEF refill

(* A refusal keeps the promises made before it: what it finds it writes    *)
(* back, but for the rounding, and its stamp only makes time pass in two   *)
(* steps.                                                                  *)
LEMMA RefusalKeeps ==
    ASSUME TypeOK, SameRate, NEW m \in wire, NEW pr \in Promise,
           Covers(bucket, pr, runs),
           Found(Read, m.policy, m.stamp) < Unit,
           NEW b \in Bucket, b.last = m.stamp,
           b.tokens >= Found(Read, m.policy, m.stamp) - StoreErr
    PROVE  Covers(b, pr, runs + 1)
<1> DEFINE rate   == Rate[pr.policy]
           before == AtLeast(0, m.stamp - bucket.last) * rate
           after  == AtLeast(0, pr.due - m.stamp) * rate
           whole  == AtLeast(0, pr.due - bucket.last) * rate
           slack  == StoreErr * (runs - pr.run)
<1>1. /\ m.policy \in Policies /\ m.stamp \in Nat
      /\ pr.policy \in Policies /\ pr.due \in Nat /\ pr.run \in Nat
      /\ Rate[m.policy] = rate
    BY CommandFacts DEF Promise, SameRate
<1>2. rate \in Nat /\ StoreErr \in Nat /\ Unit \in Nat
    BY <1>1, PolicyFacts, TokenBucketAssumption
<1>3. /\ bucket \in Bucket
      /\ Found(Read, m.policy, m.stamp) = bucket.tokens + before
    BY <1>1, RefusalFinds
<1>4. bucket.tokens \in Nat /\ bucket.last \in Nat /\ b.tokens \in Nat
    BY <1>3 DEF Bucket
<1>5. whole <= before + after
    BY <1>1, <1>2, <1>4, Detour
<1>6. before \in Nat /\ after \in Nat /\ whole \in Nat
    <2>1. /\ AtLeast(0, m.stamp - bucket.last) \in Nat
          /\ AtLeast(0, pr.due - m.stamp) \in Nat
          /\ AtLeast(0, pr.due - bucket.last) \in Nat
        BY <1>1, <1>4 DEF AtLeast
    <2>2. QED
        BY <1>2, <2>1
<1>7. runs - pr.run \in Nat /\ runs \in Nat /\ pr.run <= runs + 1
    BY <1>1 DEF Covers, TypeOK
<1>8. /\ slack \in Nat
      /\ StoreErr * ((runs + 1) - pr.run) = slack + StoreErr
    <2>1. (runs + 1) - pr.run = (runs - pr.run) + 1
        BY <1>1, <1>7
    <2>2. StoreErr * ((runs - pr.run) + 1) = slack + StoreErr * 1
        BY <1>2, <1>7, Distribute
    <2>3. QED
        BY <1>2, <1>7, <2>1, <2>2
<1>9. bucket.tokens + whole + slack >= Unit
    BY DEF Covers, Foretold
<1> HIDE DEF before, after, whole, slack, rate
<1>10. b.tokens + after + (slack + StoreErr) >= Unit
    BY <1>2, <1>3, <1>4, <1>5, <1>6, <1>8, <1>9
<1>11. b # Absent
    BY DEF Bucket, Absent
<1>12. Foretold(b, pr) = b.tokens + after
    BY DEF Foretold, after, rate
<1>13. Foretold(b, pr) + StoreErr * ((runs + 1) - pr.run) >= Unit
    BY <1>8, <1>10, <1>12
<1>14. QED
    BY <1>7, <1>11, <1>13, Zenon DEF Covers

(* A new refusal's seconds are rounded up, and cover what was missing.     *)
LEMMA RefusalPromises ==
    ASSUME TypeOK, NEW m \in wire, NEW left \in Nat, left < Unit,
           NEW b \in Bucket, b.last = m.stamp, b.tokens >= left - StoreErr
    PROVE  Covers(b, [policy |-> m.policy, run |-> runs,
                      due |-> m.stamp + RetryAfter(left, m.policy) * TicksPerSec],
                  runs + 1)
<1> DEFINE secs == RetryAfter(left, m.policy)
           rate == Rate[m.policy]
           pr   == [policy |-> m.policy, run |-> runs, due |-> m.stamp + secs * TicksPerSec]
<1>1. /\ m.policy \in Policies /\ m.stamp \in Nat /\ runs \in Nat
      /\ rate \in Nat \ {0} /\ TicksPerSec \in Nat \ {0} /\ rate * TicksPerSec \in Nat \ {0}
      /\ StoreErr \in Nat /\ Unit \in Nat
    BY CommandFacts, PolicyFacts, TokenBucketAssumption, RedisClientAssumption DEF TypeOK
<1>2. /\ secs \in Nat
      /\ Unit - left <= secs * (rate * TicksPerSec)
    <2>1. Unit - left \in Nat
        BY <1>1
    <2>2. secs = CeilDiv(Unit - left, rate * TicksPerSec)
        BY DEF RetryAfter
    <2> DEFINE missing == Unit - left
               refill  == rate * TicksPerSec
    <2>3. missing \in Nat /\ refill \in Nat \ {0}
        BY <1>1, <2>1
    <2> HIDE DEF missing, refill
    <2>4. /\ CeilDiv(missing, refill) \in Nat
          /\ missing <= CeilDiv(missing, refill) * refill
        BY <2>3, CeilDivType, CeilDivCovers
    <2>5. QED
        BY <2>2, <2>4 DEF missing, refill
<1> HIDE DEF secs
<1>3. secs * TicksPerSec \in Nat
    BY <1>1, <1>2
<1>4. secs * (rate * TicksPerSec) = (secs * TicksPerSec) * rate
    <2>1. rate * TicksPerSec = TicksPerSec * rate
        BY <1>1
    <2>2. QED
        BY <1>1, <1>2, <2>1, Associate
<1>5. AtLeast(0, pr.due - b.last) = secs * TicksPerSec
    <2>1. pr.due = m.stamp + secs * TicksPerSec
        OBVIOUS
    <2>2. pr.due - b.last = secs * TicksPerSec
        BY <1>1, <1>3, <2>1
    <2>3. QED
        BY <1>3, <2>2 DEF AtLeast
<1>6. Foretold(b, pr) = b.tokens + (secs * TicksPerSec) * rate
    BY <1>5 DEF Foretold
<1>7. StoreErr * ((runs + 1) - pr.run) = StoreErr
    BY <1>1
<1>8. b.tokens \in Nat /\ (secs * TicksPerSec) * rate \in Nat
    BY <1>1, <1>3 DEF Bucket
<1>9. Foretold(b, pr) + StoreErr >= Unit
    BY <1>1, <1>2, <1>4, <1>6, <1>8
<1>10. b # Absent /\ pr.run <= runs + 1
    BY <1>1 DEF Bucket, Absent
<1> HIDE DEF pr
<1>11. Covers(b, pr, runs + 1)
    <2>1. Foretold(b, pr) + StoreErr * ((runs + 1) - pr.run) >= Unit
        BY <1>7, <1>9
    <2>2. QED
        BY <1>10, <2>1, Zenon DEF Covers
<1>12. QED
    BY <1>11 DEF pr, secs

LEMMA RunScriptPromises ==
    ASSUME TypeOK, PromiseInv, NEW m \in wire, RunScript(m)
    PROVE  PromiseInv'
<1> DEFINE found == Found(Read, m.policy, m.stamp)
           fresh == [policy |-> m.policy, run |-> runs,
                     due |-> m.stamp + RetryAfter(found, m.policy) * TicksPerSec]
<1>1. found \in Nat /\ Unit \in Nat /\ StoreErr \in Nat
    BY CommandFacts, ReadType, FoundBounds, TokenBucketAssumption
<1>2. CASE found >= Unit
    BY <1>2 DEF RunScript, PromiseInv
<1>3. CASE found < Unit
    <2>1. ~(found >= Unit)
        BY <1>1, <1>3
    <2>2. PICK t \in Stored(found, m.policy) :
            bucket' = [tokens |-> t, last |-> m.stamp, expireAt |-> now + Ttl(m.policy)]
        BY <2>1 DEF RunScript
    <2>3. t \in Nat /\ t >= found - StoreErr
        BY <1>1, CommandFacts, StoredBounds DEF Stored, AtLeast, AtMost
    <2>4. /\ bucket' \in Bucket /\ bucket'.last = m.stamp
          /\ bucket'.tokens >= found - StoreErr
        BY <2>2, <2>3, CommandFacts, PolicyFacts DEF Bucket, TypeOK, ClientTypeOK
    <2>5. promise' \in {promise, fresh} /\ runs' = runs + 1
        BY <2>1 DEF RunScript
    <2>6. CASE promise' = fresh
        <3>1. Covers(bucket', fresh, runs + 1)
            BY <1>1, <1>3, <2>4, RefusalPromises
        <3>2. QED
            BY <2>5, <2>6, <3>1 DEF PromiseInv, Covers, Foretold
    <2>7. CASE promise' = promise
        <3>1. SUFFICES ASSUME SameRate, promise # NoPromise
                       PROVE  Covers(bucket', promise, runs + 1)
            BY <2>5, <2>7 DEF PromiseInv, Covers, Foretold, SameRate
        <3>2. promise \in Promise /\ Covers(bucket, promise, runs)
            BY <3>1 DEF TypeOK, PromiseInv
        <3>3. QED
            BY <1>3, <2>4, <3>1, <3>2, RefusalKeeps
    <2>8. QED
        BY <2>5, <2>6, <2>7
<1>4. QED
    BY <1>1, <1>2, <1>3

LEMMA PromiseStep == TypeInv /\ PromiseInv /\ [Next]_vars => PromiseInv'
<1> SUFFICES ASSUME TypeInv, PromiseInv, [Next]_vars
             PROVE  PromiseInv'
    OBVIOUS
<1>1. ASSUME NEW m \in wire, RunScript(m)
      PROVE  PromiseInv'
    BY <1>1, RunScriptPromises DEF TypeInv
<1>2. CASE Restart
    BY <1>2 DEF Restart, PromiseInv
<1>3. ASSUME UNCHANGED <<bucket, promise, runs>>
      PROVE  PromiseInv'
    BY <1>3 DEF PromiseInv, Covers, Foretold, SameRate
<1>4. QED
    BY <1>1, <1>2, <1>3
    DEF Next, ClientStep, Dump, Idling, vars, bucketVars, history

(* types.go:24 and token_bucket.go:47-51: retry_after is right for whoever *)
(* was refused, however the clocks, stamps, refusals and expiries that     *)
(* follow interleave, as long as the callers refill at one rate; each      *)
(* refusal in between costs no more than what its write rounds.            *)
THEOREM RetriesAreHonoured == Spec => []RetryAfterIsHonoured
<1>1. Init => PromiseInv
    BY DEF Init, PromiseInv
<1>2. TypeInv /\ PromiseInv => RetryAfterIsHonoured
    <2> SUFFICES ASSUME TypeInv, PromiseInv, SameRate, promise # NoPromise
                 PROVE  Found(Read, promise.policy, promise.due)
                          + StoreErr * (runs - promise.run) >= Unit
        BY DEF RetryAfterIsHonoured
    <2> DEFINE p     == promise.policy
               found == Found(Read, p, promise.due)
               slack == StoreErr * (runs - promise.run)
    <2>1. /\ Covers(bucket, promise, runs) /\ p \in Policies /\ promise.due \in Nat
          /\ promise.run \in Nat /\ runs \in Nat
        BY DEF PromiseInv, TypeInv, TypeOK, Promise
    <2>2. /\ Capacity(p) \in Nat /\ Unit <= Capacity(p) /\ Unit \in Nat
          /\ Rate[p] \in Nat /\ StoreErr \in Nat
        BY <2>1, PolicyFacts, TokenBucketAssumption
    <2>3. slack \in Nat
        BY <2>1, <2>2 DEF Covers
    <2>4. CASE Read = Absent
        BY <2>2, <2>3, <2>4 DEF Found
    <2>5. CASE Read # Absent
        <3>1. Read = bucket /\ bucket \in Bucket
            BY <2>1, <2>5 DEF Read, TypeInv, TypeOK, Covers
        <3>2. found = AtMost(Capacity(p), Foretold(bucket, promise))
            BY <2>5, <3>1 DEF Found, Refilled, Foretold
        <3>3. Foretold(bucket, promise) \in Nat
            <4>1. AtLeast(0, promise.due - bucket.last) \in Nat /\ bucket.tokens \in Nat
                BY <2>1, <3>1 DEF Bucket, AtLeast
            <4>2. QED
                BY <2>2, <4>1 DEF Foretold
        <3>4. Foretold(bucket, promise) + slack >= Unit
            BY <2>1 DEF Covers
        <3> HIDE DEF slack, found
        <3>5. found + slack >= Unit
            BY <2>2, <2>3, <3>2, <3>3, <3>4 DEF AtMost
        <3>6. QED
            BY <3>5 DEF slack, found
    <2>6. QED
        BY <2>4, <2>5
<1>3. QED
    BY <1>1, <1>2, PromiseStep, TypeInvariant, PTL DEF Spec

(* From the whole second that a stamp lies in, the seconds to the full     *)
(* bucket reach, with the rest of the last second, the full bucket.        *)
LEMMA ResetCovers ==
    ASSUME NEW b \in Bucket, NEW p \in Policies
    PROVE  Refilled(b, p, ResetAt(b.tokens, p, b.last) * TicksPerSec + TicksPerSec - 1)
             = Capacity(p)
<1> DEFINE tps   == TicksPerSec
           rate  == Rate[p]
           secs  == SecsToFull(b.tokens, p)
           start == b.last \div tps
           end   == ResetAt(b.tokens, p, b.last) * tps + tps - 1
           span  == AtLeast(0, end - b.last)
<1>1. /\ b.tokens \in Nat /\ b.last \in Nat
      /\ tps \in Nat \ {0} /\ rate \in Nat \ {0} /\ rate * tps \in Nat \ {0}
      /\ Capacity(p) \in Nat
    BY PolicyFacts, RedisClientAssumption DEF Bucket
<1>2. /\ secs \in Int
      /\ Capacity(p) - b.tokens <= secs * (rate * tps)
    <2>1. Capacity(p) - b.tokens \in Int
        BY <1>1
    <2>2. secs = CeilDiv(Capacity(p) - b.tokens, rate * tps)
        BY DEF SecsToFull
    <2> HIDE DEF secs
    <2>3. QED
        BY <1>1, <2>1, <2>2, CeilDivCovers
<1>3. start \in Int /\ b.last < start * tps + tps
    BY <1>1, Division
<1> HIDE DEF secs, start
<1>4. ResetAt(b.tokens, p, b.last) = start + secs
    BY DEF ResetAt, start, secs
<1>5. (start + secs) * tps = start * tps + secs * tps
    BY <1>1, <1>2, <1>3
<1>6. secs * tps \in Int /\ start * tps \in Int
    BY <1>1, <1>2, <1>3
<1>7. end = start * tps + secs * tps + tps - 1
    BY <1>4, <1>5
<1> HIDE DEF end
<1>8. end \in Int /\ secs * tps <= end - b.last
    BY <1>1, <1>3, <1>6, <1>7
<1>9. span \in Nat /\ secs * tps <= span
    BY <1>1, <1>6, <1>8 DEF AtLeast
<1> HIDE DEF span
<1>10. (secs * tps) * rate <= span * rate
    BY <1>1, <1>6, <1>9, ProductMonotone
<1>11. secs * (rate * tps) = (secs * tps) * rate
    <2>1. rate * tps = tps * rate
        BY <1>1
    <2>2. QED
        BY <1>1, <1>2, <2>1, Associate
<1>12. span * rate \in Nat
    BY <1>1, <1>9
<1>13. Capacity(p) <= b.tokens + span * rate
    <2>1. secs * (rate * tps) \in Int
        BY <1>1, <1>2
    <2>2. QED
        BY <1>1, <1>2, <1>10, <1>11, <1>12, <2>1
<1>14. Refilled(b, p, end) = AtMost(Capacity(p), b.tokens + span * rate)
    BY DEF Refilled, span
<1>15. QED
    BY <1>1, <1>12, <1>13, <1>14 DEF AtMost, end

(* reset_at (token_bucket.go:57-60) is early by less than a second, for    *)
(* every policy that finds the bucket, also one that did not fill it.      *)
THEOREM ResetsAreNear == Spec => []ResetIsLessThanASecondEarly
<1>1. TypeInv => ResetIsLessThanASecondEarly
    BY ResetCovers DEF TypeInv, TypeOK, ResetIsLessThanASecondEarly
<1>2. QED
    BY <1>1, TypeInvariant, PTL

-----------------------------------------------------------------------------
(***************************************************************************)
(* Charges and answers: what the client keeps in balance, the scripts      *)
(* keep up.                                                                *)
(***************************************************************************)
Balanced == ChargeInv(granted)

LEMMA BalanceStep == TypeInv /\ Balanced /\ [Next]_vars => Balanced'
<1> SUFFICES ASSUME TypeInv, Balanced, [Next]_vars
             PROVE  Balanced'
    OBVIOUS
<1>1. PICK g \in Nat : g = granted
    BY DEF TypeInv, TypeOK
<1>2. ClientInv /\ ChargeInv(g)
    BY <1>1 DEF TypeInv, Balanced, ClientInv
<1>3. ASSUME NEW h \in Nat, ChargeInv(h)', granted' = h
      PROVE  Balanced'
    BY <1>3 DEF Balanced, ChargeInv, Charged
<1>4. ASSUME NEW c \in Callers, ClientStep(c)
      PROVE  Balanced'
    <2>1. ChargeInv(g)'
        BY <1>2, <1>4, ClientCharge DEF ClientStep
    <2>2. granted' = g
        BY <1>1, <1>4 DEF ClientStep, history
    <2>3. QED
        BY <1>3, <2>1, <2>2
<1>5. ASSUME NEW m \in wire, RunScript(m)
      PROVE  Balanced'
    <2> DEFINE allowed == Found(Read, m.policy, m.stamp) >= Unit
    <2>1. /\ allowed \in BOOLEAN /\ Execute(m, allowed)
          /\ granted' = IF allowed THEN granted + 1 ELSE granted
        BY <1>5 DEF RunScript
    <2> HIDE DEF allowed
    <2>2. PICK h \in Nat : h = IF allowed THEN g + 1 ELSE g
        OBVIOUS
    <2>3. ChargeInv(h)'
        BY <1>2, <2>1, <2>2, ExecuteCharge
    <2>4. granted' = h
        BY <1>1, <2>1, <2>2
    <2>5. QED
        BY <1>3, <2>3, <2>4
<1>6. ASSUME UNCHANGED <<wire, call, calls, told, breaks, granted>>
      PROVE  Balanced'
    <2>1. ChargeInv(g)'
        BY <1>2, <1>6, QuietCharge
    <2>2. QED
        BY <1>1, <1>3, <1>6, <2>1
<1>7. CASE Dump
    BY <1>6, <1>7 DEF Dump, clientVars, history
<1>8. CASE Restart
    BY <1>6, <1>8 DEF Restart, clientVars
<1>9. CASE Idling
    BY <1>6, <1>9 DEF Idling, Tick, Quiet, clientVars, history
<1>10. CASE UNCHANGED vars
    BY <1>6, <1>10 DEF vars, clientVars, history
<1>11. QED
    BY <1>4, <1>5, <1>7, <1>8, <1>9, <1>10 DEF Next

LEMMA BalanceInvariant == Spec => [](TypeInv /\ Balanced)
<1>1. Init => Balanced
    <2> SUFFICES ASSUME Init PROVE Balanced
        OBVIOUS
    <2>1. ChargeInv(0) /\ granted = 0
        BY InitCharge DEF Init
    <2>2. QED
        BY <2>1 DEF Balanced
<1>2. QED
    BY <1>1, TypeInvariant, BalanceStep, PTL DEF Spec

(* An answer "allowed" is never given without a charge, and a charge that  *)
(* no answer tells of has a broken connection to account for it, however   *)
(* often commands are sent again (token_bucket.go:68-80 over the retries   *)
(* of redis.go:14-20).                                                     *)
THEOREM ChargesMatch == Spec => []ChargesMatchAnswers
<1>1. TypeInv /\ Balanced => ChargesMatchAnswers
    BY ChargesAreAnswered DEF TypeInv, TypeOK, ClientInv, Balanced, ChargesMatchAnswers
<1>2. QED
    BY <1>1, BalanceInvariant, PTL

-----------------------------------------------------------------------------
(***************************************************************************)
(* The refinement.                                                         *)
(***************************************************************************)

LEMMA SumGrows ==
    ASSUME NEW a \in Nat, NEW b \in Nat, NEW e \in Nat,
           NEW u \in Int, NEW v \in Int, u <= v,
           NEW w \in Int, NEW x \in Int, w <= x,
           NEW y \in Int, NEW z \in Int, y <= z
    PROVE  a * u + b * w + e * y <= a * v + b * x + e * z
<1>1. u * a <= v * a /\ w * b <= x * b /\ y * e <= z * e
    BY ProductMonotone
<1>2. /\ u * a = a * u /\ v * a = a * v /\ w * b = b * w
      /\ x * b = b * x /\ y * e = e * y /\ z * e = e * z
    OBVIOUS
<1>3. /\ a * u \in Int /\ a * v \in Int /\ b * w \in Int
      /\ b * x \in Int /\ e * y \in Int /\ e * z \in Int
    OBVIOUS
<1>4. a * u <= a * v /\ b * w <= b * x /\ e * y <= e * z
    BY <1>1, <1>2
<1>5. QED
    BY <1>3, <1>4

LEMMA SupplyGrowsWith ==
    ASSUME TypeOK, TypeOK', births <= births', RefillTime <= RefillTime', runs <= runs'
    PROVE  Supply <= Supply'
<1>1. /\ RefillTime \in Int /\ RefillTime' \in Int
      /\ TopCapacity \in Nat /\ TopRate \in Nat /\ StoreErr \in Nat
      /\ births \in Int /\ births' \in Int /\ runs \in Int /\ runs' \in Int
    BY TokenBucketAssumption DEF TypeOK, RefillTime
<1>2. TopCapacity * births + TopRate * RefillTime + StoreErr * runs
        <= TopCapacity * births' + TopRate * RefillTime' + StoreErr * runs'
    BY <1>1, SumGrows
<1>3. QED
    BY <1>2 DEF Supply

LEMMA SupplyCovers ==
    TypeInv /\ BudgetInv => Supply \in Nat /\ granted * Unit <= Supply
BY SupplyTypes DEF TypeInv, BudgetInv, Budget

(* Nothing that was earned is taken back.                                  *)
LEMMA SupplyGrows ==
    ASSUME TypeInv, TypeInv', BudgetInv, BudgetInv', [Next]_vars
    PROVE  Supply \in Nat /\ Supply' \in Nat /\ Supply <= Supply'
<1>1. TypeOK /\ TypeOK' /\ mark \in Nat /\ first \in Nat /\ rewound \in Nat
    BY DEF TypeInv, TypeOK
<1>2. Supply \in Nat
    BY SupplyCovers
<1>3. Supply' \in Nat
    <2>1. TypeInv' /\ BudgetInv' => (Supply \in Nat)'
        BY SupplyCovers, PTL
    <2>2. QED
        BY <2>1
<1>4. ASSUME NEW m \in wire, RunScript(m)
      PROVE  Supply <= Supply'
    <2>1. births <= births' /\ runs <= runs'
        BY <1>1, <1>4 DEF RunScript, TypeOK
    <2>2. m.stamp \in Nat
        BY <1>1, CommandFacts
    <2>3. RefillTime <= RefillTime'
        BY <1>1, <1>4, <2>2, RefillTimeOfScript DEF BudgetInv, RefillTime, AtLeast
    <2>4. QED
        BY <1>1, <2>1, <2>3, SupplyGrowsWith
<1>5. CASE Restart
    <2>1. runs' = runs /\ first' = first
        BY <1>5 DEF Restart
    <2>2. CASE snapshot = Absent
        <3>1. births' = births /\ mark' = mark /\ rewound' = rewound
            BY <1>5, <2>2 DEF Restart
        <3>2. QED
            BY <1>1, <1>2, <2>1, <3>1 DEF RefillTime, Supply
    <2>3. CASE snapshot # Absent
        <3>1. /\ births' = births + 1 /\ mark' = snapshot.last
              /\ rewound' = rewound + AtLeast(0, mark - snapshot.last)
            BY <1>5, <2>3 DEF Restart
        <3>2. snapshot.last \in Nat
            BY <1>1, <2>3 DEF TypeOK, Bucket
        <3>3. RefillTime <= RefillTime'
            BY <1>1, <2>1, <3>1, <3>2 DEF RefillTime, AtLeast
        <3>4. births <= births' /\ runs <= runs'
            BY <1>1, <2>1, <3>1 DEF TypeOK
        <3>5. QED
            BY <1>1, <1>2, <1>3, <3>3, <3>4, SupplyGrowsWith
    <2>4. QED
        BY <2>2, <2>3
<1>6. CASE UNCHANGED history
    BY <1>2, <1>6 DEF history, Supply, RefillTime
<1>7. QED
    BY <1>2, <1>3, <1>4, <1>5, <1>6
    DEF Next, ClientStep, Dump, Idling, vars

LEMMA AbstractStep ==
    ASSUME TypeInv, TypeInv', BudgetInv, BudgetInv', Balanced, Balanced', [Next]_vars
    PROVE  [Abstract!Next]_(Abstract!vars)
<1>1. Supply \in Nat /\ Supply' \in Nat /\ Supply <= Supply'
    BY SupplyGrows
<1>2. granted' * Unit <= Supply'
    <2>1. TypeInv' /\ BudgetInv' => (granted * Unit <= Supply)'
        BY SupplyCovers, PTL
    <2>2. QED
        BY <2>1
<1>3. told \in Nat /\ granted \in Nat
    BY DEF TypeInv, TypeOK, ClientTypeOK
<1>4. ASSUME granted' = granted, told' = told
      PROVE  Abstract!Next
    BY <1>1, <1>4 DEF Abstract!Next, Abstract!Paid!Next, Abstract!Paid!Earn
<1>5. ASSUME granted' = granted + 1, told' = told
      PROVE  Abstract!Next
    BY <1>1, <1>2, <1>5
    DEF Abstract!Next, Abstract!Paid!Next, Abstract!Paid!Admit, Abstract!Paid!Covered
<1>6. ASSUME NEW c \in Callers, ClientStep(c)
      PROVE  [Abstract!Next]_(Abstract!vars)
    <2>1. granted' = granted /\ Supply' = Supply
        BY <1>6 DEF ClientStep, history, Supply, RefillTime
    <2>2. told' = told \/ (Deliver(c) /\ told' = told + 1)
        BY <1>6 DEF ClientStep, Begin, Deliver, Retry, GiveUp
    <2>3. ASSUME told' = told + 1
          PROVE  Abstract!Tell
        <3>1. OnTheWay' \subseteq Callers /\ told' \in Nat
            BY <1>3, <2>3 DEF OnTheWay
        <3>2. told' + Cardinality(OnTheWay') <= granted'
            BY DEF Balanced, ChargeInv, Charged
        <3>5. Cardinality(OnTheWay') \in Nat
            BY <3>1, FS_Subset, FS_CardinalityType, RedisClientAssumption
        <3>3. told < granted
            BY <1>3, <2>1, <2>3, <3>2, <3>5
        <3>4. QED
            BY <2>1, <2>3, <3>3 DEF Abstract!Tell
    <2>4. QED
        BY <1>4, <2>1, <2>2, <2>3 DEF Abstract!Next
<1>7. ASSUME NEW m \in wire, RunScript(m)
      PROVE  [Abstract!Next]_(Abstract!vars)
    <2>1. told' = told /\ (granted' = granted \/ granted' = granted + 1)
        BY <1>7 DEF RunScript, Execute
    <2>2. QED
        BY <1>4, <1>5, <2>1
<1>8. CASE Dump \/ Restart \/ Idling \/ UNCHANGED vars
    <2>1. told' = told /\ granted' = granted
        BY <1>8 DEF Dump, Restart, Idling, Tick, Quiet, vars, clientVars, history
    <2>2. QED
        BY <1>4, <2>1
<1>9. QED
    BY <1>6, <1>7, <1>8 DEF Next

(* The token bucket implements Limiter.                                    *)
THEOREM ImplementsLimiter == Spec => IsLimiter
<1>1. Init => Abstract!Init
    <2> SUFFICES ASSUME Init PROVE Abstract!Init
        OBVIOUS
    <2>1. granted = 0 /\ told = 0 /\ births = 0 /\ runs = 0 /\ RefillTime = 0
        BY DEF Init, ClientInit, RefillTime
    <2>2. Supply = 0
        BY <2>1, TokenBucketAssumption DEF Supply
    <2>3. QED
        BY <2>1, <2>2 DEF Abstract!Init, Abstract!Paid!Init
<1>2. TypeInv /\ TypeInv' /\ BudgetInv /\ BudgetInv' /\ Balanced /\ Balanced' /\ [Next]_vars
        => [Abstract!Next]_(Abstract!vars)
    BY AbstractStep
<1>3. QED
    BY <1>1, <1>2, BudgetInvariant, BalanceInvariant, PTL
    DEF Spec, IsLimiter, Abstract!Spec
=============================================================================
