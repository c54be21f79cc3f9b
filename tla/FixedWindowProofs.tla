------------------------- MODULE FixedWindowProofs -------------------------
(***************************************************************************)
(* What holds of the fixed-window counters for every set of callers and    *)
(* policies, every clock skew, number of retries and number of restarts.   *)
(***************************************************************************)
EXTENDS FixedWindow, RedisClientProofs

-----------------------------------------------------------------------------
(* Type correctness.                                                       *)

(* When a window that starts at s ends, in ticks.                          *)
End(s, p) == (s + WindowSeconds[p]) * TicksPerSec

LEMMA StartFacts ==
    ASSUME NEW s \in Starts, NEW p \in Policies
    PROVE  /\ s \in Nat
           /\ WindowSeconds[p] \in Nat \ {0}
           /\ Limit[p] \in Nat /\ Limit[p] <= TopLimit /\ TopLimit \in Nat
           /\ End(s, p) \in Nat
<1>1. s \in Nat
    BY DEF Starts
<1>2. WindowSeconds[p] \in Nat \ {0} /\ TicksPerSec \in Nat
    BY FixedWindowAssumption, RedisClientAssumption
<1>3. Limit[p] \in Nat /\ Limit[p] <= TopLimit /\ TopLimit \in Nat
    BY FixedWindowAssumption
<1>4. QED
    BY <1>1, <1>2, <1>3 DEF End

LEMMA CommandFacts ==
    ASSUME TypeOK, NEW m \in wire
    PROVE  m \in Command /\ m.policy \in Policies
BY DEF TypeOK, ClientTypeOK, Command

LEMMA KeyTypes ==
    ASSUME TypeOK, NEW s \in Starts
    PROVE  /\ counter[s] \in Counter \cup {Absent}
           /\ counter[s].count \in Nat
           /\ snapshot[s] \in Counter \cup {Absent}
           /\ snapshot[s].count \in Nat
           /\ granted[s] \in Nat /\ late[s] \in Nat /\ lost[s] \in Nat
           /\ Read(s) \in {counter[s], Absent}
           /\ Read(s).count \in Nat
           /\ Forgotten(s) \in Nat
<1>1. /\ counter[s] \in Counter \cup {Absent}
      /\ snapshot[s] \in Counter \cup {Absent}
      /\ granted[s] \in Nat /\ late[s] \in Nat /\ lost[s] \in Nat
    BY DEF TypeOK
<1>2. counter[s].count \in Nat /\ snapshot[s].count \in Nat /\ Absent.count \in Nat
    BY <1>1 DEF Counter, Absent
<1>3. Read(s) \in {counter[s], Absent}
    BY DEF Read
<1>4. Forgotten(s) \in Nat
    BY <1>2 DEF Forgotten, AtLeast
<1>5. QED
    BY <1>1, <1>2, <1>3, <1>4

(* INCR counts one more; the key it leaves is gone if its time has come,   *)
(* and else expires when it already was to, or at the end of the window.   *)
LEMMA IncrementedFacts ==
    ASSUME TypeOK, NEW m \in wire, NEW s \in Starts, s = WindowStart(m)
    PROVE  LET k == Incremented(Read(s), m)
           IN  \/ k = Absent /\ now >= End(s, m.policy)
               \/ /\ k \in Counter
                  /\ k.count = Read(s).count + 1
                  /\ IF Read(s) = Absent
                     THEN k.expireAt = End(s, m.policy)
                     ELSE k.expireAt = counter[s].expireAt
<1>1. m.policy \in Policies /\ End(s, m.policy) \in Nat /\ now \in Nat
    BY CommandFacts, StartFacts DEF TypeOK, ClientTypeOK
<1>2. WindowEnd(m) * TicksPerSec = End(s, m.policy)
    BY DEF WindowEnd, End
<1>3. CASE Read(s) = Absent
    BY <1>1, <1>2, <1>3 DEF Incremented, ExpireAt, Absent, Counter
<1>4. CASE Read(s) # Absent
    <2>1. Read(s) = counter[s] /\ Read(s) \in Counter
        BY <1>4, KeyTypes
    <2>2. Incremented(Read(s), m) =
            [count |-> Read(s).count + 1, expireAt |-> Read(s).expireAt]
        BY <1>4 DEF Incremented
    <2>3. QED
        BY <1>4, <2>1, <2>2 DEF Counter
<1>5. QED
    BY <1>3, <1>4

TypeInv == TypeOK /\ ClientInv

LEMMA RunScriptType ==
    ASSUME TypeOK, NEW m \in wire, RunScript(m), ClientTypeOK'
    PROVE  TypeOK'
<1> DEFINE s == WindowStart(m)
<1>1. s \in Starts
    BY DEF RunScript
<1>2. Incremented(Read(s), m) \in Counter \cup {Absent}
    BY <1>1, IncrementedFacts
<1>3. counter' \in [Starts -> Counter \cup {Absent}]
    BY <1>1, <1>2 DEF RunScript, TypeOK
<1>4. granted' \in [Starts -> Nat] /\ charges' \in Nat
    BY <1>1 DEF RunScript, TypeOK
<1>5. late' \in [Starts -> Nat]
    BY <1>1 DEF RunScript, TypeOK
<1>6. QED
    BY <1>3, <1>4, <1>5 DEF RunScript, TypeOK

LEMMA TypeStep == TypeInv /\ [Next]_vars => TypeInv'
<1> SUFFICES ASSUME TypeInv, [Next]_vars
             PROVE  TypeInv'
    OBVIOUS
<1> USE DEF TypeInv
<1>1. ASSUME NEW c \in Callers, ClientStep(c)
      PROVE  TypeInv'
    <2>1. ClientInv'
        BY <1>1, BeginInv, CallerStepInv DEF ClientStep
    <2>2. QED
        BY <1>1, <2>1 DEF ClientStep, TypeOK, ClientInv, counterVars, history
<1>2. ASSUME NEW m \in wire, RunScript(m)
      PROVE  TypeInv'
    <2> DEFINE allowed == Read(WindowStart(m)).count < Limit[m.policy]
    <2>1. allowed \in BOOLEAN /\ Execute(m, allowed)
        BY <1>2 DEF RunScript
    <2>2. ClientInv'
        BY <2>1, ExecuteInv
    <2>3. QED
        BY <1>2, <2>2, RunScriptType DEF ClientInv
<1>3. CASE Dump
    <2>1. ClientInv'
        BY <1>3, ClientStutterInv DEF Dump
    <2>2. \A s \in Starts : Read(s) \in Counter \cup {Absent}
        BY KeyTypes
    <2>3. snapshot' \in [Starts -> Counter \cup {Absent}]
        BY <1>3, <2>2 DEF Dump
    <2>4. QED
        BY <1>3, <2>1, <2>3 DEF Dump, TypeOK, ClientInv, history
<1>4. CASE Restart
    <2>1. ClientInv'
        BY <1>4, ClientStutterInv DEF Restart
    <2>2. \A s \in Starts : lost[s] + Forgotten(s) \in Nat
        BY KeyTypes
    <2>3. lost' \in [Starts -> Nat]
        BY <1>4, <2>2 DEF Restart
    <2>4. QED
        BY <1>4, <2>1, <2>3 DEF Restart, TypeOK, ClientInv
<1>5. CASE Idling
    <2>1. ClientInv'
        BY <1>5, IdlingInv DEF Idling
    <2>2. QED
        BY <1>5, <2>1 DEF Idling, TypeOK, ClientInv, counterVars, history
<1>6. CASE UNCHANGED vars
    <2>1. ClientInv'
        BY <1>6, ClientStutterInv DEF vars
    <2>2. QED
        BY <1>6, <2>1 DEF vars, TypeOK, ClientInv, counterVars, history
<1>7. QED
    BY <1>1, <1>2, <1>3, <1>4, <1>5, <1>6 DEF Next

LEMMA TypeInvariant == Spec => []TypeInv
<1>1. Init => TypeInv
    BY ClientInitInv DEF Init, TypeInv, TypeOK, ClientInv
<1>2. QED
    BY <1>1, TypeStep, PTL DEF Spec

(* Every variable keeps its type; in particular a counter is never stored  *)
(* as zero or less, and never without an expiry (fixed_window.go:34-38).   *)
THEOREM TypeCorrect == Spec => []TypeOK
<1>1. TypeInv => TypeOK
    BY DEF TypeInv
<1>2. QED
    BY <1>1, TypeInvariant, PTL

-----------------------------------------------------------------------------
(* Refusals: what a key counts was admitted.                               *)

Earned(k, s) == k.count <= granted[s]

EarnedInv == \A s \in Starts : Earned(counter[s], s) /\ Earned(snapshot[s], s)

LEMMA RunScriptEarned ==
    ASSUME TypeOK, EarnedInv, NEW m \in wire, RunScript(m)
    PROVE  EarnedInv'
<1> DEFINE s == WindowStart(m)
           k == Incremented(Read(s), m)
<1>1. s \in Starts /\ snapshot' = snapshot
    BY DEF RunScript
<1>2. CASE UNCHANGED <<counter, granted>>
    BY <1>1, <1>2 DEF EarnedInv, Earned
<1>3. CASE /\ counter' = [counter EXCEPT ![s] = k]
           /\ granted' = [granted EXCEPT ![s] = @ + 1]
    <2>1. k.count <= Read(s).count + 1
        BY <1>1, IncrementedFacts, KeyTypes DEF Absent
    <2>2. Read(s).count <= granted[s] /\ k.count \in Nat
        BY <1>1, IncrementedFacts, KeyTypes DEF EarnedInv, Earned, Absent, Counter
    <2>3. k.count <= granted[s] + 1
        BY <1>1, <2>1, <2>2, KeyTypes
    <2>4. \A r \in Starts : r # s => counter'[r] = counter[r] /\ granted'[r] = granted[r]
        BY <1>1, <1>3 DEF TypeOK
    <2>5. counter'[s] = k /\ granted'[s] = granted[s] + 1
        BY <1>1, <1>3 DEF TypeOK
    <2> HIDE DEF s, k
    <2>6. snapshot[s].count <= granted[s] + 1
        BY <1>1, KeyTypes DEF EarnedInv, Earned
    <2>7. QED
        BY <1>1, <2>3, <2>4, <2>5, <2>6 DEF EarnedInv, Earned
<1>4. QED
    BY <1>2, <1>3 DEF RunScript

LEMMA EarnedStep == TypeInv /\ EarnedInv /\ [Next]_vars => EarnedInv'
<1> SUFFICES ASSUME TypeInv, EarnedInv, [Next]_vars
             PROVE  EarnedInv'
    OBVIOUS
<1> USE DEF TypeInv
<1>1. ASSUME NEW m \in wire, RunScript(m)
      PROVE  EarnedInv'
    BY <1>1, RunScriptEarned
<1>2. CASE Dump
    <2>1. \A s \in Starts : Read(s).count <= granted[s]
        BY KeyTypes DEF EarnedInv, Earned, Absent
    <2>2. QED
        BY <1>2, <2>1 DEF Dump, history, EarnedInv, Earned
<1>3. CASE Restart
    BY <1>3 DEF Restart, EarnedInv, Earned
<1>4. CASE UNCHANGED <<counterVars, history>>
    BY <1>4 DEF counterVars, history, EarnedInv, Earned
<1>5. QED
    BY <1>1, <1>2, <1>3, <1>4 DEF Next, ClientStep, Idling, vars

(* Nobody is refused by a counter that counts more than was admitted.      *)
THEOREM RefusalsAreEarned == Spec => []CounterIsEarned
<1>1. Init => EarnedInv
    BY DEF Init, EarnedInv, Earned, Absent
<1>2. TypeInv /\ EarnedInv => CounterIsEarned
    BY KeyTypes DEF TypeInv, EarnedInv, Earned, CounterIsEarned, Absent
<1>3. QED
    BY <1>1, <1>2, TypeInvariant, EarnedStep, PTL DEF Spec

-----------------------------------------------------------------------------
(***************************************************************************)
(* Expiry: every key ends with a window that starts where it says.         *)
(***************************************************************************)
EndsWell(k, s) == k # Absent => \E p \in Policies : k.expireAt = End(s, p)

EndInv == \A s \in Starts : EndsWell(counter[s], s) /\ EndsWell(snapshot[s], s)

LEMMA RunScriptEnds ==
    ASSUME TypeOK, EndInv, NEW m \in wire, RunScript(m)
    PROVE  EndInv'
<1> DEFINE s == WindowStart(m)
           k == Incremented(Read(s), m)
<1>1. s \in Starts /\ snapshot' = snapshot /\ m.policy \in Policies
    BY CommandFacts DEF RunScript
<1>2. CASE counter' = counter
    BY <1>1, <1>2 DEF EndInv, EndsWell, End
<1>3. CASE counter' = [counter EXCEPT ![s] = k]
    <2>1. EndsWell(k, s)
        <3>1. CASE Read(s) = Absent
            BY <1>1, <3>1, IncrementedFacts DEF EndsWell
        <3>2. CASE Read(s) # Absent
            <4>1. counter[s] # Absent
                BY <1>1, <3>2, KeyTypes
            <4>2. \E p \in Policies : counter[s].expireAt = End(s, p)
                BY <1>1, <4>1 DEF EndInv, EndsWell
            <4>3. k = Absent \/ k.expireAt = counter[s].expireAt
                BY <1>1, <3>2, IncrementedFacts
            <4>4. QED
                BY <4>2, <4>3 DEF EndsWell
        <3>3. QED
            BY <3>1, <3>2
    <2>2. counter'[s] = k /\ \A r \in Starts \ {s} : counter'[r] = counter[r]
        BY <1>1, <1>3 DEF TypeOK
    <2> HIDE DEF s, k
    <2>3. QED
        BY <1>1, <2>1, <2>2 DEF EndInv, EndsWell, End
<1>4. QED
    BY <1>2, <1>3 DEF RunScript

LEMMA EndStep == TypeInv /\ EndInv /\ [Next]_vars => EndInv'
<1> SUFFICES ASSUME TypeInv, EndInv, [Next]_vars
             PROVE  EndInv'
    OBVIOUS
<1> USE DEF TypeInv
<1>1. ASSUME NEW m \in wire, RunScript(m)
      PROVE  EndInv'
    BY <1>1, RunScriptEnds
<1>2. CASE Dump
    BY <1>2 DEF Dump, Read, EndInv, EndsWell, End
<1>3. CASE Restart
    BY <1>3 DEF Restart, EndInv, EndsWell, End
<1>4. CASE UNCHANGED <<counterVars, history>>
    BY <1>4 DEF counterVars, EndInv, EndsWell, End
<1>5. QED
    BY <1>1, <1>2, <1>3, <1>4 DEF Next, ClientStep, Idling, vars

LEMMA EndInvariant == Spec => [](TypeInv /\ EndInv)
<1>1. Init => EndInv
    BY DEF Init, EndInv, EndsWell
<1>2. QED
    BY <1>1, TypeInvariant, EndStep, PTL DEF Spec

(* No counter is kept for longer than a window, also after restarts.       *)
THEOREM CountersEnd == Spec => []CounterEndsWithItsWindow
<1>1. EndInv => CounterEndsWithItsWindow
    BY DEF EndInv, EndsWell, End, CounterEndsWithItsWindow
<1>2. QED
    BY <1>1, EndInvariant, PTL

-----------------------------------------------------------------------------
(***************************************************************************)
(* The bound on admissions.                                                *)
(*                                                                         *)
(* The bound says nothing of the counters and is not inductive.  What      *)
(* makes it so: until the shortest window that starts with it has ended, a *)
(* counter knows of every admission, apart from those forgotten in a       *)
(* restart, and it cannot expire before (EndInv); after that, every script *)
(* counts as late.                                                         *)
(***************************************************************************)
Knows(s) == Over(s) \/ granted[s] <= counter[s].count + lost[s]

BoundInv ==
    \A s \in Starts : /\ granted[s] <= TopLimit + late[s] + lost[s]
                      /\ Knows(s)

LEMMA OverFacts ==
    ASSUME NEW s
    PROVE  Over(s) <=> \E p \in Policies : now >= End(s, p)
BY DEF Over, End

LEMMA RunScriptBound ==
    ASSUME TypeInv, EndInv, BoundInv, NEW m \in wire, RunScript(m),
           NEW r \in Starts
    PROVE  /\ granted'[r] <= TopLimit + late'[r] + lost'[r]
           /\ Over(r) \/ granted'[r] <= counter'[r].count + lost'[r]
<1> DEFINE s == WindowStart(m)
           k == Incremented(Read(s), m)
<1> USE DEF TypeInv
<1>1. /\ s \in Starts /\ m.policy \in Policies
      /\ lost' = lost
      /\ now \in Nat /\ \A p \in Policies : End(s, p) \in Nat
    BY CommandFacts, StartFacts DEF RunScript, TypeOK, ClientTypeOK
<1>2. late' = IF Over(s) THEN [late EXCEPT ![s] = @ + 1] ELSE late
    BY DEF RunScript
<1>3. /\ granted[r] \in Nat /\ late[r] \in Nat /\ lost[r] \in Nat
      /\ counter[r].count \in Nat /\ TopLimit \in Nat
      /\ granted[r] <= TopLimit + late[r] + lost[r]
      /\ Knows(r)
    BY <1>1, KeyTypes, StartFacts DEF BoundInv
<1>4. late'[r] \in Nat /\ late[r] <= late'[r]
    BY <1>1, <1>2, <1>3 DEF TypeOK
<1>5. CASE UNCHANGED <<counter, granted>>
    BY <1>1, <1>3, <1>4, <1>5 DEF Knows
<1>6. CASE /\ Read(s).count < Limit[m.policy]
           /\ counter' = [counter EXCEPT ![s] = k]
           /\ granted' = [granted EXCEPT ![s] = @ + 1]
    <2>1. CASE r # s
        <3>1. granted'[r] = granted[r] /\ counter'[r] = counter[r]
            BY <1>6, <2>1 DEF TypeOK
        <3>2. QED
            BY <1>1, <1>3, <1>4, <3>1 DEF Knows
    <2>2. CASE r = s /\ Over(s)
        <3>1. granted'[r] = granted[r] + 1 /\ late'[r] = late[r] + 1
            BY <1>2, <1>6, <2>2 DEF TypeOK
        <3>2. QED
            BY <1>1, <1>3, <2>2, <3>1
    <2>3. CASE r = s /\ ~Over(s)
        <3>1. granted'[r] = granted[r] + 1 /\ counter'[r] = k /\ late'[r] = late[r]
            BY <1>1, <1>2, <1>6, <2>3 DEF TypeOK
        <3>2. \A p \in Policies : now < End(s, p)
            BY <1>1, <2>3, OverFacts
        <3>3. Read(s) = counter[s]
            <4>1. \A p \in Policies : ~(now > End(s, p))
                BY <1>1, <3>2
            <4>2. ~Expired(counter[s])
                BY <1>1, <4>1 DEF Expired, EndInv, EndsWell
            <4>3. QED
                BY <4>2 DEF Read
        <3>4. granted[r] <= counter[r].count + lost[r]
            BY <1>3, <2>3 DEF Knows
        <3>5. k.count = counter[r].count + 1
            BY <1>1, <2>3, <3>2, <3>3, IncrementedFacts
        <3>6. counter[r].count < TopLimit
            BY <1>1, <1>3, <1>6, <2>3, <3>3, StartFacts
        <3> HIDE DEF k, s
        <3>7. granted[r] + 1 <= TopLimit + late[r] + lost[r]
            BY <1>3, <3>4, <3>6
        <3>8. granted[r] + 1 <= k.count + lost[r]
            BY <1>3, <3>4, <3>5
        <3>9. QED
            BY <1>1, <3>1, <3>7, <3>8
    <2>4. QED
        BY <1>1, <2>1, <2>2, <2>3
<1>7. QED
    BY <1>5, <1>6 DEF RunScript

LEMMA RestartBound ==
    ASSUME TypeInv, BoundInv, Restart, NEW s \in Starts
    PROVE  /\ granted'[s] <= TopLimit + late'[s] + lost'[s]
           /\ Over(s) \/ granted'[s] <= counter'[s].count + lost'[s]
<1>1. /\ counter' = snapshot /\ granted' = granted /\ late' = late
      /\ lost'[s] = lost[s] + Forgotten(s)
    BY DEF Restart
<1>2. /\ granted[s] \in Nat /\ late[s] \in Nat /\ lost[s] \in Nat
      /\ counter[s].count \in Nat /\ snapshot[s].count \in Nat
      /\ TopLimit \in Nat /\ Forgotten(s) \in Nat
      /\ granted[s] <= TopLimit + late[s] + lost[s]
      /\ Knows(s)
    BY KeyTypes, FixedWindowAssumption DEF TypeInv, BoundInv
<1>3. counter[s].count <= snapshot[s].count + Forgotten(s)
    BY <1>2 DEF Forgotten, AtLeast
<1>4. QED
    BY <1>1, <1>2, <1>3 DEF Knows

LEMMA BoundStep == TypeInv /\ EndInv /\ BoundInv /\ [Next]_vars => BoundInv'
<1> SUFFICES ASSUME TypeInv, EndInv, BoundInv, [Next]_vars
             PROVE  \A s \in Starts : /\ granted'[s] <= TopLimit + late'[s] + lost'[s]
                                      /\ Knows(s)'
    BY DEF BoundInv
<1>1. ASSUME NEW m \in wire, RunScript(m), NEW s \in Starts
      PROVE  granted'[s] <= TopLimit + late'[s] + lost'[s] /\ Knows(s)'
    <2>1. now' = now
        BY <1>1 DEF RunScript, Execute
    <2>2. QED
        BY <1>1, <2>1, RunScriptBound DEF Knows, Over
<1>2. ASSUME Restart, NEW s \in Starts
      PROVE  granted'[s] <= TopLimit + late'[s] + lost'[s] /\ Knows(s)'
    <2>1. now' = now
        BY <1>2 DEF Restart, clientVars
    <2>2. QED
        BY <1>2, <2>1, RestartBound DEF Knows, Over
<1>3. ASSUME UNCHANGED <<counter, history>>, NEW later \in Nat,
             now' = later, now <= later, NEW s \in Starts
      PROVE  granted'[s] <= TopLimit + late'[s] + lost'[s] /\ Knows(s)'
    <2>1. counter' = counter /\ granted' = granted /\ late' = late /\ lost' = lost
        BY <1>3 DEF history
    <2>2. now \in Nat /\ \A p \in Policies : End(s, p) \in Nat
        BY StartFacts DEF TypeInv, TypeOK, ClientTypeOK
    <2>3. Over(s) => \E p \in Policies : later >= End(s, p)
        BY <1>3, <2>2, OverFacts
    <2>4. Knows(s)'
        <3>1. Over(s) => Over(s)'
            BY <1>3, <2>3 DEF Over, End
        <3>2. QED
            BY <1>3, <2>1, <3>1 DEF Knows, BoundInv
    <2>5. QED
        BY <2>1, <2>4 DEF BoundInv
<1>4. CASE \E c \in Callers : ClientStep(c)
    <2>1. UNCHANGED <<counter, history>> /\ now' = now /\ now \in Nat
        BY <1>4 DEF ClientStep, counterVars, Begin, Deliver, Retry, GiveUp,
                    TypeInv, TypeOK, ClientTypeOK
    <2>2. QED
        BY <2>1, <1>3
<1>5. CASE Dump
    <2>1. UNCHANGED <<counter, history>> /\ now' = now /\ now \in Nat
        BY <1>5 DEF Dump, clientVars, TypeInv, TypeOK, ClientTypeOK
    <2>2. QED
        BY <2>1, <1>3
<1>6. CASE Idling
    <2>1. UNCHANGED <<counter, history>> /\ now \in Nat
        BY <1>6 DEF Idling, counterVars, TypeInv, TypeOK, ClientTypeOK
    <2>2. now' = now \/ now' = now + 1
        BY <1>6 DEF Idling, Tick, Quiet, clientVars
    <2>3. PICK later \in Nat : now' = later /\ now <= later
        BY <2>1, <2>2
    <2>4. QED
        BY <2>1, <2>3, <1>3
<1>7. CASE UNCHANGED vars
    <2>1. UNCHANGED <<counter, history>> /\ now' = now /\ now \in Nat
        BY <1>7 DEF vars, counterVars, clientVars, TypeInv, TypeOK, ClientTypeOK
    <2>2. QED
        BY <2>1, <1>3
<1>8. QED
    BY <1>1, <1>2, <1>4, <1>5, <1>6, <1>7 DEF Next

(* No window admits more than the largest limit in use, apart from late    *)
(* scripts and from what restarts forgot (fixed_window.go:25-43).          *)
THEOREM WindowsAreBounded == Spec => []WindowBound
<1>1. Init => BoundInv
    BY FixedWindowAssumption DEF Init, BoundInv, Knows, Absent
<1>2. BoundInv => WindowBound
    BY DEF BoundInv, WindowBound
<1>3. QED
    BY <1>1, <1>2, EndInvariant, BoundStep, PTL DEF Spec

-----------------------------------------------------------------------------
(***************************************************************************)
(* Charges and answers: what the client keeps in balance, the scripts      *)
(* keep up.                                                                *)
(***************************************************************************)
Balanced == ChargeInv(charges)

LEMMA BalanceStep == TypeInv /\ Balanced /\ [Next]_vars => Balanced'
<1> SUFFICES ASSUME TypeInv, Balanced, [Next]_vars
             PROVE  Balanced'
    OBVIOUS
<1>1. PICK g \in Nat : g = charges
    BY DEF TypeInv, TypeOK
<1>2. ClientInv /\ ChargeInv(g)
    BY <1>1 DEF TypeInv, Balanced, ClientInv
<1>3. ASSUME NEW h \in Nat, ChargeInv(h)', charges' = h
      PROVE  Balanced'
    BY <1>3 DEF Balanced, ChargeInv, Charged
<1>4. ASSUME NEW c \in Callers, ClientStep(c)
      PROVE  Balanced'
    <2>1. ChargeInv(g)'
        BY <1>2, <1>4, ClientCharge DEF ClientStep
    <2>2. charges' = g
        BY <1>1, <1>4 DEF ClientStep, history
    <2>3. QED
        BY <1>3, <2>1, <2>2
<1>5. ASSUME NEW m \in wire, RunScript(m)
      PROVE  Balanced'
    <2> DEFINE allowed == Read(WindowStart(m)).count < Limit[m.policy]
    <2>1. /\ allowed \in BOOLEAN /\ Execute(m, allowed)
          /\ charges' = IF allowed THEN charges + 1 ELSE charges
        BY <1>5 DEF RunScript
    <2> HIDE DEF allowed
    <2>2. PICK h \in Nat : h = IF allowed THEN g + 1 ELSE g
        OBVIOUS
    <2>3. ChargeInv(h)'
        BY <1>2, <2>1, <2>2, ExecuteCharge
    <2>4. charges' = h
        BY <1>1, <2>1, <2>2
    <2>5. QED
        BY <1>3, <2>3, <2>4
<1>6. ASSUME UNCHANGED <<wire, call, calls, told, breaks, charges>>
      PROVE  Balanced'
    <2>1. ChargeInv(g)'
        BY <1>2, <1>6, QuietCharge
    <2>2. QED
        BY <1>1, <1>3, <1>6, <2>1
<1>7. CASE Dump
    BY <1>6, <1>7 DEF Dump, clientVars, history
<1>8. CASE Restart
    BY <1>6, <1>8 DEF Restart, clientVars
<1>9. CASE Idling
    BY <1>6, <1>9 DEF Idling, Tick, Quiet, clientVars, history
<1>10. CASE UNCHANGED vars
    BY <1>6, <1>10 DEF vars, clientVars, history
<1>11. QED
    BY <1>4, <1>5, <1>7, <1>8, <1>9, <1>10 DEF Next

LEMMA BalanceInvariant == Spec => [](TypeInv /\ Balanced)
<1>1. Init => Balanced
    <2> SUFFICES ASSUME Init PROVE Balanced
        OBVIOUS
    <2>1. ChargeInv(0) /\ charges = 0
        BY InitCharge DEF Init
    <2>2. QED
        BY <2>1 DEF Balanced
<1>2. QED
    BY <1>1, TypeInvariant, BalanceStep, PTL DEF Spec

(* No window admitted more than all of them.                               *)
TotalInv == \A s \in Starts : granted[s] <= charges

LEMMA TotalStep == TypeInv /\ TotalInv /\ [Next]_vars => TotalInv'
<1> SUFFICES ASSUME TypeInv, TotalInv, [Next]_vars
             PROVE  TotalInv'
    OBVIOUS
<1>1. granted \in [Starts -> Nat] /\ charges \in Nat
    BY DEF TypeInv, TypeOK
<1>2. CASE UNCHANGED <<granted, charges>>
    BY <1>2 DEF TotalInv
<1>3. ASSUME NEW r \in Starts, granted' = [granted EXCEPT ![r] = @ + 1], charges' = charges + 1
      PROVE  TotalInv'
    BY <1>1, <1>3 DEF TotalInv
<1>4. ASSUME NEW m \in wire, RunScript(m)
      PROVE  TotalInv'
    BY <1>2, <1>3, <1>4 DEF RunScript
<1>5. QED
    BY <1>2, <1>4 DEF Next, ClientStep, Dump, Restart, Idling, vars, history

(* An answer "allowed" is never given without a charge, and a charge that  *)
(* no answer tells of has a broken connection to account for it, in the    *)
(* counters as well (fixed_window.go:52-62 over the retries of             *)
(* redis.go:14-20).                                                        *)
THEOREM ChargesMatch == Spec => []ChargesMatchAnswers
<1>1. Init => EarnedInv /\ TotalInv
    BY DEF Init, EarnedInv, Earned, Absent, TotalInv
<1>2. ASSUME TypeInv, Balanced, EarnedInv, TotalInv
      PROVE  ChargesMatchAnswers
    <2>1. PICK g \in Nat : g = charges
        BY <1>2 DEF TypeInv, TypeOK
    <2>2. ClientInv /\ ChargeInv(g)
        BY <1>2, <2>1 DEF TypeInv, Balanced
    <2>3. MatchesAnswers(g) /\ told + Cardinality(OnTheWay) + breaks \in Nat
        BY <2>2, ChargesAreAnswered, FiniteCounts
    <2>4. ASSUME NEW s \in Starts
          PROVE  Read(s).count <= told + Cardinality(OnTheWay) + breaks
        <3>1. Read(s).count <= granted[s]
            BY <1>2, KeyTypes DEF TypeInv, EarnedInv, Earned, Absent
        <3>2. granted[s] <= charges /\ granted[s] \in Nat /\ Read(s).count \in Nat
            BY <1>2, KeyTypes DEF TypeInv, TotalInv
        <3>3. PICK n : n = told + Cardinality(OnTheWay) + breaks
            OBVIOUS
        <3>4. g <= n /\ n \in Nat
            BY <2>3, <3>3 DEF MatchesAnswers
        <3>5. Read(s).count <= n
            BY <2>1, <3>1, <3>2, <3>4
        <3>6. QED
            BY <3>3, <3>5
    <2>5. QED
        BY <2>1, <2>3, <2>4 DEF ChargesMatchAnswers, MatchesAnswers
<1>3. QED
    BY <1>1, <1>2, EarnedStep, TotalStep, BalanceInvariant, PTL DEF Spec
=============================================================================
