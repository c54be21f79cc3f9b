------------------------- MODULE RedisClientProofs -------------------------
(* What every step of the Redis client keeps true. *)
EXTENDS RedisClient, TLAPS, FiniteSetTheorems

(* Redis's clock starts MaxSkew ticks from zero, so that no clock reads    *)
(* less than zero.                                                         *)
ClientInv == ClientTypeOK /\ now >= MaxSkew

USE RedisClientAssumption

(* No command carries a stamp that is further ahead than the clocks are.   *)
OnTime(m) == m.stamp <= now + MaxSkew

StampInv ==
    /\ \A m \in wire : OnTime(m)
    /\ \A c \in Callers : call[c] # Idle => OnTime(call[c].cmd)

LEMMA ClientInitInv == ClientInit => ClientInv
BY DEF ClientInit, ClientInv, ClientTypeOK, CallState

(* A check that begins puts a well-formed command on the wire.             *)
LEMMA BeginInv ==
    ASSUME ClientInv, NEW c \in Callers, NEW p \in Policies, Begin(c, p)
    PROVE  ClientInv'
<1>1. PICK stamp \in Clocks :
        LET m == [id |-> calls + 1, try |-> 0, policy |-> p, stamp |-> stamp]
        IN  /\ call' = [call EXCEPT ![c] = Waiting(m)]
            /\ wire' = wire \cup {m}
    BY DEF Begin
<1> DEFINE m == [id |-> calls + 1, try |-> 0, policy |-> p, stamp |-> stamp]
<1>2. stamp \in Nat
    BY DEF Clocks, ClientInv, ClientTypeOK
<1>3. m \in Command
    BY <1>2 DEF Command, ClientInv, ClientTypeOK
<1>4. Waiting(m) \in CallState
    BY <1>3 DEF CallState, Waiting
<1>5. QED
    BY <1>1, <1>3, <1>4 DEF ClientInv, ClientTypeOK, Begin

(* What a goroutine waits for is a well-formed command.                    *)
LEMMA BusyCommand ==
    ASSUME ClientTypeOK, NEW c \in Callers, call[c] # Idle
    PROVE  call[c].cmd \in Command
BY DEF ClientTypeOK, CallState, Idle

(* An answered, repeated or abandoned attempt leaves a well-formed state.  *)
LEMMA CallerStepInv ==
    ASSUME ClientInv, NEW c \in Callers,
           Deliver(c) \/ Retry(c) \/ GiveUp(c)
    PROVE  ClientInv'
<1>0. Idle \in CallState
    BY DEF CallState
<1>1. CASE Deliver(c)
    BY <1>0, <1>1 DEF Deliver, ClientInv, ClientTypeOK
<1>2. CASE Retry(c)
    <2> DEFINE m     == call[c].cmd
               again == [m EXCEPT !.try = @ + 1]
    <2>1. m \in Command
        BY <1>2, BusyCommand DEF Retry, ClientInv
    <2>2. again \in Command
        BY <2>1 DEF Command
    <2>3. Waiting(again) \in CallState
        BY <2>2 DEF CallState, Waiting
    <2>4. call' = [call EXCEPT ![c] = Waiting(again)]
        BY <1>2 DEF Retry
    <2>5. \E left \in AfterBreak(m) : wire' = left \cup {again}
        BY <1>2 DEF Retry
    <2>6. wire' \in SUBSET Command
        BY <2>2, <2>5 DEF AfterBreak, ClientInv, ClientTypeOK
    <2>7. QED
        BY <1>2, <2>3, <2>4, <2>6 DEF Retry, ClientInv, ClientTypeOK
<1>3. CASE GiveUp(c)
    BY <1>0, <1>3 DEF GiveUp, AfterBreak, ClientInv, ClientTypeOK
<1>4. QED
    BY <1>1, <1>2, <1>3

(* Executing a command answers at most a goroutine that waits for it.      *)
LEMMA ExecuteInv ==
    ASSUME ClientInv, NEW m \in wire, NEW allowed \in BOOLEAN,
           Execute(m, allowed)
    PROVE  ClientInv'
<1>1. m \in Command
    BY DEF ClientInv, ClientTypeOK
<1>2. Replied(m, allowed) \in CallState
    BY <1>1 DEF CallState, Replied
<1>3. call' \in [Callers -> CallState]
    BY <1>2 DEF Execute, ClientInv, ClientTypeOK
<1>4. QED
    BY <1>3 DEF Execute, ClientInv, ClientTypeOK

(* The clock only goes forward.                                            *)
LEMMA IdlingInv ==
    ASSUME ClientInv, Tick \/ Quiet
    PROVE  ClientInv'
BY DEF Tick, Quiet, clientVars, ClientInv, ClientTypeOK

(* A step that leaves the client's variables alone keeps its invariant.    *)
LEMMA ClientStutterInv ==
    ASSUME ClientInv, UNCHANGED clientVars
    PROVE  ClientInv'
BY DEF clientVars, ClientInv, ClientTypeOK

(* A repeated attempt carries the stamp of the first, so that no step puts *)
(* a stamp from the future into a command.                                 *)
LEMMA StampStep ==
    ASSUME ClientInv, StampInv, NEW c \in Callers,
           \/ \E p \in Policies : Begin(c, p)
           \/ Deliver(c)
           \/ Retry(c)
           \/ GiveUp(c)
    PROVE  StampInv'
<1>0. now' = now
    BY DEF Begin, Deliver, Retry, GiveUp
<1>1. CASE \E p \in Policies : Begin(c, p)
    <2>1. PICK p \in Policies : Begin(c, p)
        BY <1>1
    <2>2. PICK stamp \in Clocks :
            LET m == [id |-> calls + 1, try |-> 0, policy |-> p, stamp |-> stamp]
            IN  /\ call' = [call EXCEPT ![c] = Waiting(m)]
                /\ wire' = wire \cup {m}
        BY <2>1 DEF Begin
    <2> DEFINE m == [id |-> calls + 1, try |-> 0, policy |-> p, stamp |-> stamp]
    <2>3. m.stamp <= now + MaxSkew
        BY DEF Clocks, ClientInv, ClientTypeOK
    <2>4. \A x \in wire' : x.stamp <= now + MaxSkew
        BY <2>2, <2>3 DEF StampInv, OnTime
    <2>5. call'[c] = Waiting(m) /\ \A d \in Callers \ {c} : call'[d] = call[d]
        BY <2>2 DEF ClientInv, ClientTypeOK
    <2>6. Waiting(m).cmd = m
        BY DEF Waiting
    <2>7. \A d \in Callers : call'[d] # Idle => call'[d].cmd.stamp <= now + MaxSkew
        BY <2>3, <2>5, <2>6 DEF StampInv, OnTime
    <2>8. QED
        BY <1>0, <2>4, <2>7 DEF StampInv, OnTime
<1>2. CASE Deliver(c) \/ GiveUp(c)
    <2>1. wire' \subseteq wire
        BY <1>2 DEF Deliver, GiveUp, AfterBreak
    <2>2. call' = [call EXCEPT ![c] = Idle]
        BY <1>2 DEF Deliver, GiveUp
    <2>3. QED
        BY <1>0, <2>1, <2>2 DEF StampInv, OnTime, ClientInv, ClientTypeOK
<1>3. CASE Retry(c)
    <2> DEFINE m     == call[c].cmd
               again == [m EXCEPT !.try = @ + 1]
    <2>1. m \in Command /\ OnTime(m)
        BY <1>3, BusyCommand DEF Retry, ClientInv, StampInv
    <2>2. again.stamp = m.stamp
        BY <2>1 DEF Command
    <2>3. Waiting(again).cmd = again
        BY DEF Waiting
    <2>4. call' = [call EXCEPT ![c] = Waiting(again)]
        BY <1>3 DEF Retry
    <2>5. \E left \in AfterBreak(m) : wire' = left \cup {again}
        BY <1>3 DEF Retry
    <2>6. wire' \subseteq wire \cup {again}
        BY <2>5 DEF AfterBreak
    <2>7. call'[c] = Waiting(again) /\ \A d \in Callers \ {c} : call'[d] = call[d]
        BY <2>4 DEF ClientInv, ClientTypeOK
    <2>8. again.stamp <= now + MaxSkew
        BY <2>1, <2>2 DEF OnTime
    <2>9. \A x \in wire' : x.stamp <= now + MaxSkew
        BY <2>6, <2>8 DEF StampInv, OnTime
    <2>10. \A d \in Callers : call'[d] # Idle => call'[d].cmd.stamp <= now + MaxSkew
        BY <2>3, <2>7, <2>8 DEF StampInv, OnTime
    <2>11. QED
        BY <1>0, <2>9, <2>10 DEF StampInv, OnTime
<1>4. QED
    BY <1>1, <1>2, <1>3

(* Executing a command adds none.                                          *)
LEMMA ExecuteStamp ==
    ASSUME ClientInv, StampInv, NEW m \in wire, NEW allowed \in BOOLEAN,
           Execute(m, allowed)
    PROVE  StampInv'
<1>1. wire' \subseteq wire /\ now' = now
    BY DEF Execute
<1>2. Waiting(m).cmd = m /\ Replied(m, allowed).cmd = m
    BY DEF Waiting, Replied
<1>3. ASSUME NEW d \in Callers
      PROVE  call'[d] = call[d] \/ (call'[d] = Replied(m, allowed) /\ call[d] = Waiting(m))
    BY <1>3 DEF Execute
<1>4. ASSUME NEW d \in Callers, call'[d] # Idle
      PROVE  OnTime(call'[d].cmd)
    BY <1>2, <1>3, <1>4 DEF StampInv
<1>5. QED
    BY <1>1, <1>4 DEF StampInv, OnTime

LEMMA IdlingStamp ==
    ASSUME ClientInv, StampInv, Tick \/ Quiet
    PROVE  StampInv'
<1>1. now' \in Nat /\ now <= now' /\ wire' = wire /\ call' = call
    BY DEF Tick, Quiet, clientVars, ClientInv, ClientTypeOK
<1>2. \A m \in Command : OnTime(m) => m.stamp <= now' + MaxSkew
    BY <1>1 DEF OnTime, Command, ClientInv, ClientTypeOK
<1>3. \A c \in Callers : call[c] # Idle => call[c].cmd \in Command
    BY BusyCommand DEF ClientInv
<1>4. QED
    BY <1>1, <1>2, <1>3 DEF StampInv, OnTime, ClientInv, ClientTypeOK

LEMMA ClientStutterStamp ==
    ASSUME StampInv, UNCHANGED clientVars
    PROVE  StampInv'
BY DEF clientVars, StampInv, OnTime

-----------------------------------------------------------------------------
(***************************************************************************)
(* Who waits for which command, and the answers that are on their way.     *)
(***************************************************************************)
(* No two goroutines wait for the same check.                              *)
OwnIds ==
    \A c \in Callers : call[c] # Idle =>
        /\ call[c].cmd.id <= calls
        /\ \A d \in Callers : (call[d] # Idle /\ call[d].cmd.id = call[c].cmd.id) => d = c

LEMMA CallShapes ==
    /\ \A m : Waiting(m) # Idle /\ Waiting(m).cmd = m /\ Waiting(m).pc = "waiting"
    /\ \A m, a : Replied(m, a) # Idle /\ Replied(m, a).cmd = m
                 /\ Replied(m, a).pc = "replied" /\ Replied(m, a).allowed = a
    /\ \A m, n : Waiting(m) = Waiting(n) => m = n
    /\ \A m, n, a : Waiting(m) # Replied(n, a)
    /\ Idle.pc = "idle"
<1>1. \A m : Waiting(m).pc = "waiting" /\ Waiting(m).cmd = m
    BY DEF Waiting
<1>2. \A m, a : Replied(m, a).cmd = m /\ Replied(m, a).pc = "replied" /\ Replied(m, a).allowed = a
    BY DEF Replied
<1>3. Idle.pc = "idle"
    BY DEF Idle
<1>4. QED
    BY <1>1, <1>2, <1>3

LEMMA WayIsFinite == IsFiniteSet(OnTheWay) /\ Cardinality(OnTheWay) \in Nat
<1>1. OnTheWay \in SUBSET Callers
    BY DEF OnTheWay
<1>2. QED
    BY <1>1, FS_Subset, FS_CardinalityType, RedisClientAssumption

(* A step that changes the state of one goroutine c only.                  *)
Moves(c, state) == call' = [call EXCEPT ![c] = state]

LEMMA MovesFacts ==
    ASSUME ClientTypeOK, NEW c \in Callers, NEW state, Moves(c, state)
    PROVE  call'[c] = state /\ \A d \in Callers \ {c} : call'[d] = call[d]
BY DEF Moves, ClientTypeOK

(* Goroutines that become idle, or keep their check, keep their ids apart. *)
LEMMA SameIds ==
    ASSUME OwnIds, calls' = calls,
           \A d \in Callers :
               call'[d] # Idle => call[d] # Idle /\ call'[d].cmd.id = call[d].cmd.id
    PROVE  OwnIds'
BY DEF OwnIds

(* A check that begins has a number nobody had before, and no answer yet.  *)
LEMMA BeginWay ==
    ASSUME ClientInv, OwnIds, NEW c \in Callers, NEW p \in Policies, Begin(c, p)
    PROVE  OwnIds' /\ OnTheWay' = OnTheWay
<1>1. PICK stamp \in Clocks :
        LET m == [id |-> calls + 1, try |-> 0, policy |-> p, stamp |-> stamp]
        IN  /\ call' = [call EXCEPT ![c] = Waiting(m)]
            /\ wire' = wire \cup {m}
    BY DEF Begin
<1> DEFINE m == [id |-> calls + 1, try |-> 0, policy |-> p, stamp |-> stamp]
<1>2. call[c] = Idle /\ calls' = calls + 1
    BY DEF Begin
<1>3. call'[c] = Waiting(m) /\ \A d \in Callers \ {c} : call'[d] = call[d]
    BY <1>1, MovesFacts DEF Moves, ClientInv
<1>4. OnTheWay' = OnTheWay
    BY <1>2, <1>3, CallShapes DEF OnTheWay
<1>5. calls \in Nat
    BY DEF ClientInv, ClientTypeOK
<1>6. \A d \in Callers : call[d] # Idle => call[d].cmd.id \in Nat /\ call[d].cmd.id <= calls
    BY BusyCommand DEF OwnIds, ClientInv, Command
<1>7. call'[c].cmd.id = calls + 1
    BY <1>3, CallShapes
<1>8. \A d \in Callers \ {c} : call'[d] # Idle =>
        call'[d].cmd.id \in Nat /\ call'[d].cmd.id <= calls
    BY <1>3, <1>6
<1>9. ASSUME NEW d \in Callers, call'[d] # Idle
      PROVE  /\ call'[d].cmd.id <= calls'
             /\ \A e \in Callers :
                  (call'[e] # Idle /\ call'[e].cmd.id = call'[d].cmd.id) => e = d
    <2>1. CASE d = c
        BY <1>2, <1>5, <1>7, <1>8, <2>1
    <2>2. CASE d # c
        <3>1. call'[d].cmd.id \in Nat /\ call'[d].cmd.id <= calls
            BY <1>8, <1>9, <2>2
        <3>2. \A e \in Callers \ {c} :
                (call'[e] # Idle /\ call'[e].cmd.id = call'[d].cmd.id) => e = d
            BY <1>3, <1>9, <2>2 DEF OwnIds
        <3>3. call'[c].cmd.id # call'[d].cmd.id
            BY <1>5, <1>7, <3>1
        <3>4. QED
            BY <1>2, <1>5, <3>1, <3>2, <3>3
    <2>3. QED
        BY <2>1, <2>2
<1>10. QED
    BY <1>4, <1>9 DEF OwnIds

(* After a break a goroutine is idle, or waits for its check again.        *)
LEMMA BreakMoves ==
    ASSUME ClientInv, NEW c \in Callers, Retry(c) \/ GiveUp(c)
    PROVE  LET again == [call[c].cmd EXCEPT !.try = @ + 1]
           IN  /\ call[c].cmd \in Command
               /\ again.id = call[c].cmd.id
               /\ \/ Moves(c, Idle) /\ wire' \subseteq wire
                  \/ Moves(c, Waiting(again)) /\ wire' \subseteq wire \cup {again}
<1> DEFINE m     == call[c].cmd
           again == [m EXCEPT !.try = @ + 1]
<1>1. m \in Command
    BY BusyCommand DEF Retry, GiveUp, ClientInv
<1>2. again.id = m.id
    BY <1>1 DEF Command
<1>3. CASE Retry(c)
    <2>1. call' = [call EXCEPT ![c] = Waiting(again)]
        BY <1>3 DEF Retry
    <2>2. \E left \in AfterBreak(m) : wire' = left \cup {again}
        BY <1>3 DEF Retry
    <2>3. wire' \subseteq wire \cup {again}
        BY <2>2 DEF AfterBreak
    <2>4. QED
        BY <1>1, <1>2, <2>1, <2>3 DEF Moves
<1>4. CASE GiveUp(c)
    <2>1. wire' \subseteq wire /\ Moves(c, Idle)
        BY <1>4 DEF GiveUp, AfterBreak, Moves
    <2>2. QED
        BY <1>1, <1>2, <2>1
<1>5. QED
    BY <1>3, <1>4

(* An answer that is taken, or lost in a break, is not on its way.         *)
LEMMA CallerStepWay ==
    ASSUME ClientInv, OwnIds, NEW c \in Callers, Deliver(c) \/ Retry(c) \/ GiveUp(c)
    PROVE  OwnIds' /\ OnTheWay' = OnTheWay \ {c}
<1>1. calls' = calls /\ call[c] # Idle
    BY CallShapes DEF Deliver, Retry, GiveUp
<1>2. PICK new : /\ Moves(c, new)
                 /\ new.pc # "replied"
                 /\ new # Idle => new.cmd.id = call[c].cmd.id
    <2>1. CASE Deliver(c)
        BY <2>1, CallShapes DEF Deliver, Moves
    <2>2. CASE Retry(c) \/ GiveUp(c)
        <3> DEFINE again == [call[c].cmd EXCEPT !.try = @ + 1]
        <3>1. again.id = call[c].cmd.id /\ (Moves(c, Idle) \/ Moves(c, Waiting(again)))
            BY <2>2, BreakMoves
        <3> HIDE DEF again
        <3>2. CASE Moves(c, Idle)
            BY <3>2, CallShapes
        <3>3. CASE Moves(c, Waiting(again))
            BY <3>1, <3>3, CallShapes
        <3>4. QED
            BY <3>1, <3>2, <3>3
    <2>3. QED
        BY <2>1, <2>2
<1>3. call'[c] = new /\ \A d \in Callers \ {c} : call'[d] = call[d]
    BY <1>2, MovesFacts DEF ClientInv
<1>4. OwnIds'
    BY <1>1, <1>2, <1>3, SameIds
<1>5. OnTheWay' = OnTheWay \ {c}
    BY <1>2, <1>3 DEF OnTheWay
<1>6. QED
    BY <1>4, <1>5

(* A script's answer goes to one goroutine, or to nobody.                  *)
LEMMA ExecuteWay ==
    ASSUME ClientInv, OwnIds, NEW m \in wire, NEW allowed \in BOOLEAN,
           Execute(m, allowed)
    PROVE  /\ OwnIds'
           /\ \/ /\ \A c \in Callers : call[c] # Waiting(m)
                 /\ OnTheWay' = OnTheWay
              \/ \E c \in Callers \ OnTheWay :
                    /\ call[c] = Waiting(m)
                    /\ OnTheWay' = IF allowed THEN OnTheWay \cup {c} ELSE OnTheWay
<1>1. /\ calls' = calls
      /\ \A d \in Callers : call'[d] = IF call[d] = Waiting(m) THEN Replied(m, allowed)
                                       ELSE call[d]
    BY DEF Execute
<1>2. OwnIds'
    <2>1. \A d \in Callers :
            call'[d] # Idle => call[d] # Idle /\ call'[d].cmd.id = call[d].cmd.id
        BY <1>1, CallShapes
    <2>2. QED
        BY <1>1, <2>1, SameIds
<1>3. CASE \A c \in Callers : call[c] # Waiting(m)
    <2>1. \A d \in Callers : call'[d] = call[d]
        BY <1>1, <1>3
    <2>2. QED
        BY <1>2, <1>3, <2>1 DEF OnTheWay
<1>4. CASE \E c \in Callers : call[c] = Waiting(m)
    <2>1. PICK c \in Callers : call[c] = Waiting(m)
        BY <1>4
    <2>2. \A d \in Callers : call[d] = Waiting(m) => d = c
        BY <2>1, CallShapes DEF OwnIds
    <2>3. call'[c] = Replied(m, allowed) /\ \A d \in Callers \ {c} : call'[d] = call[d]
        BY <1>1, <2>1, <2>2
    <2>4. c \notin OnTheWay
        BY <2>1, CallShapes DEF OnTheWay
    <2>5. OnTheWay' = IF allowed THEN OnTheWay \cup {c} ELSE OnTheWay
        BY <2>3, <2>4, CallShapes DEF OnTheWay
    <2>6. QED
        BY <1>2, <2>1, <2>4, <2>5
<1>5. QED
    BY <1>3, <1>4

-----------------------------------------------------------------------------
(* Cardinality.                                                            *)

LEMMA GrowsByOne ==
    ASSUME NEW S, IsFiniteSet(S), NEW x, NEW T, T \subseteq S \cup {x}
    PROVE  IsFiniteSet(T) /\ Cardinality(T) <= Cardinality(S) + 1
<1>1. IsFiniteSet(S \cup {x})
    BY FS_AddElement
<1>0. Cardinality(S) \in Nat
    BY FS_CardinalityType
<1>2. Cardinality(S \cup {x}) <= Cardinality(S) + 1
    <2>1. Cardinality(S \cup {x}) = IF x \in S THEN Cardinality(S) ELSE Cardinality(S) + 1
        BY FS_AddElement
    <2>2. QED
        BY <1>0, <2>1
<1>3. IsFiniteSet(T) /\ Cardinality(T) <= Cardinality(S \cup {x})
    BY <1>1, FS_Subset
<1>4. Cardinality(S) \in Nat /\ Cardinality(S \cup {x}) \in Nat /\ Cardinality(T) \in Nat
    BY <1>1, <1>3, FS_CardinalityType
<1>5. QED
    BY <1>2, <1>3, <1>4

-----------------------------------------------------------------------------
(***************************************************************************)
(* Charges and answers.                                                    *)
(*                                                                         *)
(* A charge is matched by an answer that was told or is on its way, or by  *)
(* a broken connection.  What makes this inductive are the orphans, the    *)
(* commands that nobody waits for any more: each may still charge once,    *)
(* and each has a break of its own to account for it.                      *)
(***************************************************************************)
Orphans == {m \in wire : \A c \in Callers : call[c] # Waiting(m)}

Charged(n) ==
    /\ told + Cardinality(OnTheWay) <= n
    /\ n + Cardinality(Orphans) <= told + Cardinality(OnTheWay) + breaks

ChargeInv(n) == IsFiniteSet(wire) /\ OwnIds /\ Charged(n)

LEMMA FiniteCounts ==
    ASSUME ClientInv, NEW g \in Nat, ChargeInv(g)
    PROVE  /\ IsFiniteSet(OnTheWay) /\ Cardinality(OnTheWay) \in Nat
           /\ IsFiniteSet(Orphans) /\ Cardinality(Orphans) \in Nat
           /\ told \in Nat /\ breaks \in Nat
<1>1. OnTheWay \subseteq Callers /\ Orphans \subseteq wire
    BY DEF OnTheWay, Orphans
<1>2. IsFiniteSet(OnTheWay) /\ IsFiniteSet(Orphans)
    BY <1>1, FS_Subset, RedisClientAssumption DEF ChargeInv
<1>3. QED
    BY <1>2, FS_CardinalityType DEF ClientInv, ClientTypeOK

(* The wire never holds infinitely many commands.                          *)
LEMMA WireStaysFinite ==
    ASSUME IsFiniteSet(wire), NEW x, wire' \subseteq wire \cup {x}
    PROVE  IsFiniteSet(wire')
BY GrowsByOne

LEMMA BeginCharge ==
    ASSUME ClientInv, NEW g \in Nat, ChargeInv(g), NEW c \in Callers, NEW p \in Policies, Begin(c, p)
    PROVE  ChargeInv(g)'
<1>1. PICK stamp \in Clocks :
        LET m == [id |-> calls + 1, try |-> 0, policy |-> p, stamp |-> stamp]
        IN  /\ call' = [call EXCEPT ![c] = Waiting(m)]
            /\ wire' = wire \cup {m}
    BY DEF Begin
<1> DEFINE m == [id |-> calls + 1, try |-> 0, policy |-> p, stamp |-> stamp]
<1>2. call[c] = Idle /\ calls' = calls + 1 /\ told' = told /\ breaks' = breaks
    BY DEF Begin
<1>3. call'[c] = Waiting(m) /\ \A d \in Callers \ {c} : call'[d] = call[d]
    BY <1>1, MovesFacts DEF Moves, ClientInv
<1>4. IsFiniteSet(wire')
    BY <1>1, WireStaysFinite DEF ChargeInv
<1>5. OwnIds' /\ OnTheWay' = OnTheWay
    BY BeginWay DEF ChargeInv
<1>7. Orphans' \subseteq Orphans
    <2>1. ASSUME NEW k \in Orphans'
          PROVE  k \in Orphans
        <3>1. k \in wire' /\ \A d \in Callers : call'[d] # Waiting(k)
            BY DEF Orphans
        <3>2. k # m
            BY <1>3, <3>1
        <3>3. k \in wire
            BY <1>1, <3>1, <3>2
        <3>4. \A d \in Callers : call[d] # Waiting(k)
            BY <1>2, <1>3, <3>1, CallShapes
        <3>5. QED
            BY <3>3, <3>4 DEF Orphans
    <2>2. QED
        BY <2>1
<1>8. Cardinality(Orphans') <= Cardinality(Orphans) /\ Cardinality(Orphans') \in Nat
    BY <1>7, FiniteCounts, FS_Subset, FS_CardinalityType
<1>9. Charged(g)'
    BY <1>2, <1>5, <1>8, FiniteCounts DEF ChargeInv, Charged
<1>10. QED
    BY <1>4, <1>5, <1>9 DEF ChargeInv

(* The answer that was on its way is told.                                 *)
LEMMA DeliverCharge ==
    ASSUME ClientInv, NEW g \in Nat, ChargeInv(g), NEW c \in Callers, Deliver(c)
    PROVE  ChargeInv(g)'
<1>1. /\ call[c].pc = "replied" /\ Moves(c, Idle)
      /\ told' = IF call[c].allowed THEN told + 1 ELSE told
      /\ wire' = wire /\ calls' = calls /\ breaks' = breaks
    BY DEF Deliver, Moves
<1>2. call'[c] = Idle /\ \A d \in Callers \ {c} : call'[d] = call[d]
    BY <1>1, MovesFacts DEF ClientInv
<1>3. OwnIds' /\ OnTheWay' = OnTheWay \ {c}
    BY CallerStepWay DEF ChargeInv
<1>4. \A k : call[c] # Waiting(k) /\ call'[c] # Waiting(k)
    BY <1>1, <1>2, CallShapes
<1>5. Orphans' = Orphans
    BY <1>1, <1>2, <1>4 DEF Orphans
<1>7. Cardinality(OnTheWay') = IF c \in OnTheWay THEN Cardinality(OnTheWay) - 1
                               ELSE Cardinality(OnTheWay)
    BY <1>3, FiniteCounts, FS_RemoveElement
<1>8. c \in OnTheWay <=> call[c].allowed
    BY <1>1 DEF OnTheWay
<1>9. told' + Cardinality(OnTheWay') = told + Cardinality(OnTheWay)
    BY <1>1, <1>7, <1>8, FiniteCounts
<1>10. Charged(g)'
    BY <1>1, <1>5, <1>9, FiniteCounts DEF ChargeInv, Charged
<1>11. QED
    BY <1>1, <1>3, <1>10 DEF ChargeInv

(* A connection breaks: at worst an answer is lost, or a command becomes   *)
(* an orphan.  Both at once is out of the question, for what is answered   *)
(* is not waited for.                                                      *)
LEMMA BreakCharge ==
    ASSUME ClientInv, NEW g \in Nat, ChargeInv(g), NEW c \in Callers, Retry(c) \/ GiveUp(c)
    PROVE  ChargeInv(g)'
<1> DEFINE m     == call[c].cmd
           again == [m EXCEPT !.try = @ + 1]
<1>1. call[c] # Idle /\ calls' = calls /\ told' = told /\ breaks' = breaks + 1
    BY DEF Retry, GiveUp
<1>2. \/ Moves(c, Idle) /\ wire' \subseteq wire
      \/ Moves(c, Waiting(again)) /\ wire' \subseteq wire \cup {again}
    BY BreakMoves
<1>3. PICK new : /\ Moves(c, new)
                 /\ new = Idle \/ new = Waiting(again)
                 /\ wire' \subseteq wire \cup {again}
                 /\ new = Idle => wire' \subseteq wire
    <2> HIDE DEF again
    <2>1. CASE Moves(c, Idle) /\ wire' \subseteq wire
        BY <2>1
    <2>2. CASE Moves(c, Waiting(again)) /\ wire' \subseteq wire \cup {again}
        BY <2>2, CallShapes
    <2>3. QED
        BY <1>2, <2>1, <2>2
<1>5. call'[c] = new /\ \A d \in Callers \ {c} : call'[d] = call[d]
    BY <1>3, MovesFacts DEF ClientInv
<1>6. OwnIds' /\ OnTheWay' = OnTheWay \ {c}
    BY CallerStepWay DEF ChargeInv
<1>7. IsFiniteSet(wire')
    BY <1>3, WireStaysFinite DEF ChargeInv
<1>10. ASSUME NEW k \in Orphans', k # m
       PROVE  k \in Orphans
    <2>1. k \in wire' /\ \A d \in Callers : call'[d] # Waiting(k)
        BY DEF Orphans
    <2>2. k \in wire
        BY <1>3, <1>5, <2>1
    <2>3. call[c] # Waiting(k)
        BY <1>10, CallShapes
    <2>4. QED
        BY <1>5, <2>1, <2>2, <2>3 DEF Orphans
<1>11. CASE c \in OnTheWay
    <2>1. call[c].pc = "replied"
        BY <1>11 DEF OnTheWay
    <2>2. m \in Orphans' => m \in Orphans
        <3>1. SUFFICES ASSUME m \in Orphans'
                       PROVE  m \in Orphans
            OBVIOUS
        <3>2. m \in wire' /\ \A d \in Callers : call'[d] # Waiting(m)
            BY <3>1 DEF Orphans
        <3>3. m \in wire
            BY <1>3, <1>5, <3>2
        <3>4. call[c] # Waiting(m)
            BY <2>1, CallShapes
        <3>5. QED
            BY <1>5, <3>2, <3>3, <3>4 DEF Orphans
    <2>3. Orphans' \subseteq Orphans
        BY <1>10, <2>2
    <2>4. Cardinality(Orphans') <= Cardinality(Orphans) /\ Cardinality(Orphans') \in Nat
        BY <2>3, FiniteCounts, FS_Subset, FS_CardinalityType
    <2>5. Cardinality(OnTheWay') = Cardinality(OnTheWay) - 1
        BY <1>6, <1>11, FiniteCounts, FS_RemoveElement
    <2>6. Charged(g)'
        BY <1>1, <2>4, <2>5, FiniteCounts DEF ChargeInv, Charged
    <2>7. QED
        BY <1>6, <1>7, <2>6 DEF ChargeInv
<1>12. CASE c \notin OnTheWay
    <2>1. Orphans' \subseteq Orphans \cup {m}
        BY <1>10
    <2>2. IsFiniteSet(Orphans') /\ Cardinality(Orphans') <= Cardinality(Orphans) + 1
        BY <2>1, FiniteCounts, GrowsByOne
    <2>3. Cardinality(Orphans') \in Nat
        BY <2>2, FS_CardinalityType
    <2>4. OnTheWay' = OnTheWay
        BY <1>6, <1>12
    <2>5. Charged(g)'
        BY <1>1, <2>2, <2>3, <2>4, FiniteCounts DEF ChargeInv, Charged
    <2>6. QED
        BY <1>6, <1>7, <2>5 DEF ChargeInv
<1>13. QED
    BY <1>11, <1>12

LEMMA ClientCharge ==
    ASSUME ClientInv, NEW g \in Nat, ChargeInv(g), NEW c \in Callers,
           \/ \E p \in Policies : Begin(c, p)
           \/ Deliver(c)
           \/ Retry(c)
           \/ GiveUp(c)
    PROVE  ChargeInv(g)'
BY BeginCharge, DeliverCharge, BreakCharge

(* A script charges once if it admits.  Its answer goes to the goroutine   *)
(* that waits for it; if there is none, the command was an orphan.         *)
LEMMA ExecuteCharge ==
    ASSUME ClientInv, NEW g \in Nat, ChargeInv(g), NEW m \in wire, NEW allowed \in BOOLEAN,
           Execute(m, allowed), NEW h, h = IF allowed THEN g + 1 ELSE g
    PROVE  ChargeInv(h)'
<1>1. /\ wire' = wire \ {m} /\ calls' = calls /\ told' = told /\ breaks' = breaks
      /\ \A d \in Callers : call'[d] = IF call[d] = Waiting(m) THEN Replied(m, allowed)
                                       ELSE call[d]
    BY DEF Execute
<1>2. IsFiniteSet(wire')
    BY <1>1, FS_Subset DEF ChargeInv
<1>3. OwnIds'
    BY ExecuteWay DEF ChargeInv
<1>4. \A k \in wire' : k \in Orphans' <=> k \in Orphans
    <2>1. SUFFICES ASSUME NEW k \in wire'
                   PROVE  k \in Orphans' <=> k \in Orphans
        OBVIOUS
    <2>2. k \in wire /\ k # m
        BY <1>1, <2>1
    <2>3. \A d \in Callers : call'[d] = Waiting(k) <=> call[d] = Waiting(k)
        BY <1>1, <2>2, CallShapes
    <2>4. QED
        BY <2>1, <2>2, <2>3 DEF Orphans
<1>5. Orphans' = Orphans \ {m}
    <2>1. Orphans \subseteq wire /\ Orphans' \subseteq wire'
        BY DEF Orphans
    <2>2. QED
        BY <1>1, <1>4, <2>1
<1>6. CASE m \in Orphans
    <2>1. \A d \in Callers : call'[d] = call[d]
        BY <1>1, <1>6 DEF Orphans
    <2>2. OnTheWay' = OnTheWay
        BY <2>1 DEF OnTheWay
    <2>3. Cardinality(Orphans') = Cardinality(Orphans) - 1
        BY <1>5, <1>6, FiniteCounts, FS_RemoveElement
    <2>4. Charged(h)'
        BY <1>1, <2>2, <2>3, FiniteCounts DEF ChargeInv, Charged
    <2>5. QED
        BY <1>2, <1>3, <2>4 DEF ChargeInv
<1>7. CASE m \notin Orphans
    <2>1. PICK c \in Callers : call[c] = Waiting(m)
        BY <1>7 DEF Orphans
    <2>2. \A d \in Callers : call[d] = Waiting(m) => d = c
        BY <2>1, CallShapes DEF ChargeInv, OwnIds
    <2>3. call'[c] = Replied(m, allowed) /\ \A d \in Callers \ {c} : call'[d] = call[d]
        BY <1>1, <2>1, <2>2
    <2>4. c \notin OnTheWay
        BY <2>1, CallShapes DEF OnTheWay
    <2>5. OnTheWay' = IF allowed THEN OnTheWay \cup {c} ELSE OnTheWay
        BY <2>3, <2>4, CallShapes DEF OnTheWay
    <2>6. Orphans' = Orphans
        BY <1>5, <1>7
    <2>7. Cardinality(OnTheWay') = IF allowed THEN Cardinality(OnTheWay) + 1
                                   ELSE Cardinality(OnTheWay)
        BY <2>4, <2>5, FiniteCounts, FS_AddElement
    <2>8. Charged(h)'
        BY <1>1, <2>6, <2>7, FiniteCounts DEF ChargeInv, Charged
    <2>9. QED
        BY <1>2, <1>3, <2>8 DEF ChargeInv
<1>8. QED
    BY <1>6, <1>7

(* Nothing else touches goroutines, wire or charges.                       *)
LEMMA QuietCharge ==
    ASSUME NEW g, ChargeInv(g), wire' = wire, call' = call, calls' = calls, told' = told,
           breaks' = breaks
    PROVE  ChargeInv(g)'
BY DEF ChargeInv, OwnIds, Charged, OnTheWay, Orphans

LEMMA InitCharge == ClientInit => ChargeInv(0)
<1> SUFFICES ASSUME ClientInit PROVE ChargeInv(0)
    OBVIOUS
<1>1. /\ wire = {} /\ told = 0 /\ breaks = 0
      /\ \A c \in Callers : call[c] = Idle
    BY DEF ClientInit
<1>2. OnTheWay = {} /\ Orphans = {}
    BY <1>1, CallShapes DEF OnTheWay, Orphans
<1>3. QED
    BY <1>1, <1>2, FS_EmptySet DEF ChargeInv, OwnIds, Charged

LEMMA ChargesAreAnswered ==
    ASSUME ClientInv, NEW g \in Nat, ChargeInv(g)
    PROVE  MatchesAnswers(g)
BY FiniteCounts DEF ChargeInv, Charged, MatchesAnswers
=============================================================================
