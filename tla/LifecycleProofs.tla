-------------------------- MODULE LifecycleProofs --------------------------
(***************************************************************************)
(* What holds of the process's life for every number of handlers, starts,  *)
(* requests and outages.                                                   *)
(***************************************************************************)
EXTENDS Lifecycle, TLAPS

USE LifecycleAssumption DEF Databases, Places, Alive, Active

-----------------------------------------------------------------------------
(* Type correctness.                                                       *)

LEMMA ExitsType ==
    ASSUME Exits
    PROVE  /\ main' \in Places
           /\ server' \in {"none", "starting", "listening", "failed", "stopped"}
           /\ quit' \in 0 .. 1
           /\ pool' \in [Databases -> {"open", "closing", "closed"}]
           /\ handler' \in [Handlers -> {"none", "accepted", "querying", "checking"}]
BY DEF Exits

LEMMA TypeStep == TypeOK /\ [Next]_vars => TypeOK'
<1> SUFFICES ASSUME TypeOK, [Next]_vars
             PROVE  TypeOK'
    OBVIOUS
<1>0. launches \in Nat /\ accepted \in Nat /\ outages \in Nat /\ quit \in 0 .. 1
    BY DEF TypeOK
<1>1. CASE Launch
    <2>1. launches' = launches + 1
        BY <1>1 DEF Launch
    <2>2. launches' \in Nat
        BY <1>0, <2>1
    <2>3. overdue' \in BOOLEAN
        BY <1>1 DEF Launch
    <2>4. QED
        BY <1>1, <2>2, <2>3 DEF Launch, TypeOK
<1>2. CASE PingPostgres
    BY <1>2, ExitsType DEF PingPostgres, TypeOK
<1>3. CASE PingRedis
    BY <1>3, ExitsType DEF PingRedis, TypeOK
<1>4. CASE StartServer
    BY <1>4 DEF StartServer, TypeOK
<1>5. CASE Listen
    BY <1>5 DEF Listen, TypeOK
<1>6. CASE Shutdown
    BY <1>6 DEF Shutdown, TypeOK
<1>7. CASE Drain \/ DrainTimeout
    BY <1>7 DEF Drain, DrainTimeout, TypeOK
<1>8. CASE CloseRedis \/ ClosePostgres
    BY <1>8 DEF CloseRedis, ClosePostgres, TypeOK
<1>9. CASE Leave
    <2>1. cutOff' \in BOOLEAN
        BY <1>9 DEF Leave, TypeOK
    <2>2. QED
        BY <1>9, <2>1, ExitsType DEF Leave, TypeOK
<1>10. CASE Stop
    <2>1. asked' \in BOOLEAN
        BY <1>10 DEF Stop
    <2>2. quit' \in 0 .. 1
        <3>1. CASE Exits
            BY <3>1, ExitsType
        <3>2. CASE quit' = 1 \/ quit' = quit
            BY <1>0, <3>2
        <3>3. QED
            BY <1>10, <3>1, <3>2 DEF Stop, Delivered
    <2>3. QED
        BY <1>10, <2>1, <2>2, ExitsType DEF Stop, TypeOK
<1>11. CASE Kill
    BY <1>11, ExitsType DEF Kill, TypeOK
<1>12. ASSUME NEW h \in Handlers, Accept(h)
       PROVE  TypeOK'
    <2>1. accepted' \in Nat
        BY <1>0, <1>12 DEF Accept
    <2>2. QED
        BY <1>12, <2>1 DEF Accept, TypeOK
<1>13. ASSUME NEW h \in Handlers, Handle(h)
       PROVE  TypeOK'
    BY <1>13 DEF Handle, Acquire, Query, Finish, TypeOK
<1>14. ASSUME NEW d \in Databases, GoDown(d) \/ ComeBack(d)
       PROVE  TypeOK'
    <2>1. outages' \in Nat
        BY <1>0, <1>14 DEF GoDown, ComeBack
    <2>2. up' \subseteq Databases
        <3>1. CASE GoDown(d)
            BY <3>1 DEF GoDown, TypeOK
        <3>2. CASE ComeBack(d)
            BY <3>2 DEF ComeBack, TypeOK
        <3>3. QED
            BY <1>14, <3>1, <3>2
    <2>3. QED
        BY <1>14, <2>1, <2>2 DEF GoDown, ComeBack, TypeOK
<1>15. CASE Stopped \/ UNCHANGED vars
    BY <1>15 DEF Stopped, vars, TypeOK
<1>16. QED
    BY <1>1, <1>2, <1>3, <1>4, <1>5, <1>6, <1>7, <1>8, <1>9, <1>10, <1>11, <1>12, <1>13,
       <1>14, <1>15
    DEF Next, Run

(* The process, its server, its handlers and its pools are always in one   *)
(* of the states that main.go knows, and at most one signal waits.         *)
THEOREM TypeCorrect == Spec => []TypeOK
<1>1. Init => TypeOK
    <2> SUFFICES ASSUME Init PROVE TypeOK
        OBVIOUS
    <2>1. asked \in BOOLEAN /\ overdue \in BOOLEAN /\ cutOff \in BOOLEAN
        BY DEF Init
    <2>2. QED
        BY <2>1 DEF Init, TypeOK
<1>2. QED
    BY <1>1, TypeStep, PTL DEF Spec

-----------------------------------------------------------------------------
(***************************************************************************)
(* No handler loses its pools.  That needs what main() has done so far: a  *)
(* handler exists only once the server listens, which it does only until   *)
(* main stops waiting; both pools are open from the two pings to the       *)
(* defers; and who gets as far as the defers has been told to stop, so     *)
(* that Docker starts no other process.                                    *)
(***************************************************************************)
BeforeServing == {"exited", "pinging postgres", "pinging redis", "notified"}
Closing       == {"closing redis", "closing postgres", "leaving"}

ListensWhileWaiting == server = "listening" => main = "waiting"

NobodyBefore == main \in BeforeServing => server = "none" /\ Drained

PoolsAreOpen ==
    /\ main # "exited" /\ main \notin {"closing postgres", "leaving"}
          => pool["postgres"] = "open"
    /\ main \in {"pinging redis", "notified", "waiting", "draining", "closing redis"}
          => pool["redis"] = "open"

DrainedOrLate == main \in Closing => Drained \/ overdue

StopsOnceAsked ==
    /\ quit # 0 => asked
    /\ main \in {"draining"} \cup Closing => asked
    /\ cutOff => asked /\ overdue

PhaseInv ==
    /\ ListensWhileWaiting
    /\ NobodyBefore
    /\ PoolsAreOpen
    /\ DrainedOrLate
    /\ StopsOnceAsked

(* A process that has exited leaves no handler.                            *)
LEMMA ExitsPhase ==
    ASSUME PhaseInv, Exits, cutOff' => asked' /\ overdue', quit' # 0 => asked'
    PROVE  PhaseInv'
<1>1. /\ main' = "exited" /\ server' = "none" /\ quit' = 0
      /\ \A h \in Handlers : handler'[h] = "none"
    BY DEF Exits
<1>2. Drained'
    BY <1>1 DEF Drained
<1>3. QED
    BY <1>1, <1>2
    DEF PhaseInv, ListensWhileWaiting, NobodyBefore, PoolsAreOpen, DrainedOrLate,
        StopsOnceAsked, BeforeServing, Closing

LEMMA PhaseStep == TypeOK /\ PhaseInv /\ [Next]_vars => PhaseInv'
<1> SUFFICES ASSUME TypeOK, PhaseInv, [Next]_vars
             PROVE  PhaseInv'
    OBVIOUS
<1> USE DEF PhaseInv, ListensWhileWaiting, NobodyBefore, PoolsAreOpen, DrainedOrLate,
            StopsOnceAsked, BeforeServing, Closing
<1>0. pool \in [Databases -> {"open", "closing", "closed"}]
    BY DEF TypeOK
<1>1. CASE Launch
    <2>1. main' = "pinging postgres" /\ pool' = [pool EXCEPT !["postgres"] = "open"]
          /\ ~asked /\ UNCHANGED <<server, quit, handler, asked, cutOff>> /\ ~Alive
        BY <1>1 DEF Launch
    <2>2. Drained' /\ server' = "none"
        BY <2>1 DEF Drained
    <2>3. QED
        BY <1>0, <2>1, <2>2
<1>2. CASE PingPostgres
    <2>1. CASE Exits
        BY <1>2, <2>1, ExitsPhase DEF PingPostgres, Exits
    <2>2. CASE ~Exits
        BY <1>0, <1>2, <2>2 DEF PingPostgres, Drained
    <2>3. QED
        BY <2>1, <2>2
<1>3. CASE PingRedis
    <2>1. CASE Exits
        BY <1>3, <2>1, ExitsPhase DEF PingRedis, Exits
    <2>2. CASE ~Exits
        BY <1>3, <2>2 DEF PingRedis, Drained
    <2>3. QED
        BY <2>1, <2>2
<1>4. CASE StartServer
    BY <1>4 DEF StartServer
<1>5. CASE Listen
    <2>1. main' = main /\ main \notin BeforeServing
        BY <1>5 DEF Listen
    <2>2. server' = "listening" => main = "waiting"
        BY <1>5 DEF Listen
    <2>3. QED
        BY <1>5, <2>1, <2>2 DEF Listen, Drained
<1>6. CASE Shutdown
    BY <1>6 DEF Shutdown
<1>7. CASE Drain
    BY <1>7 DEF Drain, Drained
<1>8. CASE DrainTimeout
    BY <1>8 DEF DrainTimeout
<1>9. CASE CloseRedis
    BY <1>0, <1>9 DEF CloseRedis, Drained
<1>10. CASE ClosePostgres
    BY <1>10 DEF ClosePostgres, Drained
<1>11. CASE Leave
    <2>1. Exits /\ asked' /\ (cutOff' => overdue')
        BY <1>11 DEF Leave, Drained
    <2>2. QED
        BY <2>1, ExitsPhase
<1>12. CASE Stop
    <2>1. CASE Exits
        BY <1>12, <2>1, ExitsPhase DEF Stop, Exits
    <2>2. CASE ~Exits
        BY <1>12, <2>2 DEF Stop, Drained
    <2>3. QED
        BY <2>1, <2>2
<1>13. CASE Kill
    BY <1>13, ExitsPhase DEF Kill, Exits
<1>14. ASSUME NEW h \in Handlers, Accept(h) \/ Handle(h)
       PROVE  PhaseInv'
    <2>1. UNCHANGED <<main, server, quit, pool, asked, overdue, cutOff>>
        BY <1>14 DEF Accept, Handle, Acquire, Query, Finish
    <2>2. CASE Accept(h)
        BY <2>1, <2>2 DEF Accept
    <2>3. CASE Handle(h)
        <3>1. ~Drained
            BY <2>3 DEF Handle, Acquire, Query, Finish, Drained
        <3>2. QED
            BY <2>1, <3>1
    <2>4. QED
        BY <1>14, <2>2, <2>3
<1>15. CASE UNCHANGED <<main, server, quit, pool, handler, asked, overdue, cutOff>>
    BY <1>15 DEF Drained
<1>16. QED
    BY <1>1, <1>2, <1>3, <1>4, <1>5, <1>6, <1>7, <1>8, <1>9, <1>10, <1>11, <1>12, <1>13,
       <1>14, <1>15
    DEF Next, Run, GoDown, ComeBack, Stopped, vars

(* The defers close the pools under no handler, and the process leaves     *)
(* none unanswered, unless the 15 seconds ran out or Docker killed it      *)
(* (main.go:46-57 and 129-132).                                            *)
THEOREM PoolsOutliveHandlers == Spec => []HandlersKeepTheirPools
<1>1. Init => PhaseInv
    BY DEF Init, PhaseInv, ListensWhileWaiting, NobodyBefore, PoolsAreOpen, DrainedOrLate,
           StopsOnceAsked, BeforeServing, Closing, Drained
<1>2. TypeOK /\ PhaseInv => HandlersKeepTheirPools
    <2> SUFFICES ASSUME TypeOK, PhaseInv
                 PROVE  HandlersKeepTheirPools
        OBVIOUS
    <2>1. ASSUME ~overdue, NEW h \in Handlers, Active(h), NEW d \in Databases, pool[d] # "open"
          PROVE  FALSE
        <3>1. main \notin BeforeServing \cup Closing
            BY <2>1 DEF PhaseInv, NobodyBefore, DrainedOrLate, Drained
        <3>2. main \in {"waiting", "draining"}
            BY <3>1 DEF TypeOK, BeforeServing, Closing
        <3>3. QED
            BY <2>1, <3>2 DEF PhaseInv, PoolsAreOpen
    <2>2. QED
        BY <2>1 DEF HandlersKeepTheirPools, PhaseInv, StopsOnceAsked
<1>3. QED
    BY <1>1, <1>2, TypeCorrect, PhaseStep, PTL DEF Spec
=============================================================================
