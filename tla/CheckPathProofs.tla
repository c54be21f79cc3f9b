-------------------------- MODULE CheckPathProofs --------------------------
(***************************************************************************)
(* What holds of POST /api/v1/check for every number of callers, instances *)
(* and keys, and every number of retries, outages and crashes.             *)
(***************************************************************************)
EXTENDS CheckPath, RedisClientProofs

USE CheckPathAssumption

TypeInv == TypeOK /\ ClientInv

-----------------------------------------------------------------------------
(* Type correctness.                                                       *)

LEMMA Busy ==
    ASSUME TypeOK, NEW c \in Callers
    PROVE  /\ http[c] = Free <=> At(c, "free")
           /\ http[c] # Free => http[c] \in Request /\ http[c].at \in Instances
<1>1. http[c] \in Request \cup {Free}
    BY DEF TypeOK
<1>2. Free.pc = "free" /\ \A r \in Request : r.pc # "free" /\ r.at \in Instances
    BY DEF Free, Request
<1>3. QED
    BY <1>1, <1>2 DEF At

(* The request of c is answered so.                                        *)
Responses == [status: {0, 200, 400, 401, 503}, allowed: BOOLEAN]
Answered(c, response) ==
    http' = [http EXCEPT ![c].pc = "answered", ![c].response = response]

LEMMA AnswerIsAnswered ==
    ASSUME NEW c \in Callers,
           \/ Answer(c, 401, FALSE) \/ Answer(c, 400, FALSE) \/ Answer(c, 503, FALSE)
           \/ Answer(c, 200, TRUE) \/ Answer(c, 200, FALSE)
    PROVE  \E response \in Responses : Answered(c, response)
<1>1. /\ Response(401, FALSE) \in Responses
      /\ Response(400, FALSE) \in Responses
      /\ Response(503, FALSE) \in Responses
      /\ Response(200, TRUE) \in Responses
      /\ Response(200, FALSE) \in Responses
    BY DEF Response, Responses
<1>2. QED
    BY <1>1 DEF Answer, Answered

LEMMA AnsweredFacts ==
    ASSUME TypeOK, NEW c \in Callers, NEW response, Answered(c, response)
    PROVE  /\ http'[c] = [[http[c] EXCEPT !.pc = "answered"] EXCEPT !.response = response]
           /\ http' = [http EXCEPT ![c] = http'[c]]
<1>1. ASSUME NEW S, http \in [Callers -> S]
      PROVE  /\ http'[c] = [[http[c] EXCEPT !.pc = "answered"] EXCEPT !.response = response]
             /\ http' = [http EXCEPT ![c] = http'[c]]
    BY <1>1 DEF Answered
<1>2. PICK S : http \in [Callers -> S]
    BY DEF TypeOK
<1>3. QED
    BY <1>1, <1>2

LEMMA AnsweredHolds ==
    ASSUME TypeOK, NEW c \in Callers, http[c] # Free, NEW response, Answered(c, response)
    PROVE  http'[c].pc = "answered" /\ http'[c].response = response
<1> DEFINE a == [http[c] EXCEPT !.pc = "answered"]
           r == [a EXCEPT !.response = response]
<1>1. http[c] \in Request
    BY Busy
<1>2. http'[c] = r
    BY AnsweredFacts
<1>3. a \in Request /\ a.pc = "answered"
    BY <1>1 DEF Request
<1> HIDE DEF a
<1>4. r.pc = "answered" /\ r.response = response
    BY <1>3 DEF Request
<1>5. QED
    BY <1>2, <1>4

(* A handler goes on with its request, or answers it.                      *)
LEMMA Handled ==
    ASSUME TypeOK, NEW c \in Callers, http[c] # Free,
           \/ \E pc \in {"authorized", "checking"} : Goto(c, pc)
           \/ \E response \in Responses : Answered(c, response)
    PROVE  /\ http' \in [Callers -> Request \cup {Free}]
           /\ \A d \in Callers \ {c} : http'[d] = http[d]
           /\ http'[c] # Free
           /\ http'[c].key = http[c].key
           /\ http'[c].at = http[c].at
           /\ http'[c].revokedBefore = http[c].revokedBefore
<1>1. http \in [Callers -> Request \cup {Free}] /\ http[c] \in Request
    BY Busy DEF TypeOK
<1>2. PICK r \in Request :
         /\ http' = [http EXCEPT ![c] = r]
         /\ r.key = http[c].key /\ r.at = http[c].at
         /\ r.revokedBefore = http[c].revokedBefore
    <2>1. ASSUME NEW pc \in {"authorized", "checking"}, Goto(c, pc)
          PROVE  \E r \in Request :
                    /\ http' = [http EXCEPT ![c] = r]
                    /\ r.key = http[c].key /\ r.at = http[c].at
                    /\ r.revokedBefore = http[c].revokedBefore
        <3> DEFINE r == [http[c] EXCEPT !.pc = pc]
        <3>1. r \in Request /\ r.key = http[c].key /\ r.at = http[c].at
              /\ r.revokedBefore = http[c].revokedBefore
            BY <1>1 DEF Request
        <3>2. http' = [http EXCEPT ![c] = r]
            BY <2>1 DEF Goto
        <3> HIDE DEF r
        <3>3. QED
            BY <3>1, <3>2
    <2>2. ASSUME NEW response \in Responses, Answered(c, response)
          PROVE  \E r \in Request :
                    /\ http' = [http EXCEPT ![c] = r]
                    /\ r.key = http[c].key /\ r.at = http[c].at
                    /\ r.revokedBefore = http[c].revokedBefore
        <3> DEFINE a == [http[c] EXCEPT !.pc = "answered"]
                   r == [a EXCEPT !.response = response]
        <3>1. a \in Request /\ a.key = http[c].key /\ a.at = http[c].at
              /\ a.revokedBefore = http[c].revokedBefore
            BY <1>1 DEF Request
        <3>2. http' = [http EXCEPT ![c] = r]
            BY <2>2, AnsweredFacts
        <3> HIDE DEF a
        <3>3. r \in Request /\ r.key = a.key /\ r.at = a.at /\ r.revokedBefore = a.revokedBefore
            BY <3>1 DEF Request, Responses
        <3> HIDE DEF r
        <3>4. QED
            BY <3>1, <3>2, <3>3
    <2>3. QED
        BY <2>1, <2>2
<1>3. r # Free
    BY DEF Request, Free
<1>4. QED
    BY <1>1, <1>2, <1>3

(* A counter of the request's instance goes up.                            *)
LEMMA Counted ==
    ASSUME TypeOK, NEW c \in Callers, http[c] # Free,
           NEW counter \in {"requests", "allowed", "rejected", "redisErrors"},
           Inc(c, counter)
    PROVE  /\ metric' \in [Instances -> [requests: Nat, allowed: Nat, rejected: Nat,
                                         redisErrors: Nat]]
           /\ \A i \in Instances \ {http[c].at} : metric'[i] = metric[i]
           /\ \A n \in {"requests", "allowed", "rejected", "redisErrors"} :
                 metric'[http[c].at][n] = IF n = counter THEN metric[http[c].at][n] + 1
                                          ELSE metric[http[c].at][n]
<1>1. http[c].at \in Instances
    BY Busy
<1>2. metric \in [Instances -> [requests: Nat, allowed: Nat, rejected: Nat, redisErrors: Nat]]
    BY DEF TypeOK
<1>3. metric' = [metric EXCEPT ![http[c].at][counter] = @ + 1]
    BY DEF Inc
<1>4. QED
    BY <1>1, <1>2, <1>3

LEMMA HandleIsBusy ==
    ASSUME TypeOK, NEW c \in Callers, Handle(c)
    PROVE  http[c] # Free
<1>1. \A pc \in {"received", "authorized", "checking"} : At(c, pc) => ~At(c, "free")
    BY DEF At
<1>2. QED
    BY <1>1, Busy
    DEF Handle, APIKeyAuth, RefuseBody, StartCheck, RetryCheck, FinishCheck, FailCheck

LEMMA HandleClient ==
    ASSUME TypeInv, NEW c \in Callers, Handle(c)
    PROVE  ClientInv'
<1>1. CASE APIKeyAuth(c) \/ RefuseBody(c)
    BY <1>1, ClientStutterInv DEF APIKeyAuth, RefuseBody, TypeInv
<1>2. CASE StartCheck(c)
    <2>1. http[c] # Free
        BY HandleIsBusy DEF TypeInv
    <2>2. http[c].policy \in Policies
        BY <2>1, Busy DEF TypeInv, Request
    <2>3. QED
        BY <1>2, <2>2, BeginInv DEF StartCheck, TypeInv
<1>3. CASE RetryCheck(c) \/ FinishCheck(c) \/ FailCheck(c)
    BY <1>3, CallerStepInv DEF RetryCheck, FinishCheck, FailCheck, TypeInv
<1>4. QED
    BY <1>1, <1>2, <1>3 DEF Handle

(* What a handler's step does to its request.                              *)
LEMMA HandleRequest ==
    ASSUME TypeOK, NEW c \in Callers, Handle(c)
    PROVE  /\ http' \in [Callers -> Request \cup {Free}]
           /\ \A d \in Callers \ {c} : http'[d] = http[d]
           /\ http'[c] # Free
           /\ http'[c].key = http[c].key
           /\ http'[c].at = http[c].at
           /\ http'[c].revokedBefore = http[c].revokedBefore
<1>1. http[c] # Free
    BY HandleIsBusy
<1>2. CASE RetryCheck(c)
    BY <1>1, <1>2 DEF RetryCheck, httpVars, TypeOK
<1>3. CASE ~RetryCheck(c)
    <2>1. \/ Goto(c, "authorized") \/ Goto(c, "checking")
          \/ Answer(c, 401, FALSE) \/ Answer(c, 400, FALSE) \/ Answer(c, 503, FALSE)
          \/ Answer(c, 200, TRUE) \/ Answer(c, 200, FALSE)
        BY <1>3 DEF Handle, APIKeyAuth, RefuseBody, StartCheck, FinishCheck, FailCheck, RejectCode
    <2>2. \/ \E pc \in {"authorized", "checking"} : Goto(c, pc)
          \/ \E response \in Responses : Answered(c, response)
        BY <2>1, AnswerIsAnswered
    <2>3. QED
        BY <1>1, <2>2, Handled
<1>4. QED
    BY <1>2, <1>3

LEMMA HandleType ==
    ASSUME TypeInv, NEW c \in Callers, Handle(c)
    PROVE  TypeInv'
<1>1. TypeOK /\ http[c] # Free
    BY HandleIsBusy DEF TypeInv
<1>2. ClientInv'
    BY HandleClient
<1>3. http' \in [Callers -> Request \cup {Free}]
    BY <1>1, HandleRequest
<1>4. metric' \in [Instances -> [requests: Nat, allowed: Nat, rejected: Nat, redisErrors: Nat]]
    <2>1. CASE metric' = metric
        BY <1>1, <2>1 DEF TypeOK
    <2>2. CASE \E n \in {"requests", "allowed", "rejected", "redisErrors"} : Inc(c, n)
        BY <1>1, <2>2, Counted
    <2>3. QED
        BY <2>1, <2>2 DEF Handle, APIKeyAuth, RefuseBody, StartCheck, RetryCheck, FinishCheck,
                          FailCheck, httpVars
<1>5. /\ UNCHANGED <<revoked, up, left, received, outages, crashes, granted>>
      /\ admitted' \in {admitted, admitted + 1}
    BY DEF Handle, APIKeyAuth, RefuseBody, StartCheck, RetryCheck, FinishCheck, FailCheck,
           deps, history, httpVars
<1>6. QED
    BY <1>1, <1>2, <1>3, <1>4, <1>5 DEF TypeInv, TypeOK, ClientInv

(* The goroutines of a crashed instance stop waiting; the others do not    *)
(* notice.                                                                 *)
Dead(i) == {c \in Callers : http[c] # Free /\ http[c].at = i}

LEMMA CrashFacts ==
    ASSUME TypeInv, NEW i \in Instances, Crash(i)
    PROVE  /\ ClientInv'
           /\ \A c \in Callers : /\ http'[c] = IF c \in Dead(i) THEN Free ELSE http[c]
                                 /\ call'[c] = IF c \in Dead(i) THEN Idle ELSE call[c]
           /\ metric' = [metric EXCEPT ![i] = Zero]
           /\ UNCHANGED <<calls, revoked, granted, admitted>>
<1>1. /\ http' = [c \in Callers |-> IF c \in Dead(i) THEN Free ELSE http[c]]
      /\ call' = [c \in Callers |-> IF c \in Dead(i) THEN Idle ELSE call[c]]
      /\ wire' \subseteq wire
      /\ metric' = [metric EXCEPT ![i] = Zero]
      /\ UNCHANGED <<now, calls, told, breaks, revoked, granted, admitted>>
    BY DEF Crash, Dead, history
<1>2. Idle \in CallState
    BY DEF CallState
<1>3. ClientInv'
    BY <1>1, <1>2 DEF TypeInv, ClientInv, ClientTypeOK
<1>4. QED
    BY <1>1, <1>3

LEMMA TypeStep == TypeInv /\ [Next]_vars => TypeInv'
<1> SUFFICES ASSUME TypeInv, [Next]_vars
             PROVE  TypeInv'
    OBVIOUS
<1>0. TypeOK /\ ClientInv
    BY DEF TypeInv
<1>1. ASSUME NEW c \in Callers, NEW i \in Instances, NEW k \in Keys \cup {NoKey},
             NEW body \in {"valid", "invalid"}, NEW p \in Policies,
             Receive(c, i, k, body, p)
      PROVE  TypeInv'
    <2> DEFINE r == [pc |-> "received", key |-> k, body |-> body, policy |-> p, at |-> i,
                     revokedBefore |-> k \in revoked, response |-> NoResponse]
    <2>1. r \in Request
        BY DEF Request, NoResponse, Response
    <2>2. ClientInv'
        BY <1>0, <1>1, ClientStutterInv DEF Receive
    <2>3. http' = [http EXCEPT ![c] = r]
        BY <1>1 DEF Receive
    <2> HIDE DEF r
    <2>4. QED
        BY <1>0, <1>1, <2>1, <2>2, <2>3
        DEF Receive, TypeInv, TypeOK, ClientInv, deps, history
<1>2. ASSUME NEW c \in Callers, Handle(c)
      PROVE  TypeInv'
    BY <1>2, HandleType
<1>3. ASSUME NEW c \in Callers, Forget(c)
      PROVE  TypeInv'
    <2>1. ClientInv'
        BY <1>0, <1>3, ClientStutterInv DEF Forget
    <2>2. QED
        BY <1>0, <1>3, <2>1 DEF Forget, TypeInv, TypeOK, ClientInv, deps, history
<1>4. ASSUME NEW m \in wire, RunScript(m)
      PROVE  TypeInv'
    <2>1. Admits(m.policy) \in BOOLEAN /\ Execute(m, Admits(m.policy))
        BY <1>4 DEF RunScript, Admits
    <2>2. ClientInv'
        BY <1>0, <2>1, ExecuteInv
    <2>3. m.policy \in Policies
        BY <1>0 DEF TypeOK, ClientTypeOK, Command
    <2>4. left' \in [Policies -> Nat] /\ granted' \in Nat
        BY <1>0, <1>4, <2>3 DEF RunScript, Admits, TypeOK
    <2>5. QED
        BY <1>0, <1>4, <2>2, <2>4 DEF RunScript, TypeInv, TypeOK, ClientInv, deps, httpVars
<1>5. ASSUME NEW k \in Keys, Revoke(k)
      PROVE  TypeInv'
    <2>1. ClientInv'
        BY <1>0, <1>5, ClientStutterInv DEF Revoke
    <2>2. QED
        BY <1>0, <1>5, <2>1 DEF Revoke, TypeInv, TypeOK, ClientInv, history, httpVars
<1>6. ASSUME NEW d \in {"postgres", "redis"}, GoDown(d) \/ ComeBack(d)
      PROVE  TypeInv'
    <2>1. ClientInv'
        BY <1>0, <1>6, ClientStutterInv DEF GoDown, ComeBack
    <2>2. up' \in SUBSET {"postgres", "redis"} /\ outages' \in Nat
        <3>1. outages \in Nat /\ up \subseteq {"postgres", "redis"}
            BY <1>0 DEF TypeOK
        <3>2. CASE GoDown(d)
            BY <3>1, <3>2 DEF GoDown
        <3>3. CASE ComeBack(d)
            BY <3>1, <3>3 DEF ComeBack
        <3>4. QED
            BY <1>6, <3>2, <3>3
    <2>3. UNCHANGED <<http, metric, received, left, revoked, crashes, granted, admitted>>
        BY <1>6 DEF GoDown, ComeBack, history, httpVars
    <2>4. QED
        BY <1>0, <2>1, <2>2, <2>3 DEF TypeInv, TypeOK, ClientInv
<1>7. ASSUME NEW i \in Instances, Crash(i)
      PROVE  TypeInv'
    <2>1. ClientInv'
        BY <1>7, CrashFacts
    <2>2. http' \in [Callers -> Request \cup {Free}]
        BY <1>0, <1>7 DEF Crash, TypeOK
    <2>3. Zero \in [requests: Nat, allowed: Nat, rejected: Nat, redisErrors: Nat]
        BY DEF Zero
    <2>4. QED
        BY <1>0, <1>7, <2>1, <2>2, <2>3 DEF Crash, TypeInv, TypeOK, ClientInv, history
<1>8. CASE Served \/ UNCHANGED vars
    <2>1. ClientInv'
        BY <1>0, <1>8, ClientStutterInv DEF Served, vars
    <2>2. QED
        BY <1>0, <1>8, <2>1
        DEF Served, vars, TypeInv, TypeOK, ClientInv, deps, history, httpVars
<1>9. QED
    BY <1>1, <1>2, <1>3, <1>4, <1>5, <1>6, <1>7, <1>8 DEF Next

LEMMA TypeInvariant == Spec => []TypeInv
<1>1. Init => TypeInv
    <2> SUFFICES ASSUME Init PROVE TypeInv
        OBVIOUS
    <2>1. ClientInv
        BY ClientInitInv DEF Init
    <2>2. Zero \in [requests: Nat, allowed: Nat, rejected: Nat, redisErrors: Nat]
        BY DEF Zero
    <2>3. QED
        BY <2>1, <2>2 DEF Init, TypeInv, TypeOK, ClientInv
<1>2. QED
    BY <1>1, TypeStep, PTL DEF Spec

(* The requests, the counters and the two databases keep their types: a    *)
(* response has a status of check.go or apikey_auth.go, and Redis never    *)
(* admits a request it has not left.                                       *)
THEOREM TypeCorrect == Spec => []TypeOK
<1>1. TypeInv => TypeOK
    BY DEF TypeInv
<1>2. QED
    BY <1>1, TypeInvariant, PTL

-----------------------------------------------------------------------------
(***************************************************************************)
(* Answers are paid for.  What makes this inductive is that no two         *)
(* goroutines wait for the same check, so that one script has one answer   *)
(* at most, however often its command was sent.                            *)
(***************************************************************************)
PaidInv == OwnIds /\ admitted + Cardinality(OnTheWay) <= granted

LEMMA HandlePaid ==
    ASSUME TypeInv, PaidInv, NEW c \in Callers, Handle(c)
    PROVE  PaidInv'
<1>0. /\ ClientInv /\ OwnIds /\ admitted \in Nat /\ granted \in Nat
      /\ granted' = granted
      /\ IsFiniteSet(OnTheWay) /\ Cardinality(OnTheWay) \in Nat
    BY WayIsFinite
    DEF TypeInv, TypeOK, PaidInv, Handle, APIKeyAuth, RefuseBody, StartCheck, RetryCheck,
        FinishCheck, FailCheck, history
<1>1. CASE APIKeyAuth(c) \/ RefuseBody(c)
    BY <1>1 DEF APIKeyAuth, RefuseBody, clientVars, history, PaidInv, OwnIds, OnTheWay
<1>2. CASE StartCheck(c)
    <2>1. http[c] # Free
        BY <1>2, HandleIsBusy DEF Handle, TypeInv
    <2>2. http[c].policy \in Policies
        BY <2>1, Busy DEF TypeInv, Request
    <2>3. OwnIds' /\ OnTheWay' = OnTheWay
        BY <1>0, <1>2, <2>2, BeginWay DEF StartCheck
    <2>4. QED
        BY <1>0, <1>2, <2>3 DEF StartCheck, history, PaidInv
<1>3. CASE RetryCheck(c) \/ FailCheck(c)
    <2>1. OwnIds' /\ OnTheWay' = OnTheWay \ {c}
        BY <1>0, <1>3, CallerStepWay DEF RetryCheck, FailCheck
    <2>2. admitted' = admitted
        BY <1>3 DEF RetryCheck, FailCheck, history
    <2>3. Cardinality(OnTheWay') = IF c \in OnTheWay THEN Cardinality(OnTheWay) - 1
                                   ELSE Cardinality(OnTheWay)
        BY <1>0, <2>1, FS_RemoveElement
    <2>4. QED
        BY <1>0, <2>1, <2>2, <2>3 DEF PaidInv
<1>4. CASE FinishCheck(c)
    <2>1. OwnIds' /\ OnTheWay' = OnTheWay \ {c}
        BY <1>0, <1>4, CallerStepWay DEF FinishCheck
    <2>2. admitted' = IF c \in OnTheWay THEN admitted + 1 ELSE admitted
        BY <1>4 DEF FinishCheck, Deliver, OnTheWay
    <2>3. Cardinality(OnTheWay') = IF c \in OnTheWay THEN Cardinality(OnTheWay) - 1
                                   ELSE Cardinality(OnTheWay)
        BY <1>0, <2>1, FS_RemoveElement
    <2>4. QED
        BY <1>0, <2>1, <2>2, <2>3 DEF PaidInv
<1>5. QED
    BY <1>1, <1>2, <1>3, <1>4 DEF Handle

(* A script that admits has one caller to tell so.                         *)
LEMMA RunScriptPaid ==
    ASSUME TypeInv, PaidInv, NEW m \in wire, RunScript(m)
    PROVE  PaidInv'
<1> DEFINE allowed == Admits(m.policy)
<1>1. /\ allowed \in BOOLEAN /\ Execute(m, allowed)
      /\ granted' = IF allowed THEN granted + 1 ELSE granted
      /\ admitted' = admitted
    BY DEF RunScript, Admits
<1>2. /\ ClientInv /\ OwnIds /\ admitted \in Nat /\ granted \in Nat
      /\ IsFiniteSet(OnTheWay) /\ Cardinality(OnTheWay) \in Nat
    BY WayIsFinite DEF TypeInv, TypeOK, PaidInv
<1> HIDE DEF allowed
<1>3. /\ OwnIds'
      /\ \/ OnTheWay' = OnTheWay
         \/ \E c \in Callers \ OnTheWay :
               OnTheWay' = IF allowed THEN OnTheWay \cup {c} ELSE OnTheWay
    BY <1>1, <1>2, ExecuteWay
<1>4. CASE OnTheWay' = OnTheWay
    BY <1>1, <1>2, <1>3, <1>4 DEF PaidInv
<1>5. CASE allowed /\ \E c \in Callers \ OnTheWay : OnTheWay' = OnTheWay \cup {c}
    <2>1. Cardinality(OnTheWay') = Cardinality(OnTheWay) + 1
        BY <1>2, <1>5, FS_AddElement
    <2>2. QED
        BY <1>1, <1>2, <1>3, <1>5, <2>1 DEF PaidInv
<1>6. QED
    BY <1>3, <1>4, <1>5

(* A crash loses answers, and tells none.                                  *)
LEMMA CrashPaid ==
    ASSUME TypeInv, PaidInv, NEW i \in Instances, Crash(i)
    PROVE  PaidInv'
<1>1. /\ \A c \in Callers : call'[c] = IF c \in Dead(i) THEN Idle ELSE call[c]
      /\ UNCHANGED <<calls, granted, admitted>>
    BY CrashFacts
<1>2. OwnIds'
    <2>1. \A d \in Callers :
            call'[d] # Idle => call[d] # Idle /\ call'[d].cmd.id = call[d].cmd.id
        BY <1>1
    <2>2. QED
        BY <1>1, <2>1, SameIds DEF PaidInv
<1>3. OnTheWay' \subseteq OnTheWay
    BY <1>1, CallShapes DEF OnTheWay
<1>4. Cardinality(OnTheWay') <= Cardinality(OnTheWay) /\ Cardinality(OnTheWay') \in Nat
    BY <1>3, WayIsFinite, FS_Subset, FS_CardinalityType
<1>5. QED
    BY <1>1, <1>2, <1>4, WayIsFinite DEF PaidInv, TypeInv, TypeOK

LEMMA PaidStep == TypeInv /\ PaidInv /\ [Next]_vars => PaidInv'
<1> SUFFICES ASSUME TypeInv, PaidInv, [Next]_vars
             PROVE  PaidInv'
    OBVIOUS
<1>1. ASSUME NEW c \in Callers, Handle(c)
      PROVE  PaidInv'
    BY <1>1, HandlePaid
<1>2. ASSUME NEW m \in wire, RunScript(m)
      PROVE  PaidInv'
    BY <1>2, RunScriptPaid
<1>3. ASSUME NEW i \in Instances, Crash(i)
      PROVE  PaidInv'
    BY <1>3, CrashPaid
<1>4. CASE UNCHANGED <<call, calls, granted, admitted>>
    BY <1>4 DEF PaidInv, OwnIds, OnTheWay
<1>5. QED
    BY <1>1, <1>2, <1>3, <1>4
    DEF Next, Receive, Forget, Revoke, GoDown, ComeBack, Served, vars, clientVars, history

(* Nobody is told "allowed" without a token taken for it in Redis,         *)
(* whatever fails, is retried or crashes (service.go:32-34, check.go:78-   *)
(* 106).                                                                   *)
THEOREM FailsClosed == Spec => []AllowedIsPaid
<1>1. Init => PaidInv
    <2> SUFFICES ASSUME Init PROVE PaidInv
        OBVIOUS
    <2>1. granted = 0 /\ admitted = 0 /\ \A c \in Callers : call[c] = Idle
        BY DEF Init, ClientInit
    <2>2. OnTheWay = {}
        BY <2>1, CallShapes DEF OnTheWay
    <2>3. QED
        BY <2>1, <2>2, FS_EmptySet DEF PaidInv, OwnIds
<1>2. PaidInv => AllowedIsPaid
    BY DEF PaidInv, OnTheWay, AllowedIsPaid
<1>3. QED
    BY <1>1, <1>2, TypeInvariant, PaidStep, PTL DEF Spec

-----------------------------------------------------------------------------
(***************************************************************************)
(* A revoked key gets nowhere.  What makes this inductive is that a key    *)
(* stays revoked, so that the middleware finds what the request's arrival  *)
(* found.                                                                  *)
(***************************************************************************)
KeysStayRevoked ==
    \A c \in Callers :
        (http[c] # Free /\ http[c].revokedBefore) => http[c].key \in revoked

RevocationInv == KeysStayRevoked /\ RevocationIsFinal

(* The middleware refuses such a request, and no other handler has one.    *)
LEMMA HandleRevoked ==
    ASSUME TypeInv, RevocationInv, NEW c \in Callers, Handle(c)
    PROVE  RevocationInv'
<1>1. TypeOK /\ http[c] # Free /\ revoked' = revoked
    BY HandleIsBusy
    DEF TypeInv, Handle, APIKeyAuth, RefuseBody, StartCheck, RetryCheck, FinishCheck, FailCheck,
        deps
<1>2. /\ \A d \in Callers \ {c} : http'[d] = http[d]
      /\ http'[c].key = http[c].key
      /\ http'[c].revokedBefore = http[c].revokedBefore
    BY <1>1, HandleRequest
<1>3. KeysStayRevoked'
    BY <1>1, <1>2 DEF KeysStayRevoked, RevocationInv
<1>4. ASSUME http[c].revokedBefore
      PROVE  http'[c].pc = "answered" /\ http'[c].response.status = 401
    <2>1. At(c, "received") \/ At(c, "answered")
        BY <1>1, <1>4 DEF RevocationInv, RevocationIsFinal
    <2>2. APIKeyAuth(c)
        BY <2>1
        DEF At, Handle, APIKeyAuth, RefuseBody, StartCheck, RetryCheck, FinishCheck, FailCheck
    <2>3. Answer(c, 401, FALSE)
        BY <1>1, <1>4, <2>2 DEF APIKeyAuth, Accepted, RevocationInv, KeysStayRevoked
    <2>4. \E response : response.status = 401 /\ Answered(c, response)
        BY <2>3 DEF Answer, Answered, Response
    <2>5. QED
        BY <1>1, <2>4, AnsweredHolds
<1>5. RevocationIsFinal'
    BY <1>1, <1>2, <1>4 DEF RevocationInv, RevocationIsFinal, At
<1>6. QED
    BY <1>3, <1>5 DEF RevocationInv

LEMMA RevocationStep == TypeInv /\ RevocationInv /\ [Next]_vars => RevocationInv'
<1> SUFFICES ASSUME TypeInv, RevocationInv, [Next]_vars
             PROVE  RevocationInv'
    OBVIOUS
<1>0. \A c \in Callers : http[c] # Free =>
        /\ http[c].revokedBefore =>
             /\ http[c].key \in revoked
             /\ \/ http[c].pc = "received"
                \/ http[c].pc = "answered" /\ http[c].response.status = 401
    BY DEF RevocationInv, KeysStayRevoked, RevocationIsFinal, At
<1>1. ASSUME revoked \subseteq revoked',
             \A c \in Callers : \/ http'[c] = http[c]
                                \/ http'[c] = Free
                                \/ /\ http'[c].pc = "received"
                                   /\ http'[c].revokedBefore => http'[c].key \in revoked
      PROVE  RevocationInv'
    BY <1>0, <1>1 DEF RevocationInv, KeysStayRevoked, RevocationIsFinal, At
<1>2. http \in [Callers -> Request \cup {Free}]
    BY DEF TypeInv, TypeOK
<1>3. ASSUME NEW c \in Callers, NEW i \in Instances, NEW k \in Keys \cup {NoKey},
             NEW body \in {"valid", "invalid"}, NEW p \in Policies,
             Receive(c, i, k, body, p)
      PROVE  RevocationInv'
    <2> DEFINE r == [pc |-> "received", key |-> k, body |-> body, policy |-> p, at |-> i,
                     revokedBefore |-> k \in revoked, response |-> NoResponse]
    <2>1. http' = [http EXCEPT ![c] = r] /\ revoked' = revoked
        BY <1>3 DEF Receive, deps
    <2>2. r.pc = "received" /\ (r.revokedBefore => r.key \in revoked)
        OBVIOUS
    <2> HIDE DEF r
    <2>3. http'[c] = r /\ \A d \in Callers \ {c} : http'[d] = http[d]
        BY <1>2, <2>1
    <2>4. QED
        BY <1>1, <2>1, <2>2, <2>3
<1>4. ASSUME NEW c \in Callers, Handle(c)
      PROVE  RevocationInv'
    BY <1>4, HandleRevoked
<1>5. ASSUME NEW c \in Callers, Forget(c)
      PROVE  RevocationInv'
    BY <1>1, <1>2, <1>5 DEF Forget, deps
<1>6. ASSUME NEW k \in Keys, Revoke(k)
      PROVE  RevocationInv'
    BY <1>1, <1>6 DEF Revoke, httpVars
<1>7. ASSUME NEW i \in Instances, Crash(i)
      PROVE  RevocationInv'
    BY <1>1, <1>7, CrashFacts
<1>8. CASE UNCHANGED <<http, revoked>>
    BY <1>1, <1>8
<1>9. QED
    BY <1>3, <1>4, <1>5, <1>6, <1>7, <1>8
    DEF Next, RunScript, GoDown, ComeBack, Served, vars, httpVars, deps

(* A request that arrives after its key was revoked gets no further than   *)
(* the middleware (apikey_auth.go:22-31), whatever else goes on.           *)
THEOREM RevokedGoNowhere == Spec => []RevocationIsFinal
<1>1. Init => RevocationInv
    BY DEF Init, RevocationInv, KeysStayRevoked, RevocationIsFinal
<1>2. RevocationInv => RevocationIsFinal
    BY DEF RevocationInv
<1>3. QED
    BY <1>1, <1>2, TypeInvariant, RevocationStep, PTL DEF Spec

-----------------------------------------------------------------------------
(***************************************************************************)
(* The counters balance.  The equation is inductive as it stands: every    *)
(* handler's step that counts something also moves its request into or out *)
(* of the checks under way.                                                *)
(***************************************************************************)
Checking(i) == {c \in Callers : At(c, "checking") /\ http[c].at = i}

BalanceOf(i) ==
    metric[i].requests =
        metric[i].allowed + metric[i].rejected + metric[i].redisErrors + Cardinality(Checking(i))

LEMMA BalanceIsOfEach ==
    /\ MetricsBalance <=> \A i \in Instances : BalanceOf(i)
    /\ MetricsBalance' <=> \A i \in Instances : BalanceOf(i)'
BY DEF MetricsBalance, BalanceOf, Checking

LEMMA CheckingIsFinite ==
    ASSUME NEW i
    PROVE  IsFiniteSet(Checking(i)) /\ Cardinality(Checking(i)) \in Nat
<1>1. Checking(i) \in SUBSET Callers
    BY DEF Checking
<1>2. QED
    BY <1>1, FS_Subset, FS_CardinalityType, RedisClientAssumption

LEMMA CounterTypes ==
    ASSUME TypeOK, NEW i \in Instances
    PROVE  /\ metric[i].requests \in Nat /\ metric[i].allowed \in Nat
           /\ metric[i].rejected \in Nat /\ metric[i].redisErrors \in Nat
BY DEF TypeOK

LEMMA GoneTo ==
    ASSUME TypeOK, NEW c \in Callers, http[c] # Free, NEW pc, Goto(c, pc)
    PROVE  http'[c].pc = pc
<1> DEFINE r == [http[c] EXCEPT !.pc = pc]
<1>1. http[c] \in Request /\ http \in [Callers -> Request \cup {Free}]
    BY Busy DEF TypeOK
<1>2. r.pc = pc
    BY <1>1 DEF Request
<1>3. http' = [http EXCEPT ![c] = r]
    BY DEF Goto
<1> HIDE DEF r
<1>4. QED
    BY <1>1, <1>2, <1>3

(* A handler's step moves its own request only.                            *)
LEMMA CheckingMoves ==
    ASSUME NEW c \in Callers, NEW i,
           \A d \in Callers \ {c} : http'[d] = http[d],
           http'[c].at = http[c].at
    PROVE  Checking(i)' = IF i = http[c].at /\ http'[c].pc = "checking" THEN Checking(i) \cup {c}
                          ELSE Checking(i) \ {c}
BY DEF Checking, At

(* What a handler counts, and where its request goes.                      *)
LEMMA HandleCounts ==
    ASSUME TypeOK, NEW c \in Callers, Handle(c)
    PROVE  \/ metric' = metric /\ (http'[c].pc = "checking" <=> At(c, "checking"))
           \/ Inc(c, "requests") /\ ~At(c, "checking") /\ http'[c].pc = "checking"
           \/ /\ \E n \in {"allowed", "rejected", "redisErrors"} : Inc(c, n)
              /\ At(c, "checking")
              /\ http'[c].pc # "checking"
<1>1. http[c] # Free
    BY HandleIsBusy
<1>2. ASSUME NEW status \in {200, 400, 401, 503}, NEW allowed \in BOOLEAN,
             Answer(c, status, allowed)
      PROVE  http'[c].pc # "checking"
    <2>1. Answered(c, Response(status, allowed))
        BY <1>2 DEF Answer, Answered
    <2>2. \E response : Answered(c, response)
        BY <2>1
    <2>3. QED
        BY <1>1, <2>2, AnsweredHolds
<1>3. CASE APIKeyAuth(c)
    BY <1>1, <1>2, <1>3, GoneTo DEF APIKeyAuth, At
<1>4. CASE RefuseBody(c)
    BY <1>2, <1>4 DEF RefuseBody, At
<1>5. CASE StartCheck(c)
    BY <1>1, <1>5, GoneTo DEF StartCheck, At
<1>6. CASE RetryCheck(c)
    BY <1>6 DEF RetryCheck, httpVars, At
<1>7. CASE FinishCheck(c)
    <2>1. Answer(c, 200, TRUE) \/ Answer(c, 200, FALSE)
        BY <1>7 DEF FinishCheck, RejectCode
    <2>2. QED
        BY <1>2, <1>7, <2>1 DEF FinishCheck
<1>8. CASE FailCheck(c)
    BY <1>2, <1>8 DEF FailCheck
<1>9. QED
    BY <1>3, <1>4, <1>5, <1>6, <1>7, <1>8 DEF Handle

LEMMA HandleBalances ==
    ASSUME TypeInv, MetricsBalance, NEW c \in Callers, Handle(c)
    PROVE  MetricsBalance'
<1> SUFFICES ASSUME NEW i \in Instances
             PROVE  BalanceOf(i)'
    BY BalanceIsOfEach
<1>0. TypeOK /\ http[c] # Free /\ BalanceOf(i)
    BY HandleIsBusy, BalanceIsOfEach DEF TypeInv
<1> DEFINE n == Cardinality(Checking(i))
<1>1. /\ \A d \in Callers \ {c} : http'[d] = http[d]
      /\ http'[c].at = http[c].at
    BY <1>0, HandleRequest
<1>2. /\ Checking(i)' = IF i = http[c].at /\ http'[c].pc = "checking" THEN Checking(i) \cup {c}
                        ELSE Checking(i) \ {c}
      /\ c \in Checking(i) <=> At(c, "checking") /\ i = http[c].at
    BY <1>1, CheckingMoves DEF Checking
<1>3. /\ metric[i].requests \in Nat /\ metric[i].allowed \in Nat
      /\ metric[i].rejected \in Nat /\ metric[i].redisErrors \in Nat
      /\ IsFiniteSet(Checking(i)) /\ n \in Nat
    BY <1>0, CounterTypes, CheckingIsFinite
<1>4. CASE i # http[c].at
    <2>1. metric'[i] = metric[i]
        BY <1>0, <1>4, HandleCounts, Counted
    <2>2. Checking(i)' = Checking(i)
        BY <1>2, <1>4
    <2>3. QED
        BY <1>0, <2>1, <2>2 DEF BalanceOf
<1>5. CASE i = http[c].at /\ metric' = metric /\ (http'[c].pc = "checking" <=> At(c, "checking"))
    <2>1. Checking(i)' = Checking(i)
        BY <1>2, <1>5
    <2>2. QED
        BY <1>0, <1>5, <2>1 DEF BalanceOf
<1>6. CASE /\ i = http[c].at
           /\ Inc(c, "requests") /\ ~At(c, "checking") /\ http'[c].pc = "checking"
    <2>1. Cardinality(Checking(i)') = n + 1
        BY <1>2, <1>3, <1>6, FS_AddElement
    <2>2. /\ metric'[i].requests = metric[i].requests + 1
          /\ metric'[i].allowed = metric[i].allowed
          /\ metric'[i].rejected = metric[i].rejected
          /\ metric'[i].redisErrors = metric[i].redisErrors
        BY <1>0, <1>6, Counted
    <2>3. metric[i].requests + 1 = metric[i].allowed + metric[i].rejected + metric[i].redisErrors
                                   + (n + 1)
        BY <1>0, <1>3 DEF BalanceOf
    <2>4. QED
        BY <2>1, <2>2, <2>3 DEF BalanceOf
<1>7. CASE /\ i = http[c].at
           /\ \E m \in {"allowed", "rejected", "redisErrors"} : Inc(c, m)
           /\ At(c, "checking") /\ http'[c].pc # "checking"
    <2>1. Cardinality(Checking(i)') = n - 1
        BY <1>2, <1>3, <1>7, FS_RemoveElement
    <2>2. PICK m \in {"allowed", "rejected", "redisErrors"} : Inc(c, m)
        BY <1>7
    <2>3. /\ metric'[i].requests = metric[i].requests
          /\ metric'[i].allowed = IF m = "allowed" THEN metric[i].allowed + 1
                                  ELSE metric[i].allowed
          /\ metric'[i].rejected = IF m = "rejected" THEN metric[i].rejected + 1
                                   ELSE metric[i].rejected
          /\ metric'[i].redisErrors = IF m = "redisErrors" THEN metric[i].redisErrors + 1
                                      ELSE metric[i].redisErrors
        BY <1>0, <1>7, <2>2, Counted
    <2>4. metric'[i].allowed + metric'[i].rejected + metric'[i].redisErrors
            = metric[i].allowed + metric[i].rejected + metric[i].redisErrors + 1
        BY <1>3, <2>3
    <2>5. metric[i].requests = metric[i].allowed + metric[i].rejected + metric[i].redisErrors + 1
                               + (n - 1)
        <3>1. \A r, a, b, e, k \in Nat : r = a + b + e + k => r = a + b + e + 1 + (k - 1)
            OBVIOUS
        <3>2. metric[i].requests
                = metric[i].allowed + metric[i].rejected + metric[i].redisErrors + n
            BY <1>0 DEF BalanceOf
        <3> HIDE DEF n
        <3>3. QED
            BY <1>3, <3>1, <3>2
    <2>6. QED
        BY <2>1, <2>3, <2>4, <2>5 DEF BalanceOf
<1>8. QED
    BY <1>0, <1>4, <1>5, <1>6, <1>7, HandleCounts

LEMMA BalanceStep == TypeInv /\ MetricsBalance /\ [Next]_vars => MetricsBalance'
<1> SUFFICES ASSUME TypeInv, MetricsBalance, [Next]_vars
             PROVE  MetricsBalance'
    OBVIOUS
<1>0. http \in [Callers -> Request \cup {Free}]
    BY DEF TypeInv, TypeOK
<1>1. ASSUME metric' = metric,
             \A c \in Callers : \/ http'[c] = http[c]
                                \/ http[c].pc # "checking" /\ http'[c].pc # "checking"
      PROVE  MetricsBalance'
    <2>1. \A i \in Instances : Checking(i)' = Checking(i)
        BY <1>1 DEF Checking, At
    <2>2. QED
        BY <1>1, <2>1, BalanceIsOfEach DEF BalanceOf
<1>2. Free.pc = "free"
    BY DEF Free
<1>3. ASSUME NEW c \in Callers, NEW i \in Instances, NEW k \in Keys \cup {NoKey},
             NEW body \in {"valid", "invalid"}, NEW p \in Policies,
             Receive(c, i, k, body, p)
      PROVE  MetricsBalance'
    <2> DEFINE r == [pc |-> "received", key |-> k, body |-> body, policy |-> p, at |-> i,
                     revokedBefore |-> k \in revoked, response |-> NoResponse]
    <2>1. http' = [http EXCEPT ![c] = r] /\ http[c] = Free /\ metric' = metric
        BY <1>3 DEF Receive
    <2>2. r.pc = "received"
        OBVIOUS
    <2> HIDE DEF r
    <2>3. http'[c] = r /\ \A d \in Callers \ {c} : http'[d] = http[d]
        BY <1>0, <2>1
    <2>4. QED
        BY <1>1, <1>2, <2>1, <2>2, <2>3
<1>4. ASSUME NEW c \in Callers, Handle(c)
      PROVE  MetricsBalance'
    BY <1>4, HandleBalances
<1>5. ASSUME NEW c \in Callers, Forget(c)
      PROVE  MetricsBalance'
    BY <1>0, <1>1, <1>2, <1>5 DEF Forget, At
<1>6. ASSUME NEW i \in Instances, Crash(i)
      PROVE  MetricsBalance'
    <2> SUFFICES ASSUME NEW j \in Instances
                 PROVE  BalanceOf(j)'
        BY BalanceIsOfEach
    <2>1. /\ \A c \in Callers : http'[c] = IF c \in Dead(i) THEN Free ELSE http[c]
          /\ metric' = [metric EXCEPT ![i] = Zero]
        BY <1>6, CrashFacts
    <2>2. CASE j = i
        <3>1. Checking(j)' = {}
            BY <1>2, <2>1, <2>2 DEF Checking, At, Dead
        <3>2. metric'[j] = Zero
            BY <2>1, <2>2 DEF TypeInv, TypeOK
        <3>3. QED
            BY <3>1, <3>2, FS_EmptySet DEF BalanceOf, Zero
    <2>3. CASE j # i
        <3>1. Checking(j)' = Checking(j)
            BY <1>2, <2>1, <2>3 DEF Checking, At, Dead
        <3>2. metric'[j] = metric[j]
            BY <2>1, <2>3 DEF TypeInv, TypeOK
        <3>3. QED
            BY <3>1, <3>2, BalanceIsOfEach DEF BalanceOf
    <2>4. QED
        BY <2>2, <2>3
<1>7. CASE UNCHANGED <<http, metric>>
    BY <1>1, <1>7
<1>8. QED
    BY <1>3, <1>4, <1>5, <1>6, <1>7
    DEF Next, RunScript, Revoke, GoDown, ComeBack, Served, vars, httpVars

(* What an instance counted since its last crash adds up: each check is    *)
(* counted once when it begins and once when it ends (check.go:68-87,      *)
(* service.go:32-34).                                                      *)
THEOREM CountersAddUp == Spec => []MetricsBalance
<1>1. Init => MetricsBalance
    <2> SUFFICES ASSUME Init, NEW i \in Instances PROVE BalanceOf(i)
        BY BalanceIsOfEach
    <2>1. Checking(i) = {}
        BY DEF Init, Checking, At, Free
    <2>2. metric[i] = Zero
        BY DEF Init
    <2>3. QED
        BY <2>1, <2>2, FS_EmptySet DEF BalanceOf, Zero
<1>2. QED
    BY <1>1, TypeInvariant, BalanceStep, PTL DEF Spec
=============================================================================
