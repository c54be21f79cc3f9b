----------------------------- MODULE CheckPath -----------------------------
(***************************************************************************)
(* POST /api/v1/check through one or more instances of the API: the key    *)
(* middleware (apikey_auth.go), the handler (check.go), the service        *)
(* (service.go) and the metrics, around a Redis client that may retry, a   *)
(* Redis and a PostgreSQL that may be down, keys that are revoked meanwhile *)
(* and instances that crash.                                               *)
(*                                                                         *)
(* Redis is reduced to what an algorithm promises for a while: a number of *)
(* requests it still admits.  Policies are the two algorithms here; clocks *)
(* play no part.                                                           *)
(***************************************************************************)
EXTENDS RedisClient

CONSTANTS
    Instances,    \* API processes behind the load balancer
    Keys,         \* API keys stored in PostgreSQL
    NoKey,        \* a request without a key, or with one nobody created
    Allowance,    \* requests Redis admits, per algorithm
    MaxRequests,  \* bound: requests received
    MaxOutages,   \* bound: times PostgreSQL or Redis goes down
    MaxCrashes    \* bound: instances that crash

ASSUME CheckPathAssumption ==
    /\ NoKey \notin Keys
    /\ Allowance \in [Policies -> Nat]
    /\ MaxRequests \in Nat
    /\ MaxOutages \in Nat
    /\ MaxCrashes \in Nat

VARIABLES
    http,      \* per caller: the request, and how far the handler got with it
    revoked,   \* keys whose revoked_at is set
    up,        \* which of the two databases answers
    left,      \* per algorithm: requests Redis still admits
    metric,    \* per instance: the Prometheus counters
    received,  \* requests received
    outages,   \* outages so far
    crashes,   \* crashes so far
    granted,   \* history: scripts that answered allowed
    admitted   \* history: responses that said allowed

deps     == <<revoked, up, outages, crashes>>
history  == <<granted, admitted>>
httpVars == <<http, metric, received>>
vars     == <<clientVars, httpVars, left, deps, history>>

Free == [pc |-> "free"]

(* A response; allowed is there for the status 200 only.                   *)
Response(status, allowed) == [status |-> status, allowed |-> allowed]
NoResponse == Response(0, FALSE)

Request == [pc: {"received", "authorized", "checking", "answered"},
            key: Keys \cup {NoKey}, body: {"valid", "invalid"},
            policy: Policies, at: Instances, revokedBefore: BOOLEAN,
            response: [status: {0, 200, 400, 401, 503}, allowed: BOOLEAN]]

Zero == [requests |-> 0, allowed |-> 0, rejected |-> 0, redisErrors |-> 0]

At(c, pc) == http[c].pc = pc
Inc(c, counter) == metric' = [metric EXCEPT ![http[c].at][counter] = @ + 1]

Goto(c, pc) == http' = [http EXCEPT ![c].pc = pc]
Answer(c, status, allowed) ==
    http' = [http EXCEPT ![c].pc = "answered",
                         ![c].response = Response(status, allowed)]

-----------------------------------------------------------------------------
Receive(c, i, k, body, p) ==
    /\ http[c] = Free
    /\ received < MaxRequests
    /\ received' = received + 1
    /\ http' = [http EXCEPT ![c] =
                  [pc |-> "received", key |-> k, body |-> body, policy |-> p,
                   at |-> i, revokedBefore |-> k \in revoked,
                   response |-> NoResponse]]
    /\ UNCHANGED <<clientVars, metric, left, deps, history>>

(* Mutant of Accepted: revoked_at is not looked at.                        *)
AcceptedForever(k) == k \in Keys /\ "postgres" \in up

(* GetAPIKeyByHash and the test of revoked_at.  The middleware answers 401 *)
(* to every error of the lookup, so also when PostgreSQL does not answer.  *)
Accepted(k) == k \in Keys /\ "postgres" \in up /\ k \notin revoked

APIKeyAuth(c) ==
    /\ At(c, "received")
    /\ IF Accepted(http[c].key) THEN Goto(c, "authorized") ELSE Answer(c, 401, FALSE)
    /\ UNCHANGED <<clientVars, metric, received, left, deps, history>>

(* check.go:38-64: every way a body is refused.                            *)
RefuseBody(c) ==
    /\ At(c, "authorized")
    /\ http[c].body = "invalid"
    /\ Answer(c, 400, FALSE)
    /\ UNCHANGED <<clientVars, metric, received, left, deps, history>>

(* check.go:66-75: the request is counted and handed to the service.       *)
StartCheck(c) ==
    /\ At(c, "authorized")
    /\ http[c].body = "valid"
    /\ Begin(c, http[c].policy)
    /\ Goto(c, "checking")
    /\ Inc(c, "requests")
    /\ UNCHANGED <<received, left, deps, history>>

(* Mutant of Admits: one request too many.                                 *)
AdmitsOneMore(p) == left[p] >= 0

Admits(p) == left[p] > 0

RunScript(m) ==
    /\ m \in wire
    /\ "redis" \in up
    /\ LET allowed == Admits(m.policy)
       IN  /\ Execute(m, allowed)
           /\ IF allowed
              THEN /\ left' = [left EXCEPT ![m.policy] = @ - 1]
                   /\ granted' = granted + 1
              ELSE UNCHANGED <<left, granted>>
    /\ UNCHANGED <<httpVars, deps, admitted>>

RetryCheck(c) ==
    /\ At(c, "checking")
    /\ Retry(c)
    /\ UNCHANGED <<httpVars, left, deps, history>>

(* The status of a response that says "allowed": false (check.go:106).     *)
RejectCode == 200

(* check.go:83-106: the decision is counted and sent with status 200.      *)
FinishCheck(c) ==
    /\ At(c, "checking")
    /\ Deliver(c)
    /\ IF call[c].allowed
       THEN /\ Inc(c, "allowed")
            /\ Answer(c, 200, TRUE)
            /\ admitted' = admitted + 1
       ELSE /\ Inc(c, "rejected")
            /\ Answer(c, RejectCode, FALSE)
            /\ UNCHANGED admitted
    /\ UNCHANGED <<received, left, deps, granted>>

(* Mutants of FailCheck: the service does not count the error; nothing is  *)
(* written; the API fails open.                                            *)
FailCheckUncounted(c) ==
    /\ At(c, "checking")
    /\ GiveUp(c)
    /\ Answer(c, 503, FALSE)
    /\ UNCHANGED <<metric, received, left, deps, history>>
FailCheckSilent(c) ==
    /\ At(c, "checking")
    /\ GiveUp(c)
    /\ Inc(c, "redisErrors")
    /\ UNCHANGED <<http, received, left, deps, history>>
FailCheckOpen(c) ==
    /\ At(c, "checking")
    /\ GiveUp(c)
    /\ Inc(c, "redisErrors")
    /\ Answer(c, 200, TRUE)
    /\ admitted' = admitted + 1
    /\ UNCHANGED <<received, left, deps, granted>>

(* service.go:32-34 and check.go:78-81: fail closed.                       *)
FailCheck(c) ==
    /\ At(c, "checking")
    /\ GiveUp(c)
    /\ Inc(c, "redisErrors")
    /\ Answer(c, 503, FALSE)
    /\ UNCHANGED <<received, left, deps, history>>

Forget(c) ==
    /\ At(c, "answered")
    /\ http' = [http EXCEPT ![c] = Free]
    /\ UNCHANGED <<clientVars, metric, received, left, deps, history>>

-----------------------------------------------------------------------------
(* RevokeAPIKey commits (store.go:157-170).                                *)
Revoke(k) ==
    /\ "postgres" \in up
    /\ k \notin revoked
    /\ revoked' = revoked \cup {k}
    /\ UNCHANGED <<clientVars, httpVars, left, up, outages, crashes, history>>

GoDown(d) ==
    /\ d \in up
    /\ outages < MaxOutages
    /\ outages' = outages + 1
    /\ up' = up \ {d}
    /\ UNCHANGED <<clientVars, httpVars, left, revoked, crashes, history>>

ComeBack(d) ==
    /\ d \notin up
    /\ up' = up \cup {d}
    /\ UNCHANGED <<clientVars, httpVars, left, revoked, outages, crashes, history>>

(* An instance dies with its requests and its counters.  What it had sent  *)
(* to Redis may still be executed.                                         *)
Crash(i) ==
    LET dead == {c \in Callers : http[c] # Free /\ http[c].at = i}
        sent == {call[c].cmd : c \in {d \in dead : call[d] # Idle}}
    IN  /\ crashes < MaxCrashes
        /\ crashes' = crashes + 1
        /\ http' = [c \in Callers |-> IF c \in dead THEN Free ELSE http[c]]
        /\ call' = [c \in Callers |-> IF c \in dead THEN Idle ELSE call[c]]
        /\ \E gone \in SUBSET sent : wire' = wire \ gone
        /\ metric' = [metric EXCEPT ![i] = Zero]
        /\ UNCHANGED <<now, calls, told, breaks, received, left,
                       revoked, up, outages, history>>

Init ==
    /\ ClientInit
    /\ http = [c \in Callers |-> Free]
    /\ revoked = {}
    /\ up = {"postgres", "redis"}
    /\ left = Allowance
    /\ metric = [i \in Instances |-> Zero]
    /\ received = 0
    /\ outages = 0
    /\ crashes = 0
    /\ granted = 0
    /\ admitted = 0

Handle(c) ==
    \/ APIKeyAuth(c)
    \/ RefuseBody(c)
    \/ StartCheck(c)
    \/ RetryCheck(c)
    \/ FinishCheck(c)
    \/ FailCheck(c)

(* The bound on requests is used up and nothing is in flight.              *)
Served ==
    /\ received = MaxRequests
    /\ wire = {}
    /\ \A c \in Callers : http[c] = Free
    /\ UNCHANGED vars

Next ==
    \/ \E c \in Callers, i \in Instances, k \in Keys \cup {NoKey},
          body \in {"valid", "invalid"}, p \in Policies : Receive(c, i, k, body, p)
    \/ \E c \in Callers : Handle(c) \/ Forget(c)
    \/ \E m \in wire : RunScript(m)
    \/ \E k \in Keys : Revoke(k)
    \/ \E d \in {"postgres", "redis"} : GoDown(d) \/ ComeBack(d)
    \/ \E i \in Instances : Crash(i)
    \/ Served

Spec == Init /\ [][Next]_vars

(* A handler that can go on does, and a call that waits for Redis is ended *)
(* by an answer or by go-redis's timeouts.  Databases need not come back.  *)
Progress(c) ==
    \/ Handle(c)
    \/ \E m \in wire : call[c] = Waiting(m) /\ RunScript(m)

FairSpec == Spec /\ \A c \in Callers : WF_vars(Progress(c))

-----------------------------------------------------------------------------
(***************************************************************************)
(* Properties.                                                             *)
(***************************************************************************)

TypeOK ==
    /\ ClientTypeOK
    /\ http \in [Callers -> Request \cup {Free}]
    /\ revoked \in SUBSET Keys
    /\ up \in SUBSET {"postgres", "redis"}
    /\ left \in [Policies -> Nat]
    /\ metric \in [Instances -> [requests: Nat, allowed: Nat, rejected: Nat,
                                 redisErrors: Nat]]
    /\ received \in Nat /\ outages \in Nat /\ crashes \in Nat
    /\ granted \in Nat /\ admitted \in Nat

(* Every check an instance counted it also counts the outcome of, exactly  *)
(* once, or is still at it (check.go:68-87, service.go:32-34), through     *)
(* retries, errors and revocations, since its last crash.                  *)
MetricsBalance ==
    \A i \in Instances :
        metric[i].requests =
            metric[i].allowed + metric[i].rejected + metric[i].redisErrors
            + Cardinality({c \in Callers : At(c, "checking") /\ http[c].at = i})

(* README.md:150 "fails closed": nobody is told "allowed" without a token  *)
(* taken for it in Redis, whatever fails, is retried or crashes.           *)
AllowedIsPaid ==
    admitted + Cardinality({c \in Callers :
                               call[c].pc = "replied" /\ call[c].allowed})
        <= granted

(* A request that arrives after its key was revoked gets no further than   *)
(* the middleware: it takes no token and is answered 401.  A request that  *)
(* was authorized before goes on.                                          *)
RevocationIsFinal ==
    \A c \in Callers :
        (http[c] # Free /\ http[c].revokedBefore) =>
            \/ At(c, "received")
            \/ At(c, "answered") /\ http[c].response.status = 401

(* Every request that is received is answered, or its instance crashes.    *)
EveryRequestIsAnswered ==
    \A c \in Callers :
        (http[c] # Free) ~> (http[c] = Free \/ At(c, "answered"))

(* "ShardLeak - MVP Architecture Documentation.md":585: "PostgreSQL is not *)
(* required for every rate-limit request."  The middleware reads the key   *)
(* for every request and answers 401 when it cannot (apikey_auth.go:22-26).*)
CheckNeedsNoPostgres ==
    \A c \in Callers :
        (At(c, "answered") /\ http[c].key \in Keys \ revoked)
            => http[c].response.status # 401
=============================================================================
