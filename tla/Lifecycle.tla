----------------------------- MODULE Lifecycle -----------------------------
(***************************************************************************)
(* The API process from its start to its end (main.go): it connects to     *)
(* PostgreSQL and Redis, serves until it is told to stop, drains for at    *)
(* most 15 seconds, and closes its two pools as its defers say.  Docker    *)
(* starts it again whenever it exits by itself (docker-compose.yml:18),    *)
(* and kills it when it takes too long to stop.                            *)
(*                                                                         *)
(* A handler stands for a check: it queries PostgreSQL for the key, then   *)
(* runs a script in Redis.                                                 *)
(***************************************************************************)
EXTENDS Naturals

CONSTANTS
    Handlers,     \* handler goroutines
    MaxLaunches,  \* bound: times the process is started
    MaxRequests,  \* bound: requests accepted
    MaxOutages    \* bound: times a database goes down

ASSUME LifecycleAssumption ==
    /\ MaxLaunches \in Nat
    /\ MaxRequests \in Nat
    /\ MaxOutages \in Nat

VARIABLES
    main,      \* where run() is
    server,    \* what became of ListenAndServe in its own goroutine
    quit,      \* the signals waiting in the channel of that name
    pool,      \* the two connection pools
    handler,   \* where each handler is
    up,        \* the databases that answer
    asked,     \* somebody has stopped the container
    launches, accepted, outages,
    overdue,   \* history: this shutdown ran out of its 15 seconds
    cutOff     \* history: a handler died with a process that stopped by itself

vars == <<main, server, quit, pool, handler, up, asked,
          launches, accepted, outages, overdue, cutOff>>

Databases == {"postgres", "redis"}
Places    == {"exited", "pinging postgres", "pinging redis", "notified", "waiting",
              "draining", "closing redis", "closing postgres", "leaving"}

Alive     == main # "exited"
Active(h) == handler[h] # "none"

-----------------------------------------------------------------------------
(* The process ends, by os.Exit or by a signal, and its handlers with it.  *)
Exits ==
    /\ main' = "exited"
    /\ server' = "none"
    /\ quit' = 0
    /\ pool' = [d \in Databases |-> "closed"]
    /\ handler' = [h \in Handlers |-> "none"]

Launch ==
    /\ ~Alive
    /\ ~asked
    /\ launches < MaxLaunches
    /\ launches' = launches + 1
    /\ main' = "pinging postgres"
    /\ pool' = [pool EXCEPT !["postgres"] = "open"]
    /\ overdue' = FALSE
    /\ UNCHANGED <<server, quit, handler, up, asked, accepted, outages, cutOff>>

PingPostgres ==
    /\ main = "pinging postgres"
    /\ IF "postgres" \in up
       THEN /\ main' = "pinging redis"
            /\ pool' = [pool EXCEPT !["redis"] = "open"]
            /\ UNCHANGED <<server, quit, handler>>
       ELSE Exits
    /\ UNCHANGED <<up, asked, launches, accepted, outages, overdue, cutOff>>

(* Once Redis has answered, signal.Notify takes over SIGTERM.              *)
PingRedis ==
    /\ main = "pinging redis"
    /\ IF "redis" \in up
       THEN main' = "notified" /\ UNCHANGED <<server, quit, pool, handler>>
       ELSE Exits
    /\ UNCHANGED <<up, asked, launches, accepted, outages, overdue, cutOff>>

(* go func() { srv.ListenAndServe() }(), and main goes on to <-quit.       *)
StartServer ==
    /\ main = "notified"
    /\ main' = "waiting"
    /\ server' = "starting"
    /\ UNCHANGED <<quit, pool, handler, up, asked, launches, accepted, outages,
                   overdue, cutOff>>

(* ListenAndServe returns at once when Shutdown has been called.  When the *)
(* address is taken it fails, and the goroutine logs that and ends.        *)
Listen ==
    /\ server = "starting"
    /\ server' \in IF main = "waiting" THEN {"listening", "failed"} ELSE {"stopped"}
    /\ UNCHANGED <<main, quit, pool, handler, up, asked, launches, accepted, outages,
                   overdue, cutOff>>

-----------------------------------------------------------------------------
Accept(h) ==
    /\ server = "listening"
    /\ ~Active(h)
    /\ accepted < MaxRequests
    /\ accepted' = accepted + 1
    /\ handler' = [handler EXCEPT ![h] = "accepted"]
    /\ UNCHANGED <<main, server, quit, pool, up, asked, launches, outages, overdue, cutOff>>

(* The query takes a connection from the pool; a pool that is closed, or   *)
(* about to be, has none to give, and the handler answers 401.             *)
Acquire(h) ==
    /\ handler[h] = "accepted"
    /\ handler' = [handler EXCEPT ![h] = IF pool["postgres"] = "open"
                                         THEN "querying" ELSE "none"]
    /\ UNCHANGED <<main, server, quit, pool, up, asked, launches, accepted, outages,
                   overdue, cutOff>>

Query(h) ==
    /\ handler[h] = "querying"
    /\ handler' = [handler EXCEPT ![h] = IF "postgres" \in up THEN "checking" ELSE "none"]
    /\ UNCHANGED <<main, server, quit, pool, up, asked, launches, accepted, outages,
                   overdue, cutOff>>

(* 200, or 503 when Redis is down or its client has been closed.           *)
Finish(h) ==
    /\ handler[h] = "checking"
    /\ handler' = [handler EXCEPT ![h] = "none"]
    /\ UNCHANGED <<main, server, quit, pool, up, asked, launches, accepted, outages,
                   overdue, cutOff>>

-----------------------------------------------------------------------------
(* Mutants of Delivered: a channel without a buffer, which takes a signal  *)
(* only while somebody receives; one with room for every signal.           *)
DeliveredToReceiver == IF main = "waiting" THEN 1 ELSE quit
DeliveredAlways     == quit + 1

(* signal.Notify does not block: the channel has room for one signal, and  *)
(* drops what comes while it is full.                                      *)
Delivered == IF quit = 0 THEN 1 ELSE quit

(* docker stop, once or again: SIGTERM.  Before signal.Notify it ends the  *)
(* process.                                                                *)
Stop ==
    /\ asked' = TRUE
    /\ IF main \in {"pinging postgres", "pinging redis"}
       THEN Exits
       ELSE /\ quit' = IF Alive THEN Delivered ELSE quit
            /\ UNCHANGED <<main, server, pool, handler>>
    /\ UNCHANGED <<up, launches, accepted, outages, overdue, cutOff>>

(* Mutant of Shutdown: srv.Close, which waits for nobody.                  *)
ShutdownAtOnce ==
    /\ main = "waiting"
    /\ quit > 0
    /\ quit' = quit - 1
    /\ main' = "closing redis"
    /\ server' = IF server = "listening" THEN "stopped" ELSE server
    /\ UNCHANGED <<pool, handler, up, asked, launches, accepted, outages, overdue, cutOff>>

(* srv.Shutdown closes the listener.                                       *)
Shutdown ==
    /\ main = "waiting"
    /\ quit > 0
    /\ quit' = quit - 1
    /\ main' = "draining"
    /\ server' = IF server = "listening" THEN "stopped" ELSE server
    /\ UNCHANGED <<pool, handler, up, asked, launches, accepted, outages, overdue, cutOff>>

(* No connection is active any more.                                       *)
Drained == \A h \in Handlers : ~Active(h)

Drain ==
    /\ main = "draining"
    /\ Drained
    /\ main' = "closing redis"
    /\ UNCHANGED <<server, quit, pool, handler, up, asked, launches, accepted, outages,
                   overdue, cutOff>>

DrainTimeout ==
    /\ main = "draining"
    /\ ~Drained
    /\ overdue' = TRUE
    /\ main' = "closing redis"
    /\ UNCHANGED <<server, quit, pool, handler, up, asked, launches, accepted, outages,
                   cutOff>>

CloseRedis ==
    /\ main = "closing redis"
    /\ pool' = [pool EXCEPT !["redis"] = "closed"]
    /\ main' = "closing postgres"
    /\ UNCHANGED <<server, quit, handler, up, asked, launches, accepted, outages,
                   overdue, cutOff>>

(* pgxpool's Close gives out no more connections, ...                      *)
ClosePostgres ==
    /\ main = "closing postgres"
    /\ pool' = [pool EXCEPT !["postgres"] = "closing"]
    /\ main' = "leaving"
    /\ UNCHANGED <<server, quit, handler, up, asked, launches, accepted, outages,
                   overdue, cutOff>>

(* ... and waits for those in use to come back.                            *)
Leave ==
    /\ main = "leaving"
    /\ \A h \in Handlers : handler[h] # "querying"
    /\ cutOff' = (cutOff \/ \E h \in Handlers : Active(h))
    /\ Exits
    /\ UNCHANGED <<up, asked, launches, accepted, outages, overdue>>

(* Docker's SIGKILL, ten seconds after docker stop.                        *)
Kill ==
    /\ asked
    /\ Alive
    /\ Exits
    /\ UNCHANGED <<up, asked, launches, accepted, outages, overdue, cutOff>>

GoDown(d) ==
    /\ d \in up
    /\ outages < MaxOutages
    /\ outages' = outages + 1
    /\ up' = up \ {d}
    /\ UNCHANGED <<main, server, quit, pool, handler, asked, launches, accepted, overdue,
                   cutOff>>

ComeBack(d) ==
    /\ d \notin up
    /\ up' = up \cup {d}
    /\ UNCHANGED <<main, server, quit, pool, handler, asked, launches, accepted, outages,
                   overdue, cutOff>>

(* The container is stopped, or the bound on its starts is used up.        *)
Stopped ==
    /\ ~Alive
    /\ asked \/ launches = MaxLaunches
    /\ UNCHANGED vars

Init ==
    /\ main = "exited"
    /\ server = "none"
    /\ quit = 0
    /\ pool = [d \in Databases |-> "closed"]
    /\ handler = [h \in Handlers |-> "none"]
    /\ up = Databases
    /\ asked = FALSE
    /\ launches = 0 /\ accepted = 0 /\ outages = 0
    /\ overdue = FALSE
    /\ cutOff = FALSE

(* What run() does by itself.                                              *)
Run ==
    \/ PingPostgres \/ PingRedis \/ StartServer \/ Listen
    \/ Shutdown \/ Drain \/ DrainTimeout
    \/ CloseRedis \/ ClosePostgres \/ Leave

Handle(h) == Acquire(h) \/ Query(h) \/ Finish(h)

Next ==
    \/ Launch \/ Run \/ Stop \/ Kill
    \/ \E h \in Handlers : Accept(h) \/ Handle(h)
    \/ \E d \in Databases : GoDown(d) \/ ComeBack(d)
    \/ Stopped

Spec == Init /\ [][Next]_vars

(* The scheduler runs main, the server's goroutine and the handlers; each  *)
(* handler ends, by chi's 30 seconds at the latest.  Users, operators and  *)
(* databases need not do anything, and Docker need not kill.               *)
FairSpec == Spec /\ WF_vars(Launch) /\ WF_vars(Run)
                 /\ \A h \in Handlers : WF_vars(Handle(h))

-----------------------------------------------------------------------------
(***************************************************************************)
(* Properties.                                                             *)
(***************************************************************************)

TypeOK ==
    /\ main \in Places
    /\ server \in {"none", "starting", "listening", "failed", "stopped"}
    /\ quit \in 0 .. 1
    /\ pool \in [Databases -> {"open", "closing", "closed"}]
    /\ handler \in [Handlers -> {"none", "accepted", "querying", "checking"}]
    /\ up \in SUBSET Databases
    /\ asked \in BOOLEAN
    /\ launches \in Nat /\ accepted \in Nat /\ outages \in Nat
    /\ overdue \in BOOLEAN
    /\ cutOff \in BOOLEAN

(* The defers (main.go:46-57) close the pools under no handler, and the    *)
(* process leaves none unanswered, unless the 15 seconds ran out           *)
(* (main.go:129-132) or Docker killed it.                                  *)
HandlersKeepTheirPools ==
    /\ \A h \in Handlers :
         (Active(h) /\ \E d \in Databases : pool[d] # "open") => overdue
    /\ cutOff => overdue

(* A process that is told to stop does, without being killed, wherever the *)
(* signal finds it (main.go:116-132).                                      *)
StopsWhenAsked == asked ~> ~Alive

(* README.md:388: "GET /health -> 200 if the process is alive".  A process *)
(* whose listener has failed stays alive and answers nobody, and Docker    *)
(* sees no reason to start another (main.go:119-126).                      *)
AliveMeansServing == Alive ~> (server = "listening" \/ ~Alive)
=============================================================================
