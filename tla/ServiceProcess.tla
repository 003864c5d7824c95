---------------------------- MODULE ServiceProcess ----------------------------
(***************************************************************************)
(* The life of one process: Manager, Orchestrator or an agent.  It starts, *)
(* runs the loop that takes sessions from Redis, answers requests and the  *)
(* readiness probe, and ends within its budget when it is told to.  The    *)
(* Manager and the Orchestrator share the core of the shutdown but close   *)
(* their pool in different places; an agent has neither pool nor watchdog. *)
(* Redis and the database come and go.                                     *)
(***************************************************************************)
EXTENDS Naturals, FiniteSets

CONSTANTS
  Requests,     \* HTTP requests that use the database
  MaxOutages    \* bound on how often Redis and the database go away

VARIABLES
  service,   \* which process this is
  redis,     \* is Redis reachable
  db,        \* the database: "up", "down" or "none" when not configured
  phase,     \* how far the start has come
  loop,      \* the loop that takes sessions from the gateway stream
  pool,      \* the pool of connections to the database
  http,      \* what became of each request
  checks,    \* the checks of the probe that is being answered
  ready,     \* the answer of the last readiness probe
  closing,   \* the step of the shutdown
  outages,   \* outages so far
  exit       \* the exit code

processVars ==
  <<service, redis, db, phase, loop, pool, http, checks, ready, closing, outages, exit>>
environment == <<service, redis, db, outages>>

Servers == {"manager", "orchestrator"}
Checks == {"redis", "loop", "db"}
Serving == phase = "serving" /\ exit = "none"

\* The Orchestrator has a gateway only with a database, the Manager always;
\* an agent has its dispatcher.
HasLoop == service # "orchestrator" \/ db # "none"

ProcessInit ==
  /\ service \in Servers \cup {"agent"}
  /\ db \in {"up", "down", "none"} /\ (service = "agent" => db = "none")
  /\ redis \in BOOLEAN
  /\ phase = "boot" /\ loop = "absent" /\ pool = "none"
  /\ http = [r \in Requests |-> "none"]
  /\ checks = [c \in Checks |-> "none"] /\ ready = "none"
  /\ closing = "no" /\ outages = 0 /\ exit = "none"

---------------------------------------------------------------------------
(* Start *)

\* The migrations run before anything else; a server that cannot reach its
\* database does not start.
Migrate ==
  /\ phase = "boot" /\ service \in Servers /\ exit = "none"
  /\ \/ db = "down" /\ exit' = "1" /\ UNCHANGED <<phase, pool>>
     \/ db # "down" /\ phase' = "migrated" /\ UNCHANGED exit
        /\ pool' = IF db = "up" THEN "open" ELSE "none"
  /\ UNCHANGED <<environment, loop, http, checks, ready, closing>>

\* The rest of buildServer: the gateway's loop is started and not awaited, then
\* the handlers of signals are registered.
Build ==
  /\ phase = "migrated" /\ exit = "none"
  /\ phase' = "built"
  /\ loop' = IF HasLoop THEN "starting" ELSE "absent"
  /\ UNCHANGED <<environment, pool, http, checks, ready, closing, exit>>

\* Listening, or failing at it; once the server was closed it cannot listen.
Listen ==
  /\ phase = "built" /\ exit = "none"
  /\ \/ phase' = "serving" /\ closing = "no" /\ UNCHANGED exit
     \/ exit' = "1" /\ UNCHANGED phase
  /\ UNCHANGED <<environment, loop, pool, http, checks, ready, closing>>

\* An agent listens first and starts its dispatcher then.
ListenAgent ==
  /\ phase = "boot" /\ service = "agent" /\ exit = "none"
  /\ \/ phase' = "serving" /\ loop' = "starting" /\ UNCHANGED exit
     \/ exit' = "1" /\ UNCHANGED <<phase, loop>>
  /\ UNCHANGED <<environment, pool, http, checks, ready, closing>>

\* The consumer group is created before the loop: without Redis the start is
\* rejected, which is logged, and nothing starts the loop again.
StartLoop ==
  /\ loop = "starting" /\ exit = "none"
  /\ loop' = IF redis THEN "running" ELSE "deaf"
  /\ UNCHANGED <<environment, phase, pool, http, checks, ready, closing, exit>>

---------------------------------------------------------------------------
(* Requests and probes *)

BeginRequest(r) ==
  /\ Serving /\ closing = "no" /\ service \in Servers
  /\ http[r] = "none" /\ http' = [http EXCEPT ![r] = "working"]
  /\ UNCHANGED <<environment, phase, loop, pool, checks, ready, closing, exit>>

\* The handler queries the pool; with the database away it fails or waits on.
EndRequest(r) ==
  /\ exit = "none" /\ http[r] = "working"
  /\ http' = [http EXCEPT ![r] =
       IF pool = "ended" THEN "poolGone" ELSE IF db = "down" THEN "failed" ELSE "answered"]
  /\ UNCHANGED <<environment, phase, loop, pool, checks, ready, closing, exit>>

\* The checks run in parallel.
Probe ==
  /\ Serving /\ closing = "no" /\ ready # "asked"
  /\ ready' = "asked"
  /\ checks' = [c \in Checks |-> IF c = "db" /\ service = "agent" THEN "skip" ELSE "pending"]
  /\ UNCHANGED <<environment, phase, loop, pool, http, closing, exit>>

Check(c, result) ==
  /\ checks[c] = "pending" /\ exit = "none"
  /\ checks' = [checks EXCEPT ![c] = result]
  /\ UNCHANGED <<environment, phase, loop, pool, http, ready, closing, exit>>

\* A ping over a connection of its own: it waits while Redis is away.
RedisPing == redis /\ Check("redis", "ok")

LoopStateOfStart ==  \* mutant
  IF loop = "absent" THEN "skip" ELSE "ok"
\* Is the loop running?  Not being there is no failure.
LoopState ==
  CASE loop = "absent" -> "skip"
    [] loop = "running" -> "ok"
    [] OTHER -> "fail"
LoopCheck == Check("loop", LoopState)

\* A query over the pool, which waits for the database.
DbQuery ==
  \/ pool = "none" /\ Check("db", "skip")
  \/ pool = "open" /\ db = "up" /\ Check("db", "ok")
  \/ pool = "ended" /\ Check("db", "fail")

\* Each check has a second.
CheckTimesOut(c) == Check(c, "fail")

AnswerProbe ==
  /\ ready = "asked" /\ exit = "none"
  /\ \A c \in Checks : checks[c] # "pending"
  /\ ready' = IF \E c \in Checks : checks[c] = "fail" THEN "unready" ELSE "ready"
  /\ UNCHANGED <<environment, phase, loop, pool, http, checks, closing, exit>>

---------------------------------------------------------------------------
(* Shutdown *)

\* SIGTERM or SIGINT.  Before there are handlers it kills the process, after
\* the first it changes nothing.  The Manager and an agent stop taking new work
\* at once; a loop that is still starting is not stopped by that.
Signal ==
  /\ exit = "none"
  /\ \/ /\ phase \in {"boot", "migrated"}
        /\ exit' = "signal" /\ UNCHANGED <<closing, loop>>
     \/ /\ phase \in {"built", "serving"} /\ closing = "no"
        /\ closing' = "drain"
        /\ loop' = IF service # "orchestrator" /\ loop = "running" THEN "stopped" ELSE loop
        /\ UNCHANGED exit
  /\ UNCHANGED <<environment, phase, pool, http, checks, ready>>

\* The server closes when no request is left.  The Orchestrator's hooks run in
\* the reverse order of their registration: the loop stops, then the pool ends.
DrainUnwaited ==  \* mutant
  /\ closing = "drain" /\ exit = "none"
  /\ closing' = IF service = "manager" THEN "release" ELSE "quit"
  /\ pool' = IF service = "orchestrator" /\ pool = "open" THEN "ended" ELSE pool
  /\ UNCHANGED <<environment, phase, loop, http, checks, ready, exit>>
Drain ==
  /\ closing = "drain" /\ exit = "none"
  /\ \A r \in Requests : http[r] # "working"
  /\ ready # "asked"
  /\ closing' = IF service = "manager" THEN "release" ELSE "quit"
  /\ IF service = "orchestrator"
     THEN /\ loop' = IF loop = "running" THEN "stopped" ELSE loop
          /\ \/ pool' = IF pool = "open" THEN "ended" ELSE pool
             \/ UNCHANGED pool
     ELSE UNCHANGED <<loop, pool>>
  /\ UNCHANGED <<environment, phase, http, checks, ready, exit>>

\* The Manager closes its tools and then the pool; a failure of either is
\* logged and the shutdown goes on.
Release ==
  /\ closing = "release" /\ exit = "none"
  /\ closing' = "quit"
  /\ \/ pool' = IF pool = "open" THEN "ended" ELSE pool
     \/ UNCHANGED pool
  /\ UNCHANGED <<environment, phase, loop, http, checks, ready, exit>>

\* The connections to Redis quit.  A failure is logged by a server and rejects
\* the clean-up of an agent, which ends the process all the same.
Quit ==
  /\ closing = "quit" /\ exit = "none"
  /\ \/ exit' = "0"
     \/ service = "agent" /\ ~redis /\ exit' = "1"
  /\ UNCHANGED <<environment, phase, loop, pool, http, checks, ready, closing>>

\* One deadline for all steps of a server.
WatchdogOfDrain ==  \* mutant
  /\ closing = "drain" /\ service \in Servers /\ exit = "none"
  /\ exit' = "1"
  /\ UNCHANGED <<environment, phase, loop, pool, http, checks, ready, closing>>
Watchdog ==
  /\ closing # "no" /\ service \in Servers /\ exit = "none"
  /\ exit' = "1"
  /\ UNCHANGED <<environment, phase, loop, pool, http, checks, ready, closing>>

---------------------------------------------------------------------------
(* Around the process *)

Outage ==
  /\ exit = "none" /\ outages < MaxOutages
  /\ outages' = outages + 1
  /\ \/ redis /\ redis' = FALSE /\ UNCHANGED db
     \/ db = "up" /\ db' = "down" /\ UNCHANGED redis
  /\ UNCHANGED <<service, phase, loop, pool, http, checks, ready, closing, exit>>

Recovery ==
  /\ exit = "none"
  /\ \/ ~redis /\ redis' = TRUE /\ UNCHANGED db
     \/ db = "down" /\ db' = "up" /\ UNCHANGED redis
  /\ UNCHANGED <<service, outages, phase, loop, pool, http, checks, ready, closing, exit>>

ProcessNext ==
  \/ Migrate \/ Build \/ Listen \/ ListenAgent \/ StartLoop
  \/ \E r \in Requests : BeginRequest(r) \/ EndRequest(r)
  \/ Probe \/ RedisPing \/ LoopCheck \/ DbQuery
  \/ \E c \in Checks : CheckTimesOut(c)
  \/ AnswerProbe \/ Signal \/ Drain \/ Release \/ Quit \/ Watchdog
  \/ Outage \/ Recovery

\* Timers fire, what can be answered is, and an agent's server, which has
\* bounded requests only, drains.  Nothing makes a request of a server, the
\* end of a pool or the quitting of connections end.
ProcessFairness ==
  /\ WF_processVars(\E c \in Checks : CheckTimesOut(c))
  /\ WF_processVars(AnswerProbe)
  /\ WF_processVars(Watchdog)
  /\ WF_processVars(service = "agent" /\ (Drain \/ Quit))
ProcessSpec == ProcessInit /\ [][ProcessNext]_processVars /\ ProcessFairness

---------------------------------------------------------------------------
(* Properties *)

\* A request that is being handled when the process is told to end does not
\* find its pool ended: that is why resources are closed after the drain.
PoolOutlivesRequests == \A r \in Requests : http[r] # "poolGone"

\* A process that is alive but deaf, its loop given up while Redis was away,
\* never reports ready, not even when Redis is back.
DeafIsUnready == [][ready' = "ready" /\ ready # "ready" => loop # "deaf"]_processVars

\* A process that was told to end ends, whatever hangs.
ShutdownEnds == closing # "no" ~> exit # "none"
=============================================================================
