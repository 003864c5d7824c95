--------------------------- MODULE ServicesProofs ---------------------------
(***************************************************************************)
(* Proofs about the processes of the services and what they keep alive:    *)
(* the migrations of their databases (Migrations), what a process offers   *)
(* while it starts, serves and ends (ServiceProcess), a session of the     *)
(* Manager with its consumer, its runs and its clean-up (ManagedSession),  *)
(* and what a configuration of the Manager starts (ManagerWiring).         *)
(***************************************************************************)
EXTENDS Migrations, ServiceProcess, ManagedSession, ManagerWiring, FiniteSetTheorems, TLAPS

-----------------------------------------------------------------------------
(* Migrations.  What the tracking table says is what took effect: a record *)
(* is there for every script that did, and one that is missing tells of a  *)
(* script that has not, or only before there was a table.                  *)

Tables == {TrackingTable(s) : s \in DbServices}
IsMigration(m) == m = [x \in {"pc", "applied", "attempt"} |-> m[x]]
Before(s, v) == IF s = "manager" /\ v \in Legacy THEN 1 ELSE 0

MigrationShapes ==
  /\ tracked = [t \in Tables |-> tracked[t]]
  /\ effects \in [DbServices -> [Versions -> Nat]]
  /\ migration = [i \in Instances |-> migration[i]]
  /\ \A i \in Instances : IsMigration(migration[i])
TrackedTookEffect ==
  \A s \in DbServices : \A v \in Versions :
    effects[s][v] = Before(s, v) + (IF v \in Tracked(s) THEN 1 ELSE 0)
AppliedIsTracked ==
  \A i \in Instances : migration[i].applied \subseteq Tracked(ServiceOf[i])
ServingIsComplete ==
  \A i \in Instances : Pc(i) = "serving" => ScriptsOf[i] \subseteq migration[i].applied
MigrationInv == MigrationShapes /\ TrackedTookEffect /\ AppliedIsTracked /\ ServingIsComplete

(* A step that neither writes the tables nor has an instance serve.        *)
LEMMA InstanceGoesOn ==
  ASSUME MigrationInv, UNCHANGED <<tracked, effects>>, NEW i \in Instances, NEW m,
         Set(i, m), IsMigration(m), m.applied \subseteq Tracked(ServiceOf[i]),
         m.pc = "serving" => ScriptsOf[i] \subseteq m.applied
  PROVE  MigrationInv'
<1>1. migration' = [j \in Instances |-> IF j = i THEN m ELSE migration[j]]
  BY DEF MigrationInv, MigrationShapes, Set
<1>2. MigrationShapes'
  BY <1>1 DEF MigrationInv, MigrationShapes
<1>3. TrackedTookEffect'
  BY DEF MigrationInv, TrackedTookEffect, Tracked
<1>4. AppliedIsTracked' /\ ServingIsComplete'
  BY <1>1 DEF MigrationInv, AppliedIsTracked, ServingIsComplete, Tracked, Pc
<1>5. QED
  BY <1>2, <1>3, <1>4 DEF MigrationInv

(* A transaction, and what its instance makes of it.                       *)
LEMMA TransactionCommits ==
  ASSUME MigrationInv, NEW i \in Instances, NEW v \in Versions, Succeeds(i, v), Transaction(i, v),
         NEW m, Set(i, m), IsMigration(m), m.applied \subseteq migration[i].applied \cup {v},
         m.pc # "serving"
  PROVE  MigrationInv'
<1> DEFINE s == ServiceOf[i]
           t == TrackingTable(s)
<1>0. s \in DbServices /\ t \in Tables
  BY MigrationAssumption DEF Tables
<1>1. \A u \in DbServices : u # s => TrackingTable(u) # t
  BY <1>0 DEF DbServices, TrackingTable
<1>2. /\ migration' = [j \in Instances |-> IF j = i THEN m ELSE migration[j]]
      /\ tracked' = [u \in Tables |-> IF u = t THEN tracked[t] \cup {v} ELSE tracked[u]]
      /\ effects' = [effects EXCEPT ![s][v] = @ + 1]
  BY <1>0 DEF MigrationInv, MigrationShapes, Set, Transaction
<1>3. effects \in [DbServices -> [Versions -> Nat]]
  BY DEF MigrationInv, MigrationShapes
<1>4. v \notin tracked[t]
  BY DEF Succeeds, Tracked
<1> HIDE DEF s
<1>5. /\ effects' \in [DbServices -> [Versions -> Nat]]
      /\ effects'[s][v] = effects[s][v] + 1
      /\ \A u \in DbServices, w \in Versions : u # s \/ w # v => effects'[u][w] = effects[u][w]
  BY <1>0, <1>2, <1>3
<1>6. MigrationShapes'
  BY <1>2, <1>5 DEF MigrationInv, MigrationShapes
<1>7. TrackedTookEffect'
  <2>1. \A u \in DbServices : Tracked(u)' = IF u = s THEN Tracked(u) \cup {v} ELSE Tracked(u)
    BY <1>0, <1>1, <1>2 DEF Tracked, Tables
  <2>2. v \notin Tracked(s)
    BY <1>4 DEF Tracked
  <2> HIDE DEF t
  <2>3. ASSUME NEW u \in DbServices, NEW w \in Versions
        PROVE  effects'[u][w] = Before(u, w) + (IF w \in Tracked(u)' THEN 1 ELSE 0)
    <3>1. effects[u][w] = Before(u, w) + (IF w \in Tracked(u) THEN 1 ELSE 0)
      BY DEF MigrationInv, TrackedTookEffect
    <3>2. Before(u, w) \in Nat
      BY DEF Before
    <3>3. CASE u = s /\ w = v
      BY <1>5, <2>1, <2>2, <3>1, <3>2, <3>3
    <3>4. CASE ~(u = s /\ w = v)
      BY <1>5, <2>1, <3>1, <3>4
    <3>5. QED
      BY <3>3, <3>4
  <2>4. QED
    BY <2>3 DEF TrackedTookEffect
<1>8. AppliedIsTracked'
  <2>1. \A u \in DbServices : Tracked(u) \subseteq Tracked(u)'
    BY <1>0, <1>1, <1>2 DEF Tracked, Tables
  <2>2. v \in Tracked(s)'
    BY <1>0, <1>2 DEF Tracked
  <2>3. \A j \in Instances : ServiceOf[j] \in DbServices
    BY MigrationAssumption
  <2>4. QED
    BY <1>2, <2>1, <2>2, <2>3 DEF s, MigrationInv, AppliedIsTracked
<1>9. ServingIsComplete'
  BY <1>2 DEF MigrationInv, ServingIsComplete, Pc
<1>10. QED
  BY <1>6, <1>7, <1>8, <1>9 DEF MigrationInv

\* What the tracking tables say is what took effect, and an instance that serves
\* has found every script of its version applied (db/pool.ts).
THEOREM MigrationInvariant == MigrationSpec => []MigrationInv
<1>1. MigrationInit => MigrationInv
  <2> SUFFICES ASSUME MigrationInit PROVE MigrationInv
    OBVIOUS
  <2>1. MigrationShapes
    BY DEF MigrationInit, MigrationShapes, Tables, IsMigration
  <2>2. \A s \in DbServices : Tracked(s) = {}
    BY DEF MigrationInit, Tracked
  <2>3. TrackedTookEffect
    BY <2>2 DEF MigrationInit, TrackedTookEffect, Before
  <2>4. AppliedIsTracked /\ ServingIsComplete
    BY DEF MigrationInit, AppliedIsTracked, ServingIsComplete, Pc
  <2>5. QED
    BY <2>1, <2>3, <2>4 DEF MigrationInv
<1>2. MigrationInv /\ [MigrationNext]_migrationVars => MigrationInv'
  <2> SUFFICES ASSUME MigrationInv, [MigrationNext]_migrationVars PROVE MigrationInv'
    OBVIOUS
  <2>1. CASE UNCHANGED migrationVars
    BY <2>1 DEF migrationVars, MigrationInv, MigrationShapes, TrackedTookEffect, AppliedIsTracked,
                ServingIsComplete, Tracked, Pc
  <2>2. ASSUME NEW i \in Instances,
               \/ TakeLock(i) \/ ReadApplied(i) \/ Finish(i) \/ Die(i) \/ StartAgain(i)
               \/ \E v \in Versions : Apply(i, v) \/ Refuse(i, v) \/ Deadlock(i, v) \/ LoseCommit(i, v)
        PROVE  MigrationInv'
    <3>1. IsMigration(migration[i]) /\ migration[i].applied \subseteq Tracked(ServiceOf[i])
      BY DEF MigrationInv, MigrationShapes, AppliedIsTracked
    <3>2. ASSUME UNCHANGED <<tracked, effects>>, NEW pc, pc # "serving",
                 Set(i, [migration[i] EXCEPT !.pc = pc])
          PROVE  MigrationInv'
      <4> DEFINE m == [migration[i] EXCEPT !.pc = pc]
      <4>1. IsMigration(m) /\ m.applied = migration[i].applied /\ m.pc = pc
        BY <3>1 DEF IsMigration
      <4>2. Set(i, m)
        BY <3>2
      <4> HIDE DEF m
      <4>3. QED
        BY <3>1, <3>2, <4>1, <4>2, InstanceGoesOn
    <3>3. CASE TakeLock(i) \/ Die(i) \/ \E v \in Versions : Refuse(i, v)
      BY <3>2, <3>3 DEF TakeLock, Die, Refuse, Fail
    <3>4. CASE ReadApplied(i)
      <4> DEFINE m == [migration[i] EXCEPT !.pc = "applying", !.applied = Tracked(ServiceOf[i])]
      <4>1. IsMigration(m) /\ m.applied = Tracked(ServiceOf[i]) /\ m.pc # "serving"
        BY <3>1 DEF IsMigration
      <4>2. Set(i, m) /\ UNCHANGED <<tracked, effects>>
        BY <3>4 DEF ReadApplied
      <4> HIDE DEF m
      <4>3. QED
        BY <4>1, <4>2, InstanceGoesOn
    <3>5. CASE Finish(i)
      <4> DEFINE m == [migration[i] EXCEPT !.pc = "serving"]
      <4>1. IsMigration(m) /\ m.applied = migration[i].applied
        BY <3>1 DEF IsMigration
      <4>2. Set(i, m) /\ UNCHANGED <<tracked, effects>> /\ ScriptsOf[i] \subseteq migration[i].applied
        BY <3>5 DEF Finish, Missing
      <4> HIDE DEF m
      <4>3. QED
        BY <3>1, <4>1, <4>2, InstanceGoesOn
    <3>6. CASE StartAgain(i)
      <4> DEFINE m == [pc |-> "connecting", applied |-> {}, attempt |-> 1]
      <4>1. IsMigration(m) /\ m.applied = {} /\ m.pc # "serving"
        BY DEF IsMigration
      <4>2. Set(i, m) /\ UNCHANGED <<tracked, effects>>
        BY <3>6 DEF StartAgain
      <4> HIDE DEF m
      <4>3. QED
        BY <4>1, <4>2, InstanceGoesOn
    <3>7. ASSUME NEW v \in Versions, Apply(i, v) PROVE MigrationInv'
      <4> DEFINE m == [migration[i] EXCEPT !.applied = @ \cup {v}, !.attempt = 1]
      <4>1. IsMigration(m) /\ m.applied = migration[i].applied \cup {v} /\ m.pc = "applying"
        BY <3>1, <3>7 DEF IsMigration, Apply, Pc
      <4>2. Set(i, m) /\ Succeeds(i, v) /\ Transaction(i, v)
        BY <3>7 DEF Apply
      <4> HIDE DEF m
      <4>3. QED
        BY <4>1, <4>2, TransactionCommits
    <3>8. ASSUME NEW v \in Versions, Deadlock(i, v) PROVE MigrationInv'
      <4>1. CASE Fail(i)
        BY <3>2, <3>8, <4>1 DEF Deadlock, Fail
      <4>2. CASE Set(i, [migration[i] EXCEPT !.attempt = @ + 1])
        <5> DEFINE m == [migration[i] EXCEPT !.attempt = @ + 1]
        <5>1. IsMigration(m) /\ m.applied = migration[i].applied /\ m.pc = "applying"
          BY <3>1, <3>8 DEF IsMigration, Deadlock, Pc
        <5>2. Set(i, m) /\ UNCHANGED <<tracked, effects>>
          BY <3>8, <4>2 DEF Deadlock
        <5> HIDE DEF m
        <5>3. QED
          BY <3>1, <5>1, <5>2, InstanceGoesOn
      <4>3. QED
        BY <3>8, <4>1, <4>2 DEF Deadlock
    <3>9. ASSUME NEW v \in Versions, LoseCommit(i, v) PROVE MigrationInv'
      <4> DEFINE m == [migration[i] EXCEPT !.pc = "failed"]
      <4>1. IsMigration(m) /\ m.applied = migration[i].applied /\ m.pc # "serving"
        BY <3>1 DEF IsMigration
      <4>2. Set(i, m) /\ Succeeds(i, v) /\ Transaction(i, v)
        BY <3>9 DEF LoseCommit, Fail
      <4> HIDE DEF m
      <4>3. QED
        BY <4>1, <4>2, TransactionCommits
    <3>10. QED
      BY <2>2, <3>3, <3>4, <3>5, <3>6, <3>7, <3>8, <3>9
  <2>3. QED
    BY <2>1, <2>2 DEF MigrationNext
<1>3. QED
  BY <1>1, <1>2, PTL DEF MigrationSpec

(* Whoever serves has all of its scripts in the database, and none took    *)
(* effect twice but what a database older than the tracking table had: for *)
(* any number of instances and scripts, whatever starts together, dies or  *)
(* loses its connection (migrate.ts of Manager and Orchestrator).          *)
THEOREM ServedIsMigrated == MigrationSpec => []ServesMigrated
<1>1. MigrationInv => ServesMigrated
  <2> SUFFICES ASSUME MigrationInv PROVE ServesMigrated
    OBVIOUS
  <2>1. \A s \in DbServices, v \in Versions :
          /\ effects[s][v] = Before(s, v) + (IF v \in Tracked(s) THEN 1 ELSE 0)
          /\ Before(s, v) = (IF s = "manager" /\ v \in Legacy THEN 1 ELSE 0)
    BY DEF MigrationInv, TrackedTookEffect, Before
  <2>2. ASSUME NEW i \in Instances, Pc(i) = "serving", NEW v \in ScriptsOf[i]
        PROVE  effects[ServiceOf[i]][v] > 0
    <3>1. v \in Versions /\ ServiceOf[i] \in DbServices
      BY MigrationAssumption DEF Versions
    <3>2. v \in Tracked(ServiceOf[i])
      BY <2>2 DEF MigrationInv, ServingIsComplete, AppliedIsTracked
    <3>3. QED
      BY <2>1, <3>1, <3>2
  <2>3. \A s \in DbServices : \A v \in Versions :
          effects[s][v] <= (IF s = "manager" /\ v \in Legacy THEN 2 ELSE 1)
    BY <2>1
  <2>4. QED
    BY <2>2, <2>3 DEF ServesMigrated
<1>2. QED
  BY <1>1, MigrationInvariant, PTL

-----------------------------------------------------------------------------
(* ServiceProcess.  The pool is ended behind the drain, and a loop that is *)
(* deaf has never run, so no check can have found it running.              *)

PoolInv ==
  /\ http = [r \in Requests |-> http[r]]
  /\ pool = "ended" => closing \in {"release", "quit"}
  /\ closing \in {"release", "quit"} => \A r \in Requests : http[r] # "working"
  /\ PoolOutlivesRequests
LoopInv ==
  /\ checks = [c \in Checks |-> checks[c]]
  /\ loop \in {"absent", "starting", "running", "deaf", "stopped"}
  /\ checks["loop"] # "none" => phase = "serving"
  /\ ready = "asked" => checks["loop"] # "none"
  /\ checks["loop"] \in {"none", "pending", "fail", "ok", "skip"}
  /\ checks["loop"] = "ok" => loop \in {"running", "stopped"}
  /\ checks["loop"] = "skip" => loop = "absent"

(* One check is answered.                                                  *)
LEMMA CheckAnswered ==
  ASSUME LoopInv, NEW c \in Checks, NEW result \in {"ok", "fail", "skip"}, Check(c, result),
         c = "loop" => (result = "ok" => loop = "running") /\ (result = "skip" => loop = "absent")
  PROVE  LoopInv'
<1>1. /\ checks[c] = "pending" /\ checks' = [checks EXCEPT ![c] = result]
      /\ UNCHANGED <<phase, loop, ready>>
  BY DEF Check
<1>2. checks'["loop"] = IF c = "loop" THEN result ELSE checks["loop"]
  BY <1>1 DEF LoopInv, Checks
<1>3. checks' = [d \in Checks |-> checks'[d]]
  BY <1>1 DEF LoopInv
<1> QED BY <1>1, <1>2, <1>3 DEF LoopInv

\* The pool ends when no request is left, and a check of the loop that passed
\* was made of a loop that has run.
THEOREM ProcessInvariant == ProcessSpec => [](PoolInv /\ LoopInv)
<1>1. ProcessInit => PoolInv /\ LoopInv
  BY DEF ProcessInit, PoolInv, LoopInv, PoolOutlivesRequests, Checks
<1>2. PoolInv /\ [ProcessNext]_processVars => PoolInv'
  <2> SUFFICES ASSUME PoolInv, [ProcessNext]_processVars PROVE PoolInv'
    OBVIOUS
  <2>1. CASE UNCHANGED <<http, pool, closing>>
    BY <2>1 DEF PoolInv, PoolOutlivesRequests
  <2>2. CASE Migrate
    BY <2>2 DEF Migrate, PoolInv, PoolOutlivesRequests
  <2>3. ASSUME NEW r \in Requests, BeginRequest(r) \/ EndRequest(r) PROVE PoolInv'
    BY <2>3 DEF BeginRequest, EndRequest, PoolInv, PoolOutlivesRequests
  <2>4. CASE Signal
    BY <2>4 DEF Signal, PoolInv, PoolOutlivesRequests
  <2>5. CASE Drain
    BY <2>5 DEF Drain, PoolInv, PoolOutlivesRequests
  <2>6. CASE Release
    BY <2>6 DEF Release, PoolInv, PoolOutlivesRequests
  <2>7. CASE \/ Build \/ Listen \/ ListenAgent \/ StartLoop \/ Probe \/ RedisPing \/ LoopCheck \/ DbQuery
             \/ (\E c \in Checks : CheckTimesOut(c))
             \/ AnswerProbe \/ Quit \/ Watchdog \/ Outage \/ Recovery
    BY <2>1, <2>7 DEF Build, Listen, ListenAgent, StartLoop, Probe, RedisPing, LoopCheck, DbQuery,
       CheckTimesOut, Check, AnswerProbe, Quit, Watchdog, Outage, Recovery
  <2> QED BY <2>1, <2>2, <2>3, <2>4, <2>5, <2>6, <2>7 DEF ProcessNext, processVars
<1>3. LoopInv /\ [ProcessNext]_processVars => LoopInv'
  <2> SUFFICES ASSUME LoopInv, [ProcessNext]_processVars PROVE LoopInv'
    OBVIOUS
  <2>1. CASE UNCHANGED <<checks, loop, phase, ready>>
    BY <2>1 DEF LoopInv
  <2>2. CASE \/ Migrate \/ (\E r \in Requests : BeginRequest(r) \/ EndRequest(r)) \/ Release
             \/ Quit \/ Watchdog \/ Outage \/ Recovery
    BY <2>1, <2>2 DEF LoopInv, Migrate, BeginRequest, EndRequest, Release, Quit, Watchdog, Outage, Recovery
  <2>3. CASE Build \/ Listen \/ ListenAgent \/ StartLoop
    BY <2>3 DEF Build, Listen, ListenAgent, StartLoop, LoopInv
  <2>4. CASE Probe
    BY <2>4 DEF Probe, LoopInv, Serving, Checks
  <2>5. CASE RedisPing \/ DbQuery
    BY <2>5, CheckAnswered DEF RedisPing, DbQuery, Checks
  <2>6. CASE LoopCheck
    BY <2>6, CheckAnswered DEF LoopCheck, LoopState, Checks, LoopInv
  <2>7. ASSUME NEW c \in Checks, CheckTimesOut(c) PROVE LoopInv'
    BY <2>7, CheckAnswered DEF CheckTimesOut
  <2>8. CASE AnswerProbe
    BY <2>8 DEF AnswerProbe, LoopInv
  <2>9. CASE Signal \/ Drain
    BY <2>9 DEF Signal, Drain, LoopInv
  <2> QED BY <2>1, <2>2, <2>3, <2>4, <2>5, <2>6, <2>7, <2>8, <2>9 DEF ProcessNext, processVars
<1> QED BY <1>1, <1>2, <1>3, PTL DEF ProcessSpec

\* A request that is handled when the process is told to end never finds its
\* pool ended (shutdown.ts: resources are closed after the drain).
THEOREM PoolIsThere == ProcessSpec => []PoolOutlivesRequests
  BY ProcessInvariant, PTL DEF PoolInv

\* A process whose loop was given up never reports ready, whatever becomes of
\* Redis while the probe is answered (readiness.ts).
THEOREM DeafSaysSo == ProcessSpec => DeafIsUnready
<1>1. LoopInv /\ [ProcessNext]_processVars
        => [ready' = "ready" /\ ready # "ready" => loop # "deaf"]_processVars
  <2> SUFFICES ASSUME LoopInv, [ProcessNext]_processVars, ready' = "ready", ready # "ready"
               PROVE  loop # "deaf"
    OBVIOUS
  <2>1. AnswerProbe
    BY DEF ProcessNext, processVars, Migrate, Build, Listen, ListenAgent, StartLoop, BeginRequest,
       EndRequest, Probe, RedisPing, LoopCheck, DbQuery, CheckTimesOut, Check, Signal, Drain, Release,
       Quit, Watchdog, Outage, Recovery
  <2>2. checks["loop"] \in {"ok", "skip"}
    BY <2>1 DEF AnswerProbe, LoopInv, Checks
  <2> QED BY <2>2 DEF LoopInv
<1> QED BY <1>1, ProcessInvariant, PTL DEF ProcessSpec, DeafIsUnready

-----------------------------------------------------------------------------
(* ManagedSession.  Incarnations overlap as they like: whatever is           *)
(* registered runs, whoever is stopped has a clean-up on its way, and the    *)
(* last of these leaves nothing behind.                                      *)

Busy(a) == actor[a].pc \notin Ended
Cleaning(a) == actor[a].pc \in {"deleting", "releasing"} \/ (a[2] = 0 /\ actor[a].pc = "aborting")
IsActor(x) == x = [f \in {"pc", "own", "to", "acks"} |-> x[f]]
Going == \E k \in Incs : start[k] = "open" /\ k \notin stopped

Used == {r \in Runs : actor[r].pc # "none"}
SessionShapes ==
  /\ actor = [a \in Actors |-> actor[a]] /\ \A a \in Actors : IsActor(actor[a])
  /\ start = [k \in Incs |-> start[k]] /\ promise = [r \in Runs |-> promise[r]]
  /\ active \in {None} \cup Incs /\ stopped \subseteq Incs /\ faults \in Nat
  /\ \A r \in Used : r[2] <= Cardinality(Used)
Registry ==
  /\ \A a \in Actors : Busy(a) => start[a[1]] = "open"
  /\ \A a \in Actors : Cleaning(a) => a[1] \in stopped
  /\ \A k \in stopped : start[k] \notin {"none", "append"}
  /\ \A k \in Incs : start[k] = "open" /\ k \notin stopped => Busy(Loop(k))
  /\ active # None => start[active] = "open" /\ active \notin stopped
  /\ watched => active # None
CleanInv ==
  /\ (\E k \in Incs : start[k] = "open") => ttl \/ Going \/ \E a \in Actors : Cleaning(a)
  /\ faults = 0 /\ stored # None =>
       (\E k \in Incs : start[k] = "append") \/ Going \/ \E k \in Incs : actor[Loop(k)].pc = "aborting"
Untold ==
  /\ cancelled = {} /\ silent = {} /\ \A r \in Runs : promise[r] # "aborted"
  /\ \A a \in Actors : actor[a].pc # "aborting"
ToldInv == aborted = {} => Untold
SessionInv == SessionShapes /\ Registry /\ CleanInv /\ ToldInv

StaysWhole ==
  \A k \in Incs : Open(k)' => Whole(k)' \/ (Open(k) /\ ~Whole(k)) \/ \E j \in Incs \ {k} : Interferes(j)
Keeps == SessionInv' /\ StaysWhole

LEMMA Names ==
  /\ \A k \in Incs : Loop(k) \in Actors /\ Loop(k)[1] = k /\ Loop(k)[2] = 0 /\ k # None
  /\ \A a \in Actors : a[1] \in Incs /\ (a[2] = 0 => a = Loop(a[1]))
  /\ \A r \in Runs : r \in Actors /\ r[2] # 0
  /\ \A k \in Incs : \A i \in 1..MaxRuns : <<k, i>> \in Runs /\ <<k, i>>[1] = k
  /\ Nobody \notin Actors
  BY SessionAssumption DEF Actors, Loops, Loop, Runs, Incs, None, Nobody

(* What any step of one actor keeps.                                       *)
LEMMA OneGoesOn ==
  ASSUME SessionShapes, NEW a \in Actors, Busy(a), NEW x, IsActor(x), x.pc # "none",
         actor' = [actor EXCEPT ![a] = x], UNCHANGED start, stopped' \subseteq Incs,
         promise' = [r \in Runs |-> promise'[r]], active' \in {None, active}, faults' \in {faults, faults + 1}
  PROVE  /\ SessionShapes'
         /\ \A b \in Actors : actor'[b] = IF b = a THEN x ELSE actor[b]
         /\ \A b \in Actors : b # a => (Busy(b)' <=> Busy(b)) /\ (Cleaning(b)' <=> Cleaning(b))
<1>1. \A b \in Actors : actor'[b] = IF b = a THEN x ELSE actor[b]
  BY DEF SessionShapes
<1>2. SessionShapes'
  <2>1. \A r \in Runs : actor'[r].pc # "none" <=> actor[r].pc # "none"
    BY <1>1, Names DEF Busy, Ended
  <2>2. Used' = Used
    BY <2>1 DEF Used
  <2>3. (\A r \in Used : r[2] <= Cardinality(Used))'
    BY <2>2 DEF SessionShapes
  <2>4. faults' \in Nat
    BY DEF SessionShapes
  <2> QED BY <1>1, <2>3, <2>4, Names DEF SessionShapes
<1>3. \A b \in Actors : b # a => (Busy(b)' <=> Busy(b)) /\ (Cleaning(b)' <=> Cleaning(b))
  BY <1>1 DEF Busy, Cleaning
<1> QED BY <1>1, <1>2, <1>3

(* A step that leaves the registry, the store and the streams alone keeps   *)
(* every open incarnation whole; one that does not is of a party that was   *)
(* stopped, and disturbs only others.                                       *)
LEMMA WholeStays ==
  ASSUME SessionShapes, Registry, NEW a \in Actors, Busy(a), NEW x, actor' = [actor EXCEPT ![a] = x], UNCHANGED start,
         stopped \subseteq stopped', UNCHANGED <<active, stored, ttl>>
  PROVE  StaysWhole
<1> SUFFICES ASSUME NEW k \in Incs, Open(k)', Open(k) => Whole(k) PROVE Whole(k)'
  BY DEF StaysWhole
<1>1. Open(k)
  <2>1. CASE start'[k] = "append"
    BY <2>1 DEF Open
  <2>2. CASE Alive(k)'
    <3>1. k \notin stopped /\ actor'[Loop(k)].pc \notin Ended
      BY <2>2 DEF Alive
    <3>2. actor[Loop(k)].pc \notin Ended
      <4>1. CASE Loop(k) = a
        BY <4>1 DEF Busy
      <4>2. CASE Loop(k) # a
        BY <3>1, <4>2 DEF SessionShapes
      <4> QED BY <4>1, <4>2
    <3> QED BY <3>1, <3>2 DEF Open, Alive
  <2> QED BY <2>1, <2>2 DEF Open
<1> QED BY <1>1 DEF Whole
LEMMA StoppedDisturbsOthers ==
  ASSUME SessionShapes, Registry, NEW a \in Actors, Busy(a), NEW x, actor' = [actor EXCEPT ![a] = x], UNCHANGED start,
         a[1] \in stopped', x.pc # actor[a].pc,
         x.pc \in {"aborting", "deleting", "releasing"} \/ actor[a].pc = "releasing"
  PROVE  StaysWhole
<1> SUFFICES ASSUME NEW k \in Incs, Open(k)' PROVE \E j \in Incs \ {k} : Interferes(j)
  BY DEF StaysWhole
<1>1. actor'[a] = x /\ actor'[a] # actor[a] /\ a[1] \in Incs
  BY Names DEF SessionShapes
<1>2. Interferes(a[1])
  BY <1>1 DEF Interferes
<1>3. k # a[1]
  <2>1. start'[a[1]] = "open"
    BY DEF Registry
  <2>2. ~Alive(a[1])'
    BY DEF Alive
  <2> QED BY <2>1, <2>2 DEF Open
<1> QED BY <1>1, <1>2, <1>3

(* An actor goes on, and nothing it does concerns the registry.            *)
LEMMA QuietStep ==
  ASSUME SessionShapes, Registry, CleanInv, NEW a \in Actors, Busy(a), ~Cleaning(a), NEW x, IsActor(x), x.pc # "none",
         actor' = [actor EXCEPT ![a] = x], UNCHANGED <<active, stored, start, stopped, ttl, watched>>,
         promise' = [r \in Runs |-> promise'[r]], faults' \in {faults, faults + 1},
         x.pc \in Ended => a[1] \in stopped,
         x.pc = "aborting" => a[2] # 0, x.pc \notin {"deleting", "releasing"}
  PROVE  SessionShapes' /\ Registry' /\ CleanInv' /\ StaysWhole
<1>1. /\ SessionShapes'
      /\ \A b \in Actors : actor'[b] = IF b = a THEN x ELSE actor[b]
      /\ \A b \in Actors : b # a => (Busy(b)' <=> Busy(b)) /\ (Cleaning(b)' <=> Cleaning(b))
  BY OneGoesOn DEF SessionShapes
<1>2. ~Cleaning(a)' /\ (a[1] \notin stopped => Busy(a)')
  BY <1>1 DEF Cleaning, Busy
<1>3. Registry'
  <2>1. \A b \in Actors : Busy(b)' => start'[b[1]] = "open"
    BY <1>1 DEF Registry
  <2>2. \A b \in Actors : Cleaning(b)' => b[1] \in stopped'
    BY <1>1, <1>2 DEF Registry
  <2>3. ASSUME NEW k \in Incs, start[k] = "open", k \notin stopped PROVE Busy(Loop(k))'
    BY <1>1, <1>2, <2>3, Names DEF Registry
  <2> QED BY <2>1, <2>2, <2>3 DEF Registry
<1>4. CleanInv'
  <2>1. \A b \in Actors : Cleaning(b)' <=> Cleaning(b)
    BY <1>1, <1>2
  <2>2. \A k \in Incs : actor[Loop(k)].pc = "aborting" => actor'[Loop(k)].pc = "aborting"
    BY <1>1, Names DEF Cleaning
  <2>3. faults' = 0 => faults = 0
    BY DEF SessionShapes
  <2>4. Going' <=> Going
    BY DEF Going
  <2> QED BY <2>1, <2>2, <2>3, <2>4 DEF CleanInv
<1>5. StaysWhole
  BY WholeStays
<1> QED BY <1>1, <1>3, <1>4, <1>5

(* The incarnation is stopped and leaves the registry.                     *)
LEMMA StoppingStep ==
  ASSUME SessionShapes, Registry, CleanInv, NEW a \in Actors, Busy(a), ~Cleaning(a), NEW x, IsActor(x), x.pc # "none",
         actor' = [actor EXCEPT ![a] = x], UNCHANGED start,
         stopped' = stopped \cup {a[1]}, active' = None, watched' = FALSE,
         promise' = [r \in Runs |-> promise'[r]], faults' \in {faults, faults + 1},
         x.pc \in {"deleting", "releasing"} \/ (a[2] = 0 /\ x.pc = "aborting"),
         stored' = None \/ (a[2] = 0 /\ x.pc = "aborting")
  PROVE  SessionShapes' /\ Registry' /\ CleanInv' /\ StaysWhole
<1>1. /\ SessionShapes'
      /\ \A b \in Actors : actor'[b] = IF b = a THEN x ELSE actor[b]
      /\ \A b \in Actors : b # a => (Busy(b)' <=> Busy(b)) /\ (Cleaning(b)' <=> Cleaning(b))
  <2>1. stopped' \subseteq Incs
    BY Names DEF SessionShapes
  <2> QED BY <2>1, OneGoesOn
<1>2. Cleaning(a)'
  BY <1>1 DEF Cleaning
<1>3. Registry'
  <2>1. \A b \in Actors : Busy(b)' => start'[b[1]] = "open"
    BY <1>1 DEF Registry
  <2>2. \A b \in Actors : Cleaning(b)' => b[1] \in stopped'
    BY <1>1 DEF Registry
  <2>3. ASSUME NEW k \in Incs, start[k] = "open", k \notin stopped' PROVE Busy(Loop(k))'
    BY <1>1, <2>3, Names DEF Registry
  <2>4. \A k \in stopped' : start'[k] \notin {"none", "append"}
    BY DEF Registry
  <2> QED BY <2>1, <2>2, <2>3, <2>4 DEF Registry
<1>4. CleanInv'
  <2>1. a[2] = 0 => a[1] \in Incs /\ a = Loop(a[1])
    BY Names
  <2>2. stored' # None => \E k \in Incs : actor'[Loop(k)].pc = "aborting"
    BY <1>1, <2>1
  <2> QED BY <1>2, <2>2 DEF CleanInv
<1>5. StaysWhole
  <2>1. x.pc # actor[a].pc
    BY DEF Cleaning
  <2> QED BY <2>1, StoppedDisturbsOthers
<1> QED BY <1>1, <1>3, <1>4, <1>5

(* The clean-up of a stopped incarnation.                                  *)
LEMMA CleaningStep ==
  ASSUME SessionShapes, Registry, CleanInv, NEW a \in Actors, Busy(a), Cleaning(a), a[1] \in stopped,
         NEW x, IsActor(x), x.pc # "none", actor' = [actor EXCEPT ![a] = x], UNCHANGED <<start, stopped, active, watched>>,
         promise' = [r \in Runs |-> promise'[r]], faults' \in {faults, faults + 1},
         x.pc # actor[a].pc, x.pc \in {"deleting", "releasing"} \/ (ttl' /\ actor[a].pc = "releasing"),
         x.pc # "aborting", stored' = None \/ (UNCHANGED stored /\ (actor[a].pc # "aborting" \/ faults' # faults))
  PROVE  SessionShapes' /\ Registry' /\ CleanInv' /\ StaysWhole
<1>1. /\ SessionShapes'
      /\ \A b \in Actors : actor'[b] = IF b = a THEN x ELSE actor[b]
      /\ \A b \in Actors : b # a => (Busy(b)' <=> Busy(b)) /\ (Cleaning(b)' <=> Cleaning(b))
  BY OneGoesOn DEF SessionShapes
<1>2. ttl' \/ Cleaning(a)'
  BY <1>1 DEF Cleaning
<1>3. Registry'
  <2>1. \A b \in Actors : Busy(b)' => start'[b[1]] = "open"
    BY <1>1 DEF Registry
  <2>2. \A b \in Actors : Cleaning(b)' => b[1] \in stopped'
    BY <1>1 DEF Registry
  <2>3. ASSUME NEW k \in Incs, start[k] = "open", k \notin stopped PROVE Busy(Loop(k))'
    BY <1>1, <2>3, Names DEF Registry
  <2> QED BY <2>1, <2>2, <2>3 DEF Registry
<1>4. CleanInv'
  <2>1. faults' = 0 => faults = 0 /\ (stored' = None \/ (UNCHANGED stored /\ actor[a].pc # "aborting"))
    BY DEF SessionShapes
  <2>2. \A k \in Incs : actor[a].pc # "aborting" /\ actor[Loop(k)].pc = "aborting" => actor'[Loop(k)].pc = "aborting"
    BY <1>1, Names
  <2>3. Going' <=> Going
    BY DEF Going
  <2> QED BY <1>2, <2>1, <2>2, <2>3 DEF CleanInv
<1>5. StaysWhole
  BY StoppedDisturbsOthers
<1> QED BY <1>1, <1>3, <1>4, <1>5

(* Unless a person ended the session, nobody is cancelled or silent.       *)
LEMMA ToldStep ==
  ASSUME SessionShapes, ToldInv, NEW a \in Actors, NEW x, actor' = [actor EXCEPT ![a] = x],
         aborted \subseteq aborted',
         aborted' = {} => /\ cancelled' \subseteq cancelled /\ silent' = silent /\ x.pc # "aborting"
                          /\ \A r \in Runs : promise'[r] = "aborted" => promise[r] = "aborted"
  PROVE  ToldInv'
<1>1. \A b \in Actors : actor'[b] = IF b = a THEN x ELSE actor[b]
  BY DEF SessionShapes
<1> QED BY <1>1 DEF ToldInv, Untold

(* The clean-up of an actor: a loop that crashes, a run that ends.         *)
LEMMA CleansUp ==
  ASSUME SessionInv, NEW a \in Actors, Busy(a), ~Cleaning(a), CleanUp(a), UNCHANGED <<start, cancelled, aborted>>,
         faults' \in {faults, faults + 1}, silent' = silent \/ aborted # {}
  PROVE  Keeps
<1> PICK x, pc : pc = (IF stored = None THEN "releasing" ELSE "deleting") /\ x = [actor[a] EXCEPT !.pc = pc]
  OBVIOUS
<1>1. /\ actor' = [actor EXCEPT ![a] = x] /\ IsActor(x) /\ x.pc = pc
      /\ stopped' = stopped \cup {a[1]} /\ active' = None /\ watched' = FALSE /\ stored' = None
  BY DEF CleanUp, Unregister, DropEntry, At, SessionInv, SessionShapes, IsActor
<1>2. /\ promise' = [r \in Runs |-> promise'[r]]
      /\ \A r \in Runs : promise'[r] = "aborted" => promise[r] = "aborted"
  BY DEF CleanUp, DropEntry, RejectWaiter, SessionInv, SessionShapes
<1>3. x.pc # "none" /\ x.pc # "aborting" /\ x.pc \in {"deleting", "releasing"}
  BY <1>1
<1>4. SessionShapes' /\ Registry' /\ CleanInv' /\ StaysWhole
  BY <1>1, <1>2, <1>3, StoppingStep DEF SessionInv
<1>5. ToldInv'
  BY <1>1, <1>2, <1>3, ToldStep DEF SessionInv
<1> QED BY <1>4, <1>5 DEF Keeps, SessionInv

(* An actor goes on within the session: nothing is registered, stored or   *)
(* dropped.                                                                *)
LEMMA GoesOn ==
  ASSUME SessionInv, NEW a \in Actors, Busy(a), ~Cleaning(a), NEW x, IsActor(x), x.pc # "none",
         actor' = [actor EXCEPT ![a] = x], UNCHANGED <<active, stored, start, stopped, ttl, watched, silent>>,
         promise' = [r \in Runs |-> promise'[r]], faults' \in {faults, faults + 1},
         x.pc \in Ended => a[1] \in stopped, x.pc = "aborting" => a[2] # 0, x.pc \notin {"deleting", "releasing"},
         aborted \subseteq aborted',
         aborted' = {} => /\ cancelled' \subseteq cancelled /\ x.pc # "aborting"
                          /\ \A r \in Runs : promise'[r] = "aborted" => promise[r] = "aborted"
  PROVE  Keeps
<1>1. SessionShapes' /\ Registry' /\ CleanInv' /\ StaysWhole
  BY QuietStep DEF SessionInv
<1>2. ToldInv'
  BY ToldStep DEF SessionInv
<1> QED BY <1>1, <1>2 DEF Keeps, SessionInv

(* A step of its own: the place changes, and little else.                  *)
LEMMA MovesOn ==
  ASSUME SessionInv, NEW a \in Actors, Busy(a), ~Cleaning(a), NEW pc, At(a, pc),
         UNCHANGED <<active, stored, start, stopped, ttl, watched, silent, cancelled, aborted>>,
         promise' = [r \in Runs |-> promise'[r]], faults' \in {faults, faults + 1},
         pc \notin {"none", "deleting", "releasing", "aborting"}, pc \in Ended => a[1] \in stopped,
         \A r \in Runs : promise'[r] = "aborted" => promise[r] = "aborted"
  PROVE  Keeps
<1> PICK x : x = [actor[a] EXCEPT !.pc = pc]
  OBVIOUS
<1>1. actor' = [actor EXCEPT ![a] = x] /\ IsActor(x) /\ x.pc = pc
  BY DEF At, SessionInv, SessionShapes, IsActor
<1> QED BY <1>1, GoesOn

(* The end of a clean-up.                                                  *)
LEMMA GoesOnAborted ==
  ASSUME SessionInv, NEW a \in Actors, Busy(a), ~Cleaning(a), NEW x, IsActor(x),
         x.pc \notin {"none", "done", "deleting", "releasing"}, a[2] # 0,
         actor' = [actor EXCEPT ![a] = x], UNCHANGED <<active, stored, start, stopped, ttl, watched, silent>>,
         promise' = [r \in Runs |-> promise'[r]], faults' \in {faults, faults + 1},
         aborted \subseteq aborted', aborted' # {}
  PROVE  Keeps
  BY GoesOn DEF Ended

LEMMA CleanUpEnds ==
  ASSUME SessionInv, NEW a \in Actors, CleanDelete(a) \/ CleanRelease(a)
  PROVE  Keeps
<1>1. Busy(a) /\ Cleaning(a) /\ actor[a].pc # "aborting" /\ a[1] \in stopped
  BY DEF CleanDelete, CleanRelease, Busy, Cleaning, Ended, SessionInv, Registry
<1>2. /\ UNCHANGED <<active, stored, entry, start, stopped, silent, aborted, watched>>
      /\ cancelled' \subseteq cancelled /\ faults' \in {faults, faults + 1}
      /\ promise' = [r \in Runs |-> promise'[r]]
      /\ \A r \in Runs : promise'[r] = "aborted" => promise[r] = "aborted"
  BY DEF CleanDelete, CleanRelease, Commit, Lost, Fault, runs, SessionInv, SessionShapes
<1>3. ASSUME NEW x, IsActor(x), x.pc \notin {"none", "aborting"}, actor' = [actor EXCEPT ![a] = x],
             x.pc # actor[a].pc, x.pc \in {"deleting", "releasing"} \/ (ttl' /\ actor[a].pc = "releasing")
      PROVE  Keeps
  <2>1. SessionShapes' /\ Registry' /\ CleanInv' /\ StaysWhole
    BY <1>1, <1>2, <1>3, CleaningStep DEF SessionInv
  <2>2. ToldInv'
    BY <1>2, <1>3, ToldStep DEF SessionInv
  <2> QED BY <2>1, <2>2 DEF Keeps, SessionInv
<1>4. CASE CleanDelete(a)
  <2> PICK x : x = [actor[a] EXCEPT !.pc = "releasing"]
    OBVIOUS
  <2>1. actor' = [actor EXCEPT ![a] = x] /\ IsActor(x) /\ x.pc = "releasing" /\ actor[a].pc = "deleting"
    BY <1>4 DEF CleanDelete, At, SessionInv, SessionShapes, IsActor
  <2> QED BY <1>3, <2>1
<1>5. CASE CleanRelease(a)
  <2> PICK x : x = IF a[2] = 0 /\ actor[a].acks THEN [Absent EXCEPT !.pc = "reading"] ELSE [Absent EXCEPT !.pc = "done"]
    OBVIOUS
  <2>1. actor' = [actor EXCEPT ![a] = x] /\ ttl' /\ actor[a].pc = "releasing"
    BY <1>5 DEF CleanRelease, Expire
  <2>2. IsActor(x) /\ x.pc \in {"reading", "done"}
    BY DEF IsActor, Absent
  <2> QED BY <1>3, <2>1, <2>2
<1> QED BY <1>4, <1>5

(* The consumer's loop.                                                    *)
LEMMA LoopAtWork ==
  ASSUME SessionInv, NEW k \in Incs, actor[Loop(k)].pc \in {"ready", "reading", "resolving", "aborting"}
  PROVE  /\ Busy(Loop(k)) /\ Loop(k) \in Actors /\ Loop(k)[1] = k /\ Loop(k)[2] = 0 /\ Loop(k) \notin Runs
         /\ IsActor(actor[Loop(k)])
         /\ actor[Loop(k)].pc # "aborting" => ~Cleaning(Loop(k))
         /\ actor[Loop(k)].pc = "aborting" => Cleaning(Loop(k)) /\ k \in stopped /\ aborted # {}
  BY Names DEF Busy, Cleaning, Ended, SessionInv, SessionShapes, Registry, ToldInv, Untold

LEMMA LoopSteps ==
  ASSUME SessionInv, NEW k \in Incs,
         LoopReady(k) \/ LoopCrash(k) \/ LoopEnds(k) \/ ReceiveAnswer(k) \/ Resolved(k)
  PROVE  Keeps
<1>0. actor[Loop(k)].pc \in {"ready", "reading", "resolving"}
  BY DEF LoopReady, LoopCrash, LoopEnds, ReceiveAnswer, Resolved
<1> PICK a : a = Loop(k)
  OBVIOUS
<1>1. /\ Busy(a) /\ a \in Actors /\ a[1] = k /\ a[2] = 0 /\ ~Cleaning(a)
      /\ IsActor(actor[a]) /\ actor[a].pc \in {"ready", "reading", "resolving"}
      /\ promise = [r \in Runs |-> promise[r]]
  BY <1>0, LoopAtWork DEF SessionInv, SessionShapes
<1>2. CASE LoopReady(k)
  BY <1>1, <1>2, MovesOn DEF LoopReady, runs, Ended
<1>3. CASE LoopCrash(k)
  BY <1>1, <1>3, CleansUp DEF LoopCrash, Fault
<1>4. CASE LoopEnds(k)
  BY <1>1, <1>4, MovesOn DEF LoopEnds, runs
<1>5. CASE ReceiveAnswer(k)
  <2> PICK x : x = [actor[a] EXCEPT !.pc = "resolving", !.to = entry.waiter]
    OBVIOUS
  <2>1. actor' = [actor EXCEPT ![a] = x] /\ IsActor(x) /\ x.pc = "resolving"
    BY <1>1, <1>5 DEF ReceiveAnswer, IsActor
  <2>2. UNCHANGED <<active, stored, start, stopped, ttl, watched, promise, cancelled, silent, aborted, faults>>
    BY <1>5 DEF ReceiveAnswer, runs
  <2>3. x.pc \notin Ended /\ x.pc # "none" /\ x.pc \notin {"aborting", "deleting", "releasing"}
    BY <2>1 DEF Ended
  <2> QED BY <1>1, <2>1, <2>2, <2>3, GoesOn
<1>6. CASE Resolved(k)
  <2> PICK x : x = [Absent EXCEPT !.pc = "reading"]
    OBVIOUS
  <2>1. actor' = [actor EXCEPT ![a] = x] /\ IsActor(x) /\ x.pc = "reading"
    BY <1>6 DEF Resolved, IsActor, Absent
  <2>2. /\ promise' = [r \in Runs |-> promise'[r]] /\ faults' \in {faults, faults + 1}
        /\ \A r \in Runs : promise'[r] = "aborted" => promise[r] = "aborted"
    BY <1>1, <1>6 DEF Resolved, Commit, Lost, Fault
  <2> QED BY <1>1, <1>6, <2>1, <2>2, GoesOn DEF Resolved, Ended
<1> QED BY <1>2, <1>3, <1>4, <1>5, <1>6

(* A request starts a run, which was not there before.                     *)
LEMMA RequestStep ==
  ASSUME SessionInv, NEW k \in Incs, ReceiveRequest(k)
  PROVE  Keeps
<1> PICK n : n = Cardinality(Used)
  OBVIOUS
<1>1. PICK i \in 1..MaxRuns, pc \in {"prepare", "decompose"} : i = n + 1 /\ At(<<k, i>>, pc)
  BY DEF ReceiveRequest, Used
<1>2. /\ UNCHANGED <<active, stored, entry, start, stopped, runs, aborted, ttl, watched, faults>>
      /\ actor[Loop(k)].pc = "reading"
  BY DEF ReceiveRequest
<1> PICK b, x : b = <<k, i>> /\ x = [actor[b] EXCEPT !.pc = pc]
  OBVIOUS
<1>3. b \in Runs /\ b[1] = k /\ b[2] = n + 1 /\ b \in Actors /\ b[2] # 0 /\ Busy(Loop(k)) /\ Loop(k) \in Actors
      /\ n \in Nat /\ IsFiniteSet(Used)
  <2>1. b \in Runs /\ b[1] = k /\ b \in Actors /\ Loop(k) \in Actors /\ Busy(Loop(k))
    BY <1>2, Names DEF Busy, Ended
  <2>2. b[2] = n + 1 /\ b[2] # 0
    BY <1>1, SessionAssumption
  <2>3. IsFiniteSet(Runs)
    <3>1. MaxIncs \in Int /\ MaxRuns \in Int /\ 1 \in Int
      BY SessionAssumption
    <3>2. IsFiniteSet(1..MaxIncs) /\ IsFiniteSet(1..MaxRuns)
      BY <3>1, FS_Interval
    <3> QED BY <3>2, FS_Product DEF Runs, Incs
  <2>4. IsFiniteSet(Used)
    BY <2>3, FS_Subset DEF Used
  <2> QED BY <2>1, <2>2, <2>4, FS_CardinalityType
<1>4. actor[b].pc = "none"
  <2>1. b \in Used => b[2] <= n
    BY DEF SessionInv, SessionShapes
  <2>2. b \notin Used
    BY <1>3, <2>1
  <2> QED BY <1>3, <2>2 DEF Used
<1>5. actor' = [actor EXCEPT ![b] = x] /\ IsActor(x) /\ x.pc = pc
  <2>1. actor = [a \in Actors |-> actor[a]] /\ IsActor(actor[b])
    BY <1>3 DEF SessionInv, SessionShapes
  <2>2. IsActor(x) /\ x.pc = pc
    BY <2>1 DEF IsActor
  <2> QED BY <1>1, <1>3, <2>1, <2>2 DEF At
<1>6. /\ \A a \in Actors : actor'[a] = IF a = b THEN x ELSE actor[a]
      /\ Busy(b)' /\ ~Busy(b) /\ ~Cleaning(b)' /\ ~Cleaning(b) /\ actor'[Loop(k)] = actor[Loop(k)]
  BY <1>3, <1>4, <1>5, Names DEF SessionInv, SessionShapes, Busy, Cleaning, Ended
<1>7. \A a \in Actors : a # b => (Busy(a)' <=> Busy(a)) /\ (Cleaning(a)' <=> Cleaning(a))
  BY <1>6 DEF Busy, Cleaning
<1>8. SessionShapes'
  <2>1. Used' = Used \cup {b} /\ b \notin Used
    BY SMTT(30), <1>3, <1>4, <1>6, Names DEF Used, Busy, Ended
  <2> PICK S : S = Used
    OBVIOUS
  <2>2. Cardinality(S \cup {b}) = n + 1
    BY <1>3, <2>1, FS_AddElement
  <2>3. \A r \in S : r[2] \in Nat /\ r[2] <= n
    <3>1. \A r \in S : r[2] <= Cardinality(Used)
      BY DEF SessionInv, SessionShapes
    <3>2. \A r \in Runs : r[2] \in Nat
      BY SessionAssumption DEF Runs
    <3> QED BY <3>1, <3>2 DEF Used
  <2>4. (\A r \in Used : r[2] <= Cardinality(Used))'
    BY <1>3, <2>1, <2>2, <2>3
  <2> QED BY <1>2, <1>5, <1>6, <2>4 DEF SessionInv, SessionShapes, runs
<1>9. \A j \in Incs : actor'[Loop(j)] = actor[Loop(j)]
  BY <1>3, <1>6, Names
<1>10. Registry'
  <2>1. start[k] = "open"
    BY <1>3, Names DEF SessionInv, Registry
  <2>2. \A a \in Actors : Busy(a)' => start'[a[1]] = "open"
    BY <1>2, <1>3, <1>7, <2>1 DEF SessionInv, Registry
  <2>3. \A a \in Actors : Cleaning(a)' => a[1] \in stopped'
    BY <1>2, <1>6, <1>7 DEF SessionInv, Registry
  <2>4. \A j \in Incs : Busy(Loop(j))' <=> Busy(Loop(j))
    BY <1>9 DEF Busy
  <2> QED BY <1>2, <2>2, <2>3, <2>4 DEF SessionInv, Registry
<1>11. CleanInv'
  <2>1. Going' <=> Going
    BY <1>2 DEF Going
  <2> QED BY <1>2, <1>6, <1>7, <1>9, <2>1 DEF SessionInv, CleanInv
<1>12. ToldInv'
  <2>1. \A a \in Actors : actor'[a].pc = "aborting" => actor[a].pc = "aborting"
    BY <1>5, <1>6
  <2> QED BY <1>2, <2>1 DEF SessionInv, ToldInv, Untold, runs
<1>13. StaysWhole
  <2> SUFFICES ASSUME NEW j \in Incs PROVE (Open(j)' <=> Open(j)) /\ (Whole(j)' <=> Whole(j))
    BY DEF StaysWhole
  <2> QED BY <1>2, <1>9 DEF Open, Alive, Whole
<1> QED BY <1>8, <1>10, <1>11, <1>12, <1>13 DEF Keeps, SessionInv

(* The session is refused or aborted by a message.                         *)
LEMMA LoopStops ==
  ASSUME SessionInv, NEW k \in Incs, ReceiveRefused(k) \/ ReceiveAbort(k)
  PROVE  Keeps
<1>0. actor[Loop(k)].pc = "reading"
  BY DEF ReceiveRefused, ReceiveAbort
<1> PICK a : a = Loop(k)
  OBVIOUS
<1>1. /\ Busy(a) /\ a \in Actors /\ a[1] = k /\ a[2] = 0 /\ ~Cleaning(a)
      /\ IsActor(actor[a]) /\ actor[a].pc = "reading" /\ promise = [r \in Runs |-> promise[r]]
      /\ actor = [b \in Actors |-> actor[b]]
  BY <1>0, LoopAtWork DEF SessionInv, SessionShapes
<1>2. CASE ReceiveRefused(k)
  <2> PICK x, pc : pc = (IF stored = None THEN "releasing" ELSE "deleting") /\ x = [actor[a] EXCEPT !.pc = pc, !.acks = TRUE]
    OBVIOUS
  <2>1. /\ actor' = [actor EXCEPT ![a] = x] /\ IsActor(x) /\ x.pc = pc /\ stored' = None
        /\ UNCHANGED <<start, cancelled, silent, aborted, faults>>
        /\ stopped' = stopped \cup {k} /\ active' = None /\ watched' = FALSE
    BY <1>1, <1>2 DEF ReceiveRefused, IsActor, DropEntry, Unregister
  <2>2. /\ promise' = [r \in Runs |-> promise'[r]]
        /\ \A r \in Runs : promise'[r] = "aborted" => promise[r] = "aborted"
    BY <1>1, <1>2 DEF ReceiveRefused, DropEntry, RejectWaiter
  <2>3. x.pc \in {"deleting", "releasing"} /\ x.pc # "none" /\ x.pc # "aborting"
    BY <2>1
  <2>4. SessionShapes' /\ Registry' /\ CleanInv' /\ StaysWhole
    BY <1>1, <2>1, <2>2, <2>3, StoppingStep DEF SessionInv
  <2>5. ToldInv'
    BY <1>1, <2>1, <2>2, <2>3, ToldStep DEF SessionInv
  <2> QED BY <2>4, <2>5 DEF Keeps, SessionInv
<1>3. CASE ReceiveAbort(k)
  <2> PICK x, pc : pc = (IF stored # None THEN "aborting" ELSE "releasing")
                   /\ x = [actor[a] EXCEPT !.pc = pc, !.to = IF stored # None THEN entry.waiter ELSE @, !.acks = TRUE]
    OBVIOUS
  <2>1. /\ aborted' = aborted \cup {k} /\ stopped' = stopped \cup {k} /\ active' = None /\ watched' = FALSE
        /\ UNCHANGED <<stored, start, promise, silent, faults>>
    BY <1>3 DEF ReceiveAbort, Unregister
  <2>2. actor' = [actor EXCEPT ![a] = x]
    <3>1. CASE stored # None
      <4>1. AbortEntry(a) /\ a[2] = 0
        BY <1>1, <1>3, <3>1 DEF ReceiveAbort
      <4> QED BY <1>1, <3>1, <4>1 DEF AbortEntry
    <3>2. CASE stored = None
      <4>1. actor' = [actor EXCEPT ![a].pc = "releasing", ![a].acks = TRUE]
        BY <1>3, <3>2 DEF ReceiveAbort
      <4>2. x = [actor[a] EXCEPT !.pc = "releasing", !.to = actor[a].to, !.acks = TRUE]
        BY <3>2
      <4>3. x = [actor[a] EXCEPT !.pc = "releasing", !.acks = TRUE]
        BY <1>1, <4>2 DEF IsActor
      <4> QED BY <1>1, <4>1, <4>3
    <3> QED BY <3>1, <3>2
  <2>3. IsActor(x) /\ x.pc = pc /\ x.pc # "none" /\ (stored' = None \/ x.pc = "aborting")
        /\ (x.pc \in {"deleting", "releasing"} \/ x.pc = "aborting")
    BY <1>1, <2>1 DEF IsActor
  <2>4. SessionShapes' /\ Registry' /\ CleanInv' /\ StaysWhole
    BY <1>1, <2>1, <2>2, <2>3, StoppingStep DEF SessionInv
  <2>5. ToldInv'
    BY <1>1, <2>1, <2>2, ToldStep DEF SessionInv
  <2> QED BY <2>4, <2>5 DEF Keeps, SessionInv
<1> QED BY <1>2, <1>3

(* The abort is recorded, or not.                                          *)
LEMMA AbortRecorded ==
  ASSUME SessionInv, NEW k \in Incs, Aborted(k)
  PROVE  Keeps
<1>0. actor[Loop(k)].pc = "aborting"
  BY DEF Aborted
<1> PICK a, to : a = Loop(k) /\ to = actor[a].to
  OBVIOUS
<1>1. /\ Busy(a) /\ a \in Actors /\ a[1] = k /\ a[2] = 0 /\ Cleaning(a) /\ k \in stopped /\ aborted # {}
      /\ IsActor(actor[a]) /\ actor[a].pc = "aborting"
      /\ promise = [r \in Runs |-> promise[r]] /\ actor = [b \in Actors |-> actor[b]]
  BY <1>0, LoopAtWork DEF SessionInv, SessionShapes
<1>2. UNCHANGED <<active, start, stopped, cancelled, silent, aborted, ttl, watched>>
  BY DEF Aborted
<1>3. ASSUME NEW x, NEW pc \in {"deleting", "releasing"}, x = [actor[a] EXCEPT !.pc = pc, !.to = Nobody],
             actor' = [actor EXCEPT ![a] = x], faults' \in {faults, faults + 1},
             stored' = None \/ (UNCHANGED stored /\ faults' # faults),
             promise' = [r \in Runs |-> promise'[r]]
      PROVE  Keeps
  <2>1. IsActor(x) /\ x.pc = pc /\ x.pc # "none" /\ x.pc # "aborting"
    BY <1>1, <1>3 DEF IsActor
  <2>2. SessionShapes' /\ Registry' /\ CleanInv' /\ StaysWhole
    BY <1>1, <1>2, <1>3, <2>1, CleaningStep DEF SessionInv
  <2>3. ToldInv'
    BY <1>1, <1>2, <1>3, ToldStep DEF SessionInv
  <2> QED BY <2>2, <2>3 DEF Keeps, SessionInv
<1>4. CASE Commit("idle")
  <2> PICK x, pc : pc = (IF stored = None THEN "releasing" ELSE "deleting")
                   /\ x = [actor[a] EXCEPT !.pc = pc, !.to = Nobody]
    OBVIOUS
  <2> PICK rejected : rejected = IF to = Nobody THEN promise ELSE [promise EXCEPT ![to] = "aborted"]
    OBVIOUS
  <2>1. ~Lost
    BY <1>4 DEF Commit, Lost, Fault, SessionInv, SessionShapes
  <2>2. /\ promise' = IF stored = None \/ entry.waiter = Nobody THEN rejected
                      ELSE [rejected EXCEPT ![entry.waiter] = "deleted"]
        /\ stored' = None
        /\ actor' = [actor EXCEPT ![a].pc = pc, ![a].to = Nobody]
    BY <2>1 DEF Aborted
  <2>3. actor' = [actor EXCEPT ![a] = x] /\ UNCHANGED faults
    BY <1>1, <1>4, <2>2 DEF Commit
  <2>4. rejected = [r \in Runs |-> rejected[r]]
    BY <1>1
  <2>5. promise' = [r \in Runs |-> promise'[r]]
    BY <2>2, <2>4
  <2> QED BY <1>3, <2>2, <2>3, <2>5
<1>5. CASE Lost
  <2> PICK x : x = [actor[a] EXCEPT !.pc = "releasing", !.to = Nobody]
    OBVIOUS
  <2>1. ~Commit("idle")
    BY <1>5 DEF Commit, Lost, Fault, SessionInv, SessionShapes
  <2>2. /\ UNCHANGED <<promise, stored>> /\ faults' = faults + 1 /\ faults' # faults
        /\ actor' = [actor EXCEPT ![a].pc = "releasing", ![a].to = Nobody]
    <3>1. faults' = faults + 1 /\ faults \in Nat
      BY <1>5 DEF Lost, Fault, SessionInv, SessionShapes
    <3>2. faults' # faults
      BY <3>1
    <3> QED BY <2>1, <3>1, <3>2 DEF Aborted
  <2>3. actor' = [actor EXCEPT ![a] = x] /\ promise' = [r \in Runs |-> promise'[r]]
    BY <1>1, <2>2
  <2> QED BY <1>3, <2>2, <2>3
<1> QED BY <1>4, <1>5 DEF Aborted

(* A run.                                                                  *)
LEMMA RunAtWork ==
  ASSUME SessionInv, NEW r \in Runs, RunStep(r)
  PROVE  /\ Busy(r) /\ r \in Actors /\ r[2] # 0 /\ IsActor(actor[r]) /\ r[1] \in Incs
         /\ promise = [q \in Runs |-> promise[q]]
         /\ actor[r].pc \notin {"deleting", "releasing"} => ~Cleaning(r)
  BY Names DEF RunStep, RunPrepared, RunFinishes, RunNoticesAbort, RunAsks, RunAsked, RunWakes, RunRejected,
               RunEscalates, RunEscalated, CleanDelete, CleanRelease, Busy, Cleaning, Ended, SessionInv,
               SessionShapes

LEMMA RunSteps ==
  ASSUME SessionInv, NEW r \in Runs, RunStep(r)
  PROVE  Keeps
<1>1. /\ Busy(r) /\ r \in Actors /\ r[2] # 0 /\ IsActor(actor[r]) /\ r[1] \in Incs
      /\ promise = [q \in Runs |-> promise[q]]
      /\ actor[r].pc \notin {"deleting", "releasing"} => ~Cleaning(r)
  BY RunAtWork
<1>2. CASE RunPrepared(r)
  <2> PICK x : x = [actor[r] EXCEPT !.pc = "work", !.own = stored]
    OBVIOUS
  <2>1. /\ actor' = [actor EXCEPT ![r] = x] /\ IsActor(x) /\ x.pc = "work" /\ actor[r].pc = "prepare"
        /\ UNCHANGED <<active, stored, entry, start, stopped, promise, cancelled, silent, aborted, ttl, watched, faults>>
    BY <1>1, <1>2 DEF RunPrepared, IsActor, runs
  <2> QED BY <1>1, <2>1, GoesOn DEF Ended
<1>3. CASE RunFinishes(r)
  BY <1>1, <1>3, CleansUp DEF RunFinishes, RunEnds
<1>4. CASE RunNoticesAbort(r)
  <2>1. aborted # {}
    BY <1>4 DEF RunNoticesAbort, SessionInv, ToldInv, Untold
  <2> QED BY <1>1, <1>4, <2>1, CleansUp DEF RunNoticesAbort, RunEnds
<1>5. CASE RunRejected(r)
  <2>1. silent' = silent \/ aborted # {}
    BY <1>5 DEF RunRejected, RunEnds, SessionInv, ToldInv, Untold
  <2> QED BY <1>1, <1>5, <2>1, CleansUp DEF RunRejected, RunEnds
<1>6. CASE RunAsks(r)
  <2>1. /\ promise' = [q \in Runs |-> promise'[q]]
        /\ \A q \in Runs : promise'[q] = "aborted" => promise[q] = "aborted"
    BY <1>1, <1>6 DEF RunAsks
  <2> QED BY <1>1, <1>6, <2>1, MovesOn DEF RunAsks, Ended
<1>7. CASE RunAsked(r)
  <2>1. /\ UNCHANGED <<active, stored, entry, start, stopped, runs, aborted, ttl, watched>>
        /\ faults' \in {faults, faults + 1} /\ \E pc \in {"waiting", "work"} : At(r, pc)
    BY <1>7 DEF RunAsked, Commit, Lost, Fault
  <2> QED BY <1>1, <1>7, <2>1, MovesOn DEF RunAsked, runs, Ended
<1>8. CASE RunWakes(r)
  BY <1>1, <1>8, MovesOn DEF RunWakes, runs, Ended
<1>9. CASE RunEscalates(r)
  <2>1. PICK x : x = [actor[r] EXCEPT !.pc = "aborting", !.to = entry.waiter, !.acks = r[2] = 0]
    OBVIOUS
  <2>2. /\ actor[r].pc = "work" /\ aborted' = aborted \cup {r[1]}
        /\ actor' = [actor EXCEPT ![r].pc = "aborting", ![r].to = entry.waiter, ![r].acks = r[2] = 0]
        /\ UNCHANGED <<active, stored, start, stopped, promise, silent, ttl, watched, faults>>
    BY <1>9 DEF RunEscalates, AbortEntry
  <2>3. actor' = [actor EXCEPT ![r] = x]
    BY <1>1, <2>1, <2>2
  <2>4. IsActor(x) /\ x.pc \notin {"none", "done", "deleting", "releasing"}
    BY <1>1, <2>1 DEF IsActor
  <2>5. aborted \subseteq aborted' /\ aborted' # {} /\ faults' \in {faults, faults + 1}
    BY <2>2
  <2>6. UNCHANGED <<active, stored, start, stopped, ttl, watched, silent>> /\ promise' = [q \in Runs |-> promise'[q]]
    BY <1>1, <2>2
  <2>7. r \in Actors /\ Busy(r) /\ ~Cleaning(r) /\ r[2] # 0
    BY <1>1, <2>2
  <2> QED BY <2>3, <2>4, <2>5, <2>6, <2>7, GoesOnAborted
<1>10. CASE RunEscalated(r)
  <2>1. /\ actor[r].pc = "aborting" /\ UNCHANGED <<active, stored, start, stopped, cancelled, silent, aborted, ttl, watched>>
        /\ faults' \in {faults, faults + 1}
        /\ \E pc \in {"failing", "work"} : actor' = [actor EXCEPT ![r].pc = pc, ![r].to = Nobody]
        /\ promise' \in {promise, [promise EXCEPT ![actor[r].to] = "aborted"]}
    BY <1>10 DEF RunEscalated, Commit, Lost, Fault
  <2>2. PICK pc \in {"failing", "work"} : actor' = [actor EXCEPT ![r].pc = pc, ![r].to = Nobody]
    BY <2>1
  <2>3. PICK x : x = [actor[r] EXCEPT !.pc = pc, !.to = Nobody]
    OBVIOUS
  <2>4. actor' = [actor EXCEPT ![r] = x]
    BY <1>1, <2>2, <2>3
  <2>5. IsActor(x) /\ x.pc \notin {"none", "done", "deleting", "releasing"}
    BY <1>1, <2>2, <2>3 DEF IsActor
  <2>6. aborted \subseteq aborted' /\ aborted' # {}
    BY <1>1, <2>1 DEF SessionInv, ToldInv, Untold
  <2>7. promise' = [q \in Runs |-> promise'[q]]
    BY <1>1, <2>1
  <2>8. UNCHANGED <<active, stored, start, stopped, ttl, watched, silent>> /\ faults' \in {faults, faults + 1}
    BY <2>1
  <2>9. r \in Actors /\ Busy(r) /\ ~Cleaning(r) /\ r[2] # 0
    BY <1>1, <2>1
  <2> QED BY <2>4, <2>5, <2>6, <2>7, <2>8, <2>9, GoesOnAborted
<1>11. CASE CleanDelete(r) \/ CleanRelease(r)
  BY <1>1, <1>11, CleanUpEnds
<1> QED BY <1>2, <1>3, <1>4, <1>5, <1>6, <1>7, <1>8, <1>9, <1>10, <1>11 DEF RunStep

(* The session is started, whatever an earlier incarnation still does.      *)
LEMMA StartSteps ==
  ASSUME SessionInv, NEW k \in Incs, StartStep(k)
  PROVE  Keeps
<1>1. /\ start = [j \in Incs |-> start[j]] /\ k # None
      /\ \A j \in Incs : j # k => start'[j] = start[j]
      /\ start' = [j \in Incs |-> start'[j]]
      /\ start[k] \in {"none", "append"} /\ start'[k] # start[k] /\ start'[k] # "none"
      /\ UNCHANGED <<stopped, runs, aborted>>
  <2>1. start = [j \in Incs |-> start[j]] /\ k # None
    BY Names DEF SessionInv, SessionShapes
  <2>2. /\ UNCHANGED <<stopped, runs, aborted>>
        /\ \E s \in {"append", "open", "failed"} : start[k] \in {"none", "append"} \ {s} /\ start' = [start EXCEPT ![k] = s]
    BY DEF StartStep, StartBegin, StartRefused, StartRegister, StartFails, Startable
  <2> QED BY <2>1, <2>2
<1>2. k \notin stopped
  BY <1>1 DEF SessionInv, Registry
<1>3. \A a \in Actors : Busy(a) => a[1] # k
  BY <1>1 DEF SessionInv, Registry
<1>4. CASE ~StartRegister(k)
  <2>1. /\ UNCHANGED <<active, actor, ttl, watched>> /\ faults' \in {faults, faults + 1}
        /\ start'[k] \in {"append", "failed"}
    BY <1>1, <1>4 DEF StartStep, StartBegin, StartRefused, StartFails, Lost, Fault
  <2>2. \A a \in Actors : (Busy(a)' <=> Busy(a)) /\ (Cleaning(a)' <=> Cleaning(a))
    BY <2>1 DEF Busy, Cleaning
  <2>3. SessionShapes'
    <3>1. Used' = Used
      BY <2>1 DEF Used
    <3>2. (\A r \in Used : r[2] <= Cardinality(Used))'
      BY <3>1 DEF SessionInv, SessionShapes
    <3>3. faults' \in Nat
      BY <2>1 DEF SessionInv, SessionShapes
    <3> QED BY <1>1, <2>1, <3>2, <3>3 DEF SessionInv, SessionShapes, runs
  <2>4. Registry'
    <3>1. \A a \in Actors : Busy(a)' => start'[a[1]] = "open"
      BY <1>1, <1>3, <2>2, Names DEF SessionInv, Registry
    <3>2. \A a \in Actors : Cleaning(a)' => a[1] \in stopped'
      BY <1>1, <2>2 DEF SessionInv, Registry
    <3>3. \A j \in stopped' : start'[j] \notin {"none", "append"}
      BY <1>1, <1>2 DEF SessionInv, SessionShapes, Registry
    <3>4. ASSUME NEW j \in Incs, start'[j] = "open", j \notin stopped' PROVE Busy(Loop(j))'
      BY <1>1, <2>1, <2>2, <3>4, Names DEF SessionInv, Registry
    <3>5. active' # None => start'[active'] = "open" /\ active' \notin stopped'
      BY <1>1, <2>1 DEF SessionInv, SessionShapes, Registry
    <3> QED BY <2>1, <3>1, <3>2, <3>3, <3>4, <3>5 DEF SessionInv, Registry
  <2>5. \A j \in Incs : start'[j] = "open" <=> start[j] = "open"
    BY <1>1, <2>1
  <2>6. CleanInv'
    <3>1. Going' <=> Going
      BY <1>1, <2>5 DEF Going
    <3>2. (faults' = 0 /\ stored' # None) => (start'[k] = "append" \/ (faults = 0 /\ stored' = stored /\ StartRefused(k)))
      BY <1>1, <1>4 DEF StartStep, StartBegin, StartRefused, StartFails
    <3>3. StartRefused(k) => \A j \in Incs : start[j] = "append" => start'[j] = "append"
      BY <1>1 DEF StartRefused, Startable
    <3> QED BY <2>1, <2>2, <2>5, <3>1, <3>2, <3>3 DEF SessionInv, CleanInv
  <2>7. ToldInv'
    BY <1>1, <2>1 DEF SessionInv, ToldInv, Untold, runs
  <2>8. StaysWhole
    <3> SUFFICES ASSUME NEW j \in Incs, Open(j)', Open(j) => Whole(j), ~\E i \in Incs \ {j} : Interferes(i)
                 PROVE  Whole(j)'
      BY DEF StaysWhole
    <3>1. Alive(j)' <=> Alive(j)
      BY <1>1, <2>1 DEF Alive
    <3>2. CASE j = k
      <4>1. start'[k] = "append"
        <5>1. ~Alive(k)
          BY <1>3, Names DEF Alive, Busy
        <5> QED BY <3>1, <3>2, <5>1 DEF Open
      <4>2. StartBegin(k)
        BY <1>1, <1>4, <4>1 DEF StartStep, StartRefused, StartFails
      <4> QED BY <3>2, <4>1, <4>2 DEF StartBegin, Whole
    <3>3. CASE j # k
      <4>1. Whole(j) /\ start'[j] = start[j]
        BY <1>1, <3>1, <3>3 DEF Open
      <4>2. CASE StartRefused(k)
        BY <2>1, <4>1, <4>2 DEF StartRefused, Whole
      <4>3. CASE StartBegin(k)
        BY Names, <4>1, <4>3 DEF StartBegin, Startable, Whole
      <4>4. CASE StartFails(k)
        <5>1. start[k] = "append" /\ start'[k] # "append"
          BY <1>1, <4>4 DEF StartFails
        <5>2. stored = k
          BY <3>3, <5>1 DEF Interferes
        <5> QED BY <3>3, <4>1, <5>2 DEF Whole
      <4> QED BY <1>4, <4>2, <4>3, <4>4 DEF StartStep
    <3> QED BY <3>2, <3>3
  <2> QED BY <2>3, <2>4, <2>6, <2>7, <2>8 DEF Keeps, SessionInv
<1>5. CASE StartRegister(k)
  <2> PICK a, x : a = Loop(k) /\ x = [actor[a] EXCEPT !.pc = "ready"]
    OBVIOUS
  <2>1. /\ start[k] = "append" /\ start'[k] = "open" /\ ttl' = FALSE /\ active' = k /\ watched' = TRUE
        /\ actor' = [actor EXCEPT ![a].pc = "ready"]
        /\ UNCHANGED <<stored, faults>>
    BY <1>1, <1>5 DEF StartRegister, Persist, At, Commit
  <2>2. a \in Actors /\ a[1] = k /\ a[2] = 0 /\ a \notin Runs /\ IsActor(actor[a]) /\ actor = [b \in Actors |-> actor[b]]
    BY Names DEF SessionInv, SessionShapes
  <2>3. actor' = [actor EXCEPT ![a] = x] /\ IsActor(x) /\ x.pc = "ready"
    BY <2>1, <2>2 DEF IsActor
  <2>4. \A b \in Actors : actor'[b] = IF b = a THEN x ELSE actor[b]
    BY <2>2, <2>3
  <2>5. Busy(a)' /\ ~Busy(a) /\ \A b \in Actors : b # a => (Busy(b)' <=> Busy(b)) /\ (Cleaning(b)' <=> Cleaning(b))
    BY <1>3, <2>2, <2>3, <2>4 DEF Busy, Cleaning, Ended
  <2>6. ~Cleaning(a)' /\ ~Cleaning(a)
    BY <2>2, <2>3, <2>4, <2>5 DEF Busy, Cleaning, Ended
  <2>7. SessionShapes'
    <3>1. \A r \in Runs : actor'[r] = actor[r]
      BY <2>2, <2>4, Names
    <3>2. Used' = Used
      BY <3>1 DEF Used
    <3>3. (\A r \in Used : r[2] <= Cardinality(Used))'
      BY <3>2 DEF SessionInv, SessionShapes
    <3> QED BY <1>1, <2>1, <2>3, <2>4, <3>3 DEF SessionInv, SessionShapes, runs
  <2>8. Registry'
    <3>1. \A b \in Actors : Busy(b)' => start'[b[1]] = "open"
      BY <1>1, <2>1, <2>2, <2>5, Names DEF SessionInv, Registry
    <3>2. \A b \in Actors : Cleaning(b)' => b[1] \in stopped'
      BY <1>1, <2>5, <2>6 DEF SessionInv, Registry
    <3>3. \A j \in stopped' : start'[j] \notin {"none", "append"}
      BY <1>1, <1>2 DEF SessionInv, SessionShapes, Registry
    <3>4. ASSUME NEW j \in Incs, start'[j] = "open", j \notin stopped' PROVE Busy(Loop(j))'
      BY <1>1, <2>5, <3>4, Names DEF SessionInv, Registry
    <3> QED BY <1>1, <1>2, <2>1, <3>1, <3>2, <3>3, <3>4 DEF Registry
  <2>9. CleanInv'
    <3>1. Going'
      BY <1>1, <1>2, <2>1 DEF Going
    <3> QED BY <3>1 DEF CleanInv
  <2>10. ToldInv'
    BY <1>1, <2>3, <2>4 DEF SessionInv, ToldInv, Untold, runs
  <2>11. StaysWhole
    <3> SUFFICES ASSUME NEW j \in Incs, Open(j)', Open(j) => Whole(j), ~\E i \in Incs \ {j} : Interferes(i)
                 PROVE  Whole(j)'
      BY DEF StaysWhole
    <3>1. CASE j = k
      BY <2>1, <3>1 DEF Open, Whole
    <3>2. CASE j # k
      <4>1. Loop(j) # a
        BY <3>2, Names
      <4>2. Whole(j)
        BY <1>1, <2>4, <3>2, <4>1, Names DEF Open, Alive
      <4>3. stored = k
        BY <2>1, <3>2 DEF Interferes
      <4> QED BY <3>2, <4>2, <4>3 DEF Whole
    <3> QED BY <3>1, <3>2
  <2> QED BY <2>7, <2>8, <2>9, <2>10, <2>11 DEF Keeps, SessionInv
<1> QED BY <1>4, <1>5

(* The process is started again: the store knows the session, or not.      *)
LEMMA RestartStep ==
  ASSUME SessionInv, Restart
  PROVE  Keeps
<1>1. /\ active' = None /\ watched' = FALSE /\ faults' = faults + 1
      /\ start' = [k \in Incs |-> IF start[k] = "none" THEN "none" ELSE "failed"]
      /\ actor' = [a \in Actors |-> IF actor[a].pc = "none" THEN Absent ELSE [Absent EXCEPT !.pc = "done"]]
      /\ promise' = [r \in Runs |-> "none"] /\ cancelled' = {}
      /\ UNCHANGED <<stopped, silent, aborted>>
  BY DEF Restart, Fault
<1>2. \A a \in Actors : /\ IsActor(actor'[a]) /\ actor'[a].pc \in Ended
                        /\ actor'[a].pc = "none" <=> actor[a].pc = "none"
  BY <1>1 DEF IsActor, Absent, Ended
<1>3. \A a \in Actors : ~Busy(a)' /\ ~Cleaning(a)'
  BY <1>2 DEF Busy, Cleaning, Ended
<1>4. \A k \in Incs : start'[k] \notin {"append", "open"}
  BY <1>1
<1>5. SessionShapes'
  <2>1. Used' = Used
    BY <1>2, Names DEF Used
  <2>2. (\A r \in Used : r[2] <= Cardinality(Used))'
    BY <2>1 DEF SessionInv, SessionShapes
  <2> QED BY <1>1, <1>2, <2>2 DEF SessionInv, SessionShapes
<1>6. Registry'
  <2>1. stopped \subseteq Incs /\ \A k \in stopped : start[k] \notin {"none", "append"}
    BY DEF SessionInv, SessionShapes, Registry
  <2> QED BY <1>1, <1>3, <1>4, <2>1, Names DEF Registry
<1>7. CleanInv'
  <2>1. faults' # 0
    BY <1>1 DEF SessionInv, SessionShapes
  <2> QED BY <1>4, <2>1 DEF CleanInv
<1>8. ToldInv'
  <2>1. \A r \in Runs : promise'[r] = "none"
    BY <1>1
  <2>2. \A a \in Actors : actor'[a].pc # "aborting"
    BY <1>2 DEF Ended
  <2> QED BY <1>1, <2>1, <2>2 DEF SessionInv, ToldInv, Untold
<1>9. StaysWhole
  <2>1. \A k \in Incs : ~Open(k)'
    BY <1>2, <1>4, Names DEF Open, Alive
  <2> QED BY <2>1 DEF StaysWhole
<1> QED BY <1>5, <1>6, <1>7, <1>8, <1>9 DEF Keeps, SessionInv

LEMMA SessionSteps ==
  ASSUME SessionInv, [Next]_vars
  PROVE  Keeps
<1>1. CASE UNCHANGED vars
  <2>1. UNCHANGED <<active, stored, start, stopped, actor, promise, cancelled, silent, aborted, ttl, watched, faults>>
    BY <1>1 DEF vars, runs
  <2>2. SessionShapes' /\ Registry'
    BY <2>1 DEF SessionInv, SessionShapes, Used, Registry, Busy, Cleaning
  <2>3. CleanInv' /\ ToldInv'
    BY <2>1 DEF SessionInv, CleanInv, Going, Cleaning, ToldInv, Untold
  <2>4. StaysWhole
    BY <2>1 DEF StaysWhole, Open, Alive, Whole
  <2> QED BY <2>2, <2>3, <2>4 DEF Keeps, SessionInv
<1>2. ASSUME NEW k \in Incs, StartStep(k) \/ Receive(k) \/ LoopStep(k) \/ LoopCrash(k) PROVE Keeps
  BY <1>2, StartSteps, LoopSteps, LoopStops, RequestStep, AbortRecorded, CleanUpEnds, Names DEF Receive, LoopStep
<1> QED BY <1>1, <1>2, RunSteps, RestartStep DEF Next

\* However incarnations overlap: what is registered runs, whoever was stopped has
\* a clean-up on its way, and the entry of a session nobody opens or aborts is
\* gone; until a person ends the session no run is cancelled, and none is silent.
THEOREM SessionInvariant == Spec => []SessionInv
<1>1. Init => SessionInv
  <2> SUFFICES ASSUME Init PROVE SessionInv
    OBVIOUS
  <2>1. \A a \in Actors : actor[a] = Absent /\ actor[a].pc = "none" /\ ~Busy(a) /\ ~Cleaning(a)
    BY DEF Init, Absent, Busy, Cleaning, Ended
  <2>2. SessionShapes
    BY <2>1, Names DEF Init, SessionShapes, IsActor, Absent, Used
  <2>3. Registry
    BY <2>1, Names DEF Init, Registry
  <2>4. CleanInv
    BY DEF Init, CleanInv
  <2>5. ToldInv
    BY <2>1 DEF Init, ToldInv, Untold
  <2> QED BY <2>2, <2>3, <2>4, <2>5 DEF SessionInv
<1>2. SessionInv /\ [Next]_vars => SessionInv'
  BY SessionSteps DEF Keeps
<1> QED BY <1>1, <1>2, PTL DEF Spec

\* From its start on an open incarnation is registered, with its entry in the
\* store and streams that do not expire, and no step but one of another
\* incarnation's clean-up, or of its start after its entry was dropped, takes that
\* away (sessions.route.ts, session-keys.ts).
THEOREM RegisteredIsWhole == Spec => OpenIsWhole
<1>1. SessionInv /\ [Next]_vars =>
        [\A k \in Incs :
           /\ active' = k => Alive(k)'
           /\ Open(k)' => Whole(k)' \/ (Open(k) /\ ~Whole(k)) \/ \E j \in Incs \ {k} : Interferes(j)]_vars
  <2> SUFFICES ASSUME SessionInv, [Next]_vars, NEW k \in Incs
               PROVE  /\ active' = k => Alive(k)'
                      /\ Open(k)' => Whole(k)' \/ (Open(k) /\ ~Whole(k)) \/ \E j \in Incs \ {k} : Interferes(j)
    OBVIOUS
  <2>1. Registry' /\ StaysWhole
    BY SessionSteps DEF Keeps, SessionInv
  <2>2. active' = k => Alive(k)'
    <3>1. active' = k => start'[k] = "open" /\ k \notin stopped'
      BY <2>1, Names DEF Registry
    <3>2. start'[k] = "open" /\ k \notin stopped' => Busy(Loop(k))'
      BY <2>1 DEF Registry
    <3> QED BY <3>1, <3>2 DEF Alive, Busy
  <2> QED BY <2>1, <2>2 DEF StaysWhole
<1> QED BY <1>1, SessionInvariant, PTL DEF Spec, OpenIsWhole

\* When nobody works for it any more, nothing of the session is left, in whatever
\* order its incarnations and their clean-ups overlapped; and unless a person
\* ended it no run ended without a word.
THEOREM EndLeavesNothing == Spec => []EndedIsClean
<1>1. SessionInv => EndedIsClean
  <2> SUFFICES ASSUME SessionInv PROVE EndedIsClean
    OBVIOUS
  <2>1. silent # {} => aborted # {}
    BY DEF SessionInv, ToldInv, Untold
  <2>2. ASSUME Settled, \E k \in Incs : start[k] = "open"
        PROVE  active = None /\ ~watched /\ ttl /\ (faults = 0 => stored = None)
    <3>1. /\ \A a \in Actors : ~Busy(a) /\ ~Cleaning(a)
          /\ \A k \in Incs : start[k] # "append" /\ actor[Loop(k)].pc # "aborting"
      BY <2>2, Names DEF Settled, Busy, Cleaning, Ended
    <3>2. ~Going
      BY <3>1, Names DEF SessionInv, Registry, Going
    <3>3. active = None
      <4>1. active # None => active \in Incs /\ start[active] = "open" /\ active \notin stopped
        BY DEF SessionInv, SessionShapes, Registry
      <4> QED BY <3>2, <4>1 DEF Going
    <3> QED BY <2>2, <3>1, <3>2, <3>3 DEF SessionInv, Registry, CleanInv
  <2> QED BY <2>1, <2>2 DEF EndedIsClean
<1> QED BY <1>1, SessionInvariant, PTL

-----------------------------------------------------------------------------
(* ManagerWiring, for every environment, where TLC tries a selection of    *)
(* them.  What a flag's warning asks for is there if it is not warned      *)
(* about, and so on along what that asks for; the parts and the events are *)
(* then found one after the other.                                         *)

WiringInv ==
  /\ env \in Environments
  /\ stage # "loading" => on \subseteq Features \cup Settings
  /\ stage = "serving" => parts = Wired /\ warned = StartupWarnings(Wired)

\* What is wired and warned about depends on the configuration alone.
LEMMA ConfigurationStays ==
  ASSUME UNCHANGED <<on, env>>
  PROVE  Wired' = Wired /\ StartupWarnings(Wired)' = StartupWarnings(Wired)
<1>1. Pool' = Pool /\ (\A flags : AnyOf(flags)' = AnyOf(flags)) /\ Supervised' = Supervised /\ Works' = Works
  BY DEF Pool, AnyOf, Supervised, Works
<1>2. Stores' = Stores
  BY DEF Stores, Pool, AnyOf
<1>3. Guards' = Guards
  BY DEF Guards, AnyOf
<1>4. SupervisorParts(Stores)' = SupervisorParts(Stores)
  BY <1>1, <1>2 DEF SupervisorParts, AnyOf
<1>5. WorkerParts(Stores)' = WorkerParts(Stores)
  BY <1>1, <1>2 DEF WorkerParts
<1>6. Producers(Stores)' = Producers(Stores)
  BY <1>2 DEF Producers
<1>7. Routes' = Routes
  BY DEF Routes, Pool
<1>8. Wired' = Wired
  BY <1>2, <1>3, <1>4, <1>5, <1>6, <1>7 DEF Wired, Made
<1>9. Needs' = Needs
  BY <1>1 DEF Needs
<1> QED BY <1>8, <1>9 DEF StartupWarnings

THEOREM WiringInvariant == WiringSpec => []WiringInv
<1>1. WiringInit => WiringInv
  BY DEF WiringInit, WiringInv
<1>2. WiringInv /\ [WiringNext]_wiringVars => WiringInv'
  <2> SUFFICES ASSUME WiringInv, [WiringNext]_wiringVars PROVE WiringInv'
    OBVIOUS
  <2>1. CASE LoadConfig
    <3>1. env.on \subseteq Features \cup Settings
      BY WiringAssumption DEF WiringInv
    <3>2. ProfiledFlags \subseteq Features \cup Settings
      BY <3>1 DEF ProfiledFlags, Profile, Features, Settings
    <3>3. on' = ProfiledFlags /\ UNCHANGED env /\ stage' \in {"refused", "building"}
      BY <2>1 DEF LoadConfig
    <3> QED BY <3>2, <3>3 DEF WiringInv
  <2>2. CASE BuildServer
    <3>1. UNCHANGED <<on, env>> /\ stage = "building" /\ parts' = Wired /\ warned' = StartupWarnings(Wired)
      BY <2>2 DEF BuildServer
    <3>2. Wired' = Wired /\ StartupWarnings(Wired)' = StartupWarnings(Wired)
      BY <3>1, ConfigurationStays
    <3> QED BY <3>1, <3>2 DEF WiringInv
  <2>3. CASE Serve \/ UNCHANGED wiringVars
    <3>1. UNCHANGED <<on, env, stage, parts, warned>>
      BY <2>3 DEF Serve, wiringVars
    <3>2. Wired' = Wired /\ StartupWarnings(Wired)' = StartupWarnings(Wired)
      BY <3>1, ConfigurationStays
    <3> QED BY <3>1, <3>2 DEF WiringInv
  <2> QED BY <2>1, <2>2, <2>3 DEF WiringNext
<1> QED BY <1>1, <1>2, PTL DEF WiringSpec

-----------------------------------------------------------------------------
(* Parts that are made, and events that follow.                            *)

RunOut == parts = Wired /\ Possible \subseteq seen

LEMMA PartsMade ==
  ASSUME RunOut
  PROVE  /\ \A p \in DOMAIN Stores : Stores[p] => Has(p)
         /\ \A p \in DOMAIN Guards : Guards[p] => Has(p)
         /\ \A p \in DOMAIN SupervisorParts(Stores) : SupervisorParts(Stores)[p] => Has(p)
         /\ \A p \in DOMAIN WorkerParts(Stores) : WorkerParts(Stores)[p] => Has(p)
         /\ \A p \in DOMAIN Producers(Stores) : Producers(Stores)[p] => Has(p)
         /\ \A p \in DOMAIN Routes : Routes[p] => Has(p)
  BY DEF RunOut, Wired, Made, Has

LEMMA EventsHappen ==
  ASSUME RunOut
  PROVE  /\ \A e \in DOMAIN Decomposing : Decomposing[e] => Did(e)
         /\ \A e \in DOMAIN Approving : Approving[e] => Did(e)
         /\ \A e \in DOMAIN Executing : Executing[e] => Did(e)
         /\ \A e \in DOMAIN Deciding : Deciding[e] => Did(e)
  BY DEF RunOut, Possible, Made, Did

LEMMA StoresThere ==
  ASSUME RunOut, Pool
  PROVE  /\ AnyOf(Writers) => Has("relay")
         /\ AnyOf({"ORACLE_DOR", "ORACLE_DRAFT", "WP_CONFORMANCE", "WP_IMPACT", "WP_PROPERTY", "GOLDEN_SIGNOFF"})
              => Stores.oracleStore
         /\ AnyOf({"DECISION_BRIEF", "DECISION_ROUTING", "DECISION_EXPIRY", "RISK_DECISION",
                   "DEGRADED_SIGNOFF", "ORACLE_DECISION", "GOLDEN_SIGNOFF"})
              => Stores.decisionStore /\ Has("decisionStore")
         /\ Stores.oracleStore => Has("oracleStore")
         /\ "WP_ADVISORY" \in on => Stores.advisoryStore
         /\ "RELEASE_GATE" \in on => Stores.releaseStore /\ Has("releaseStore")
         /\ AnyOf(RiskFeatures) => Stores.riskStore
         /\ {"DEPLOY_GATE", "RELEASE_GATE"} \subseteq on => Has("deployGate")
         /\ "EVENT_SOURCED" \in on => Has("restore")
         /\ {"DECISION_ROUTING", "SECRET"} \subseteq on => Has("decisionRoute")
  BY PartsMade DEF Stores, Routes

LEMMA GuardsThere ==
  ASSUME RunOut
  PROVE  /\ "PROVIDER_CIRCUIT" \in on => Has("providerCircuit")
         /\ "DEGRADED_MODE" \in on => Has("modeController")
         /\ "DECOMPOSE" \in on => Has("decompose")
         /\ Stores.riskStore => Has("riskClassify")
         /\ Stores.riskStore /\ Stores.decisionStore /\ "RISK_DECISION" \in on => Has("riskBrief")
  BY PartsMade DEF Guards, Producers

LEMMA SupervisorThere ==
  ASSUME RunOut, Supervised
  PROVE  /\ Has("supervisor")
         /\ Stores.oracleStore /\ "ORACLE_DOR" \in on => Has("dor")
         /\ Stores.oracleStore /\ Stores.decisionStore /\ "ORACLE_DECISION" \in on => Has("oracleBrief")
         /\ Works /\ Stores.oracleStore /\ Stores.decisionStore /\ "GOLDEN_SIGNOFF" \in on => Has("goldenBrief")
         /\ Stores.decisionStore /\ "DECISION_BRIEF" \in on => Has("defectBrief")
         /\ Stores.decisionStore /\ "DECISION_ROUTING" \in on => Has("failureBrief") /\ Has("decisionConsumer")
         /\ Stores.decisionStore /\ "DECISION_ROUTING" \in on /\ Stores.riskStore /\ "RISK_DECISION" \in on
              => Has("riskApprover")
         /\ Stores.decisionStore /\ "DECISION_ROUTING" \in on /\ Stores.releaseStore /\ "RELEASE_SIGNOFF" \in on
              => Has("signoffConsumer")
         /\ Stores.decisionStore /\ "DECISION_EXPIRY" \in on => Has("expiry")
         /\ "RISK_ROUTING" \in on => Has("riskConsumer")
         /\ {"DEGRADED_ENFORCE", "DEGRADED_MODE"} \subseteq on => Has("enforcement")
         /\ Stores.decisionStore /\ "DEGRADED_SIGNOFF" \in on => Has("degradedBrief")
  BY PartsMade DEF SupervisorParts, AnyOf

LEMMA WorkerThere ==
  ASSUME RunOut, Works
  PROVE  /\ Has("worker")
         /\ "WP_VERIFY" \in on => Has("verify")
         /\ "WP_CONFORMANCE" \in on /\ Stores.oracleStore => Has("conformance")
         /\ "WP_IMPACT" \in on /\ Stores.oracleStore => Has("impact")
         /\ "WP_PROPERTY" \in on /\ Stores.oracleStore => Has("property")
         /\ "WP_MUTATION" \in on => Has("mutation")
         /\ "WP_SECURITY" \in on => Has("security")
         /\ "WP_ADVISORY" \in on /\ Stores.advisoryStore => Has("advisory")
         /\ Stores.releaseStore => Has("evidence")
         /\ "MODEL_ROUTING" \in on /\ Stores.riskStore => Has("modelRouting")
  BY PartsMade DEF WorkerParts

\* What a person's answer and the loop of dispatch, execution and approval need.
LEMMA LoopRuns ==
  ASSUME RunOut
  PROVE  /\ Supervised => Did("graph") /\ Did("dispatched") /\ Did("escalated")
         /\ Works => Did("executed")
         /\ Works /\ "WP_VERIFY" \in on => Did("verified")
         /\ Has("oracleStore") => Did("oracleApproved")
         /\ "DECOMPOSE" \in on => Did("decomposed")
         /\ "DECOMPOSE" \in on /\ Stores.riskStore => Did("classified") /\ Did("riskApproved")
         /\ "DECOMPOSE" \in on /\ Supervised /\ "ORACLE_DRAFT" \in on => Did("drafted")
         /\ "DECOMPOSE" \in on /\ Supervised /\ "RISK_ROUTING" \in on => Did("riskWritten")
         /\ Supervised /\ {"DECISION_ROUTING", "SECRET"} \subseteq on => Answers
<1>1. ASSUME Supervised PROVE Did("graph") /\ Did("dispatched") /\ Did("escalated")
  <2>1. Has("supervisor")
    BY <1>1, SupervisorThere
  <2>2. Did("graph")
    BY <2>1, EventsHappen DEF Decomposing
  <2>3. Did("dispatched")
    BY <2>2, EventsHappen DEF Executing
  <2>4. Did("escalated")
    BY <2>3, EventsHappen DEF Deciding
  <2> QED BY <2>2, <2>3, <2>4
<1>2. Works => Supervised
  BY DEF Works
<1>3. Supervised => Pool
  BY DEF Supervised
<1>4. ASSUME Works PROVE Did("executed")
  <2>1. Has("worker") /\ Did("dispatched")
    BY <1>1, <1>2, <1>4, WorkerThere
  <2> QED BY <2>1, EventsHappen DEF Executing
<1>5. ASSUME Works, "WP_VERIFY" \in on PROVE Did("verified")
  <2>1. Has("verify") /\ Did("executed")
    BY <1>4, <1>5, WorkerThere
  <2> QED BY <2>1, EventsHappen DEF Executing
<1>6. ASSUME Has("oracleStore") PROVE Did("oracleApproved")
  BY <1>6, EventsHappen DEF Approving
<1>7. ASSUME "DECOMPOSE" \in on PROVE Did("decomposed")
  <2>1. Has("decompose")
    BY <1>7, GuardsThere
  <2> QED BY <2>1, EventsHappen DEF Decomposing
<1>8. ASSUME "DECOMPOSE" \in on, Stores.riskStore PROVE Did("classified") /\ Did("riskApproved")
  <2>1. Has("riskClassify") /\ Did("decomposed")
    BY <1>7, <1>8, GuardsThere
  <2>2. Did("classified")
    BY <2>1, EventsHappen DEF Decomposing
  <2>3. Did("riskApproved")
    BY <2>2, EventsHappen DEF Approving
  <2> QED BY <2>2, <2>3
<1>9. ASSUME "DECOMPOSE" \in on, Supervised, "ORACLE_DRAFT" \in on PROVE Did("drafted")
  <2>1. Did("decomposed") /\ Did("graph") /\ Pool
    BY <1>1, <1>3, <1>7, <1>9
  <2>2. Has("oracleStore")
    BY <1>9, <2>1, StoresThere DEF AnyOf
  <2> QED BY <1>9, <2>1, <2>2, EventsHappen DEF Decomposing
<1>10. ASSUME "DECOMPOSE" \in on, Supervised, "RISK_ROUTING" \in on PROVE Did("riskWritten")
  <2>1. Stores.riskStore /\ Has("relay")
    BY <1>3, <1>10, StoresThere DEF AnyOf, RiskFeatures, Writers
  <2>2. Did("riskApproved") /\ Did("graph") /\ Has("riskConsumer")
    BY <1>1, <1>8, <1>10, <2>1, SupervisorThere
  <2> QED BY <2>1, <2>2, EventsHappen DEF Approving
<1>11. ASSUME Supervised, {"DECISION_ROUTING", "SECRET"} \subseteq on PROVE Answers
  <2>1. Stores.decisionStore /\ Has("relay") /\ Has("decisionRoute")
    BY <1>3, <1>11, StoresThere DEF AnyOf, Writers
  <2>2. Has("decisionConsumer")
    BY <1>11, <2>1, SupervisorThere
  <2> QED BY <2>1, <2>2 DEF Answers
<1> QED BY <1>1, <1>4, <1>5, <1>6, <1>7, <1>8, <1>9, <1>10, <1>11

-----------------------------------------------------------------------------
(* What is not warned about.                                               *)

\* A flag that is on and has what its warning asks for; the same one and two
\* steps further.
Met(f) ==
  /\ f \in on
  /\ Needs[f] \cap (Features \cup Settings) \subseteq on
  /\ "oracleStore" \in Needs[f] => Stores.oracleStore
MetTwice(f) == Met(f) /\ \A g \in Needs[f] \cap Features : Met(g)
MetThrice(f) == Met(f) /\ \A g \in Needs[f] \cap Features : MetTwice(g)

LEMMA PartsAreNoFlags ==
  /\ Wired \cap (Features \cup Settings) = {} /\ "signal" \notin Features \cup Settings
  /\ "oracleStore" \in Wired => Stores.oracleStore
  /\ "oracleStore" \notin Features \cup Settings
<1>1. /\ DOMAIN Stores = {"relay", "oracleStore", "decisionStore", "advisoryStore", "releaseStore",
                          "riskStore", "deployGate"}
      /\ DOMAIN Guards = {"budget", "providerCircuit", "modeController"}
      /\ DOMAIN SupervisorParts(Stores) =
           {"supervisor", "dor", "oracleBrief", "goldenBrief", "defectBrief", "failureBrief",
            "decisionConsumer", "riskApprover", "signoffConsumer", "expiry", "riskConsumer",
            "enforcement", "degradedBrief"}
      /\ DOMAIN WorkerParts(Stores) =
           {"worker", "verify", "conformance", "impact", "property", "mutation", "security",
            "advisory", "evidence", "modelRouting"}
      /\ DOMAIN Producers(Stores) = {"decompose", "riskClassify", "riskBrief"}
      /\ DOMAIN Routes = {"decisionRoute", "restore"}
  BY DEF Stores, Guards, SupervisorParts, WorkerParts, Producers, Routes
<1>2. /\ DOMAIN Stores \cap (Features \cup Settings) = {}
      /\ DOMAIN Guards \cap (Features \cup Settings) = {}
      /\ DOMAIN SupervisorParts(Stores) \cap (Features \cup Settings) = {}
      /\ DOMAIN WorkerParts(Stores) \cap (Features \cup Settings) = {}
      /\ DOMAIN Producers(Stores) \cap (Features \cup Settings) = {}
      /\ DOMAIN Routes \cap (Features \cup Settings) = {}
  BY <1>1 DEF Features, Settings
<1>3. Wired \cap (Features \cup Settings) = {}
  BY <1>2 DEF Wired, Made
<1>4. "oracleStore" \in Wired => Stores.oracleStore
  BY <1>1 DEF Wired, Made
<1>5. "oracleStore" \notin Features \cup Settings /\ "signal" \notin Features \cup Settings
  BY DEF Features, Settings
<1> QED BY <1>3, <1>4, <1>5

LEMMA UnwarnedIsMet ==
  ASSUME WiringInv, stage = "serving", NEW f \in on \cap Features, f \notin warned
  PROVE  Met(f)
<1> PICK signal \in SUBSET {"signal"} :
      warned = {g \in Features \cap on : ~(Needs[g] \subseteq on \cup Wired \cup signal)}
  <2>1. warned = StartupWarnings(Wired)
    BY DEF WiringInv
  <2>2. PICK signal : signal = IF Wired \cap {"budget", "providerCircuit"} # {} THEN {"signal"} ELSE {}
    OBVIOUS
  <2>3. warned = {g \in Features \cap on : ~(Needs[g] \subseteq on \cup Wired \cup signal)}
    BY <2>1, <2>2 DEF StartupWarnings
  <2> QED BY <2>2, <2>3
<1>1. Needs[f] \subseteq on \cup Wired \cup signal
  OBVIOUS
<1>2. Needs[f] \cap (Features \cup Settings) \subseteq on
  BY <1>1, PartsAreNoFlags
<1>3. "oracleStore" \in Needs[f] => Stores.oracleStore
  <2>1. on \subseteq Features \cup Settings /\ "oracleStore" # "signal"
    BY DEF WiringInv
  <2> QED BY <1>1, <2>1, PartsAreNoFlags
<1> QED BY <1>2, <1>3 DEF Met

LEMMA NeedsAreMet ==
  ASSUME WiringInv, stage = "serving", NEW f \in on \cap Features, LeadsTo(f) \cap warned = {}
  PROVE  MetThrice(f)
<1>1. DOMAIN Needs = Features
  BY DEF Needs, Features
<1>2. f \in LeadsTo(f) /\ \A g \in Needs[f] : g \in LeadsTo(f)
  BY DEF LeadsTo, With
<1>3. \A g \in Needs[f] \cap Features : \A h \in Needs[g] : h \in LeadsTo(f)
  BY DEF LeadsTo, With
<1>4. Met(f)
  BY <1>2, UnwarnedIsMet
<1>5. \A g \in Needs[f] \cap Features : Met(g)
  BY <1>2, <1>4, UnwarnedIsMet DEF Met
<1>6. \A g \in Needs[f] \cap Features : \A h \in Needs[g] \cap Features : Met(h)
  BY <1>3, <1>5, UnwarnedIsMet DEF Met
<1> QED BY <1>4, <1>5, <1>6 DEF MetThrice, MetTwice

\* What follows for the loop, the decisions of people and the risks.
LEMMA LoopIsMet ==
  /\ Met("TASK_MANAGER") => Supervised /\ Pool
  /\ Met("TASK_WORKER") => Works /\ Supervised /\ Pool
  /\ MetTwice("WP_VERIFY") => Works /\ Supervised /\ Pool /\ "WP_VERIFY" \in on
  /\ Met("DECISION_ROUTING") /\ Pool => {"DECISION_BRIEF", "DECISION_ROUTING", "SECRET"} \subseteq on
<1>1. /\ Needs["TASK_MANAGER"] = {"DATABASE", "TASK_WORKER"}
      /\ Needs["TASK_WORKER"] = {"TASK_MANAGER", "DATABASE"}
      /\ Needs["WP_VERIFY"] = {"TASK_WORKER"}
      /\ Pool => Needs["DECISION_ROUTING"] = {"DECISION_BRIEF", "SECRET"}
  BY DEF Needs
<1>2. {"DATABASE", "TASK_WORKER", "TASK_MANAGER", "DECISION_BRIEF", "SECRET"} \subseteq Features \cup Settings
      /\ "TASK_WORKER" \in Features
  BY DEF Features, Settings
<1>3. Met("TASK_MANAGER") => Supervised /\ Pool
  BY <1>1, <1>2 DEF Met, Supervised, Pool
<1>4. Met("TASK_WORKER") => Works /\ Supervised /\ Pool
  BY <1>1, <1>2 DEF Met, Works, Supervised, Pool
<1>5. MetTwice("WP_VERIFY") => Met("TASK_WORKER") /\ "WP_VERIFY" \in on
  BY <1>1, <1>2 DEF MetTwice, Met
<1>6. Met("DECISION_ROUTING") /\ Pool => {"DECISION_BRIEF", "DECISION_ROUTING", "SECRET"} \subseteq on
  BY <1>1, <1>2 DEF Met
<1> QED BY <1>3, <1>4, <1>5, <1>6

LEMMA MetGoesOn ==
  ASSUME NEW f, NEW g \in Features, g \in Needs[f]
  PROVE  /\ MetTwice(f) => Met(g)
         /\ MetThrice(f) => MetTwice(g) /\ Met(g)
  BY DEF MetTwice, MetThrice

\* A flag whose needs are met shows its effect.
Shows(f) == RunOut /\ f \in on /\ MetThrice(f) /\ ~Unwarned(f) => Mark[f] \in seen

LEMMA LoopShows ==
  /\ Shows("EVENT_SOURCED") /\ Shows("TASK_MANAGER") /\ Shows("TASK_WORKER") /\ Shows("DECOMPOSE")
  /\ Shows("WP_VERIFY") /\ Shows("WP_SECURITY") /\ Shows("WP_ADVISORY")
<1>1. /\ Mark["EVENT_SOURCED"] = "restored" /\ Mark["TASK_MANAGER"] = "dispatched" /\ Mark["TASK_WORKER"] = "executed"
      /\ Mark["DECOMPOSE"] = "decomposed" /\ Mark["WP_VERIFY"] = "verified" /\ Mark["WP_SECURITY"] = "scanned"
      /\ Mark["WP_ADVISORY"] = "advised"
  BY DEF Mark
<1>2. Shows("EVENT_SOURCED")
  <2> SUFFICES ASSUME RunOut, "EVENT_SOURCED" \in on, Met("EVENT_SOURCED") PROVE Did("restored")
    BY <1>1 DEF Shows, Did, MetThrice
  <2>1. Needs["EVENT_SOURCED"] = {"DATABASE"}
    BY DEF Needs
  <2>2. Pool
    BY <2>1 DEF Met, Settings, Pool
  <2>3. Has("restore")
    BY <2>2, StoresThere
  <2> QED BY <2>3, EventsHappen DEF Deciding
<1>3. Shows("TASK_MANAGER")
  BY <1>1, LoopIsMet, LoopRuns DEF Shows, Did, MetThrice
<1>4. Shows("TASK_WORKER")
  BY <1>1, LoopIsMet, LoopRuns DEF Shows, Did, MetThrice
<1>5. Shows("DECOMPOSE")
  BY <1>1, LoopRuns DEF Shows, Did
<1>6. ASSUME RunOut, NEW f \in {"WP_VERIFY", "WP_SECURITY", "WP_ADVISORY"}, MetThrice(f)
      PROVE  Works /\ Pool /\ Did("verified")
  <2>1. f # "WP_VERIFY" => "WP_VERIFY" \in Needs[f] /\ "WP_VERIFY" \in Features
    BY DEF Needs, Features
  <2>2. MetTwice("WP_VERIFY")
    <3>1. CASE f = "WP_VERIFY"
      BY <1>6, <3>1 DEF MetThrice, MetTwice
    <3>2. CASE f # "WP_VERIFY"
      BY <1>6, <2>1, <3>2 DEF MetThrice
    <3> QED BY <3>1, <3>2
  <2> QED BY <1>6, <2>2, LoopIsMet, LoopRuns
<1>7. Shows("WP_VERIFY")
  BY <1>1, <1>6 DEF Shows, Did
<1>8. Shows("WP_SECURITY")
  <2> SUFFICES ASSUME RunOut, "WP_SECURITY" \in on, MetThrice("WP_SECURITY") PROVE Did("scanned")
    BY <1>1 DEF Shows, Did
  <2>1. Did("verified") /\ Has("security")
    BY <1>6, WorkerThere
  <2> QED BY <2>1, EventsHappen DEF Executing
<1>9. Shows("WP_ADVISORY")
  <2> SUFFICES ASSUME RunOut, "WP_ADVISORY" \in on, MetThrice("WP_ADVISORY") PROVE Did("advised")
    BY <1>1 DEF Shows, Did
  <2>1. Did("verified") /\ Works /\ Pool
    BY <1>6
  <2>2. Stores.advisoryStore
    BY <2>1, StoresThere
  <2>3. Has("advisory")
    BY <2>1, <2>2, WorkerThere
  <2> QED BY <2>1, <2>3, EventsHappen DEF Executing
<1> QED BY <1>2, <1>3, <1>4, <1>5, <1>7, <1>8, <1>9

LEMMA VerifyIsMet ==
  ASSUME RunOut, NEW f, "WP_VERIFY" \in Needs[f], MetThrice(f)
  PROVE  Works /\ Supervised /\ Pool /\ Did("executed") /\ Did("verified") /\ "WP_VERIFY" \in on
<1>1. "WP_VERIFY" \in Features
  BY DEF Features
<1> QED BY <1>1, MetGoesOn, LoopIsMet, LoopRuns

LEMMA OraclesShow ==
  /\ Shows("ORACLE_DOR") /\ Shows("ORACLE_DRAFT") /\ Shows("ORACLE_INVARIANTS") /\ Shows("ORACLE_DECISION")
<1>1. /\ Mark["ORACLE_DOR"] = "redispatched" /\ Mark["ORACLE_DRAFT"] = "drafted"
      /\ Mark["ORACLE_INVARIANTS"] = "draftsChecked" /\ Mark["ORACLE_DECISION"] = "oracleAnswered"
  BY DEF Mark
<1>2. /\ Needs["ORACLE_DRAFT"] = {"TASK_MANAGER", "DATABASE"}
      /\ Needs["ORACLE_INVARIANTS"] = {"ORACLE_DRAFT", "WP_PROPERTY"}
      /\ Needs["ORACLE_DECISION"] = {"DATABASE", "ORACLE_DRAFT", "DECISION_ROUTING"}
      /\ Needs["WP_PROPERTY"] = {"WP_VERIFY", "oracleStore"}
      /\ {"TASK_MANAGER", "ORACLE_DRAFT", "WP_PROPERTY", "DECISION_ROUTING", "WP_VERIFY", "TASK_WORKER"} \subseteq Features
  BY DEF Needs, Features
<1>3. MetTwice("ORACLE_DRAFT") => Supervised /\ Pool /\ "ORACLE_DRAFT" \in on
  BY <1>2, MetGoesOn, LoopIsMet DEF MetTwice, Met
<1>4. Shows("ORACLE_DOR")
  <2> SUFFICES ASSUME RunOut, "ORACLE_DOR" \in on, ~Unwarned("ORACLE_DOR") PROVE Did("redispatched")
    BY <1>1 DEF Shows, Did
  <2>1. Supervised /\ Pool
    BY DEF Unwarned, Supervised, Pool
  <2>2. Stores.oracleStore /\ Has("relay")
    BY <2>1, StoresThere DEF AnyOf, Writers
  <2>3. Has("dor") /\ Did("oracleApproved") /\ Did("graph")
    BY <2>1, <2>2, SupervisorThere, StoresThere, LoopRuns
  <2> QED BY <2>2, <2>3, EventsHappen DEF Approving
<1>5. Shows("ORACLE_DRAFT")
  <2> SUFFICES ASSUME RunOut, MetThrice("ORACLE_DRAFT"), ~Unwarned("ORACLE_DRAFT") PROVE Did("drafted")
    BY <1>1 DEF Shows, Did
  <2>1. "DECOMPOSE" \in on
    BY DEF Unwarned
  <2> QED BY <1>3, <2>1, LoopRuns DEF MetThrice, MetTwice
<1>6. Shows("ORACLE_INVARIANTS")
  <2> SUFFICES ASSUME RunOut, "ORACLE_INVARIANTS" \in on, MetThrice("ORACLE_INVARIANTS"), ~Unwarned("ORACLE_INVARIANTS")
               PROVE  Did("draftsChecked")
    BY <1>1 DEF Shows, Did
  <2>1. "DECOMPOSE" \in on
    BY DEF Unwarned
  <2>2. MetTwice("ORACLE_DRAFT") /\ MetTwice("WP_PROPERTY")
    BY <1>2, MetGoesOn
  <2>3. Did("drafted") /\ Supervised /\ Pool
    BY <1>3, <2>1, <2>2, LoopRuns
  <2>4. Met("WP_VERIFY") /\ Stores.oracleStore /\ "WP_PROPERTY" \in on
    BY <1>2, <2>2, MetGoesOn DEF MetTwice, Met
  <2>5. Needs["WP_VERIFY"] = {"TASK_WORKER"}
    BY DEF Needs
  <2>6. "TASK_WORKER" \in on /\ "WP_VERIFY" \in on
    BY <1>2, <2>4, <2>5 DEF Met
  <2>7. Works
    BY <2>3, <2>6 DEF Works
  <2>8. Did("verified") /\ Did("oracleApproved") /\ Has("property")
    BY <2>3, <2>4, <2>6, <2>7, LoopRuns, WorkerThere, StoresThere
  <2>9. Did("invariantsChecked")
    BY <2>8, EventsHappen DEF Executing
  <2> QED BY <2>3, <2>9, EventsHappen DEF Executing
<1>7. Shows("ORACLE_DECISION")
  <2> SUFFICES ASSUME RunOut, "ORACLE_DECISION" \in on, MetThrice("ORACLE_DECISION"), ~Unwarned("ORACLE_DECISION")
               PROVE  Did("oracleAnswered")
    BY <1>1 DEF Shows, Did
  <2>1. "DECOMPOSE" \in on
    BY DEF Unwarned
  <2>2. MetTwice("ORACLE_DRAFT") /\ Met("DECISION_ROUTING")
    BY <1>2, MetGoesOn
  <2>3. Supervised /\ Pool /\ "ORACLE_DRAFT" \in on /\ {"DECISION_ROUTING", "SECRET"} \subseteq on
    BY <1>3, <2>2, LoopIsMet
  <2>4. Stores.oracleStore /\ Stores.decisionStore
    BY <2>3, StoresThere DEF AnyOf
  <2>5. Has("oracleBrief") /\ Did("drafted") /\ Answers
    BY <2>1, <2>3, <2>4, SupervisorThere, LoopRuns
  <2>6. Did("oracleAsked")
    BY <2>5, EventsHappen DEF Approving
  <2> QED BY <2>5, <2>6, EventsHappen DEF Approving
<1> QED BY <1>4, <1>5, <1>6, <1>7

LEMMA ChannelsShow ==
  /\ Shows("GOLDEN_SIGNOFF") /\ Shows("WP_CONFORMANCE") /\ Shows("WP_IMPACT") /\ Shows("WP_PROPERTY")
  /\ Shows("WP_MUTATION")
<1>1. /\ Mark["GOLDEN_SIGNOFF"] = "goldenFrozen" /\ Mark["WP_CONFORMANCE"] = "conformed"
      /\ Mark["WP_IMPACT"] = "compared" /\ Mark["WP_PROPERTY"] = "invariantsChecked" /\ Mark["WP_MUTATION"] = "mutated"
  BY DEF Mark
<1>2. /\ Needs["GOLDEN_SIGNOFF"] = {"DATABASE", "WP_IMPACT", "DECISION_ROUTING", "TASK_WORKER"}
      /\ Needs["WP_CONFORMANCE"] = {"WP_VERIFY", "oracleStore"}
      /\ Needs["WP_IMPACT"] = {"WP_VERIFY", "oracleStore"}
      /\ Needs["WP_PROPERTY"] = {"WP_VERIFY", "oracleStore"}
      /\ {"WP_IMPACT", "TASK_WORKER", "DECISION_ROUTING", "WP_VERIFY"} \subseteq Features
  BY DEF Needs, Features
<1>3. ASSUME RunOut, Works, Supervised, Pool, {"GOLDEN_SIGNOFF", "DECISION_ROUTING", "SECRET"} \subseteq on
      PROVE  Did("goldenFrozen")
  <2>1. Stores.oracleStore /\ Stores.decisionStore
    BY <1>3, StoresThere DEF AnyOf
  <2>2. Has("goldenBrief") /\ Did("executed") /\ Did("oracleApproved") /\ Answers
    BY <1>3, <2>1, SupervisorThere, StoresThere, LoopRuns
  <2>3. Did("goldenAsked")
    BY <1>3, <2>2, EventsHappen DEF Executing
  <2> QED BY <1>3, <2>2, <2>3, EventsHappen DEF Executing
<1>4. Shows("GOLDEN_SIGNOFF")
  <2> SUFFICES ASSUME RunOut, "GOLDEN_SIGNOFF" \in on, MetThrice("GOLDEN_SIGNOFF") PROVE Did("goldenFrozen")
    BY <1>1 DEF Shows, Did
  <2>1. Met("TASK_WORKER") /\ Met("DECISION_ROUTING")
    BY <1>2, MetGoesOn
  <2>2. Works /\ Supervised /\ Pool /\ {"DECISION_ROUTING", "SECRET"} \subseteq on
    BY <2>1, LoopIsMet
  <2> QED BY <1>3, <2>2
<1>5. ASSUME RunOut, NEW f \in {"WP_CONFORMANCE", "WP_IMPACT", "WP_PROPERTY"}, MetThrice(f)
      PROVE  Works /\ Supervised /\ Pool /\ Did("verified") /\ Stores.oracleStore /\ Did("oracleApproved")
  <2>1. "WP_VERIFY" \in Needs[f] /\ "oracleStore" \in Needs[f]
    BY <1>2
  <2>2. Stores.oracleStore
    BY <1>5, <2>1 DEF MetThrice, Met
  <2> QED BY <1>5, <2>1, <2>2, VerifyIsMet, StoresThere, LoopRuns
<1>6. Shows("WP_CONFORMANCE")
  <2> SUFFICES ASSUME RunOut, "WP_CONFORMANCE" \in on, MetThrice("WP_CONFORMANCE") PROVE Did("conformed")
    BY <1>1 DEF Shows, Did
  <2>1. Has("conformance") /\ Did("verified") /\ Did("oracleApproved")
    BY <1>5, WorkerThere
  <2> QED BY <2>1, EventsHappen DEF Executing
<1>7. Shows("WP_PROPERTY")
  <2> SUFFICES ASSUME RunOut, "WP_PROPERTY" \in on, MetThrice("WP_PROPERTY") PROVE Did("invariantsChecked")
    BY <1>1 DEF Shows, Did
  <2>1. Has("property") /\ Did("verified") /\ Did("oracleApproved")
    BY <1>5, WorkerThere
  <2> QED BY <2>1, EventsHappen DEF Executing
<1>8. Shows("WP_IMPACT")
  <2> SUFFICES ASSUME RunOut, "WP_IMPACT" \in on, MetThrice("WP_IMPACT"), ~Unwarned("WP_IMPACT") PROVE Did("compared")
    BY <1>1 DEF Shows, Did
  <2>1. {"GOLDEN_SIGNOFF", "DECISION_ROUTING", "SECRET"} \subseteq on
    BY DEF Unwarned
  <2>2. Has("impact") /\ Did("verified") /\ Works /\ Supervised /\ Pool
    BY <1>5, WorkerThere
  <2>3. Did("goldenFrozen")
    BY <1>3, <2>1, <2>2
  <2> QED BY <2>2, <2>3, EventsHappen DEF Executing
<1>9. Shows("WP_MUTATION")
  <2> SUFFICES ASSUME RunOut, "WP_MUTATION" \in on, MetThrice("WP_MUTATION") PROVE Did("mutated")
    BY <1>1 DEF Shows, Did
  <2>1. /\ "WP_VERIFY" \in Needs["WP_MUTATION"]
        /\ env.minRisk = "HIGH" => {"RISK_CLASSIFY", "RISK_ROUTING"} \subseteq Needs["WP_MUTATION"]
    BY DEF Needs
  <2>2. Works /\ Supervised /\ Did("verified") /\ Has("mutation")
    BY <2>1, VerifyIsMet, WorkerThere
  <2>3. ASSUME env.minRisk = "HIGH" PROVE Did("riskWritten")
    <3>1. Met("RISK_CLASSIFY") /\ Met("RISK_ROUTING")
      BY <2>1, <2>3, MetGoesOn DEF Features
    <3>2. Needs["RISK_CLASSIFY"] = {"DATABASE", "DECOMPOSE"}
      BY DEF Needs
    <3>3. "DECOMPOSE" \in on /\ "RISK_ROUTING" \in on
      BY <3>1, <3>2 DEF Met, Features
    <3> QED BY <2>2, <3>3, LoopRuns
  <2> QED BY <2>2, <2>3, EventsHappen DEF Executing
<1> QED BY <1>4, <1>6, <1>7, <1>8, <1>9

LEMMA ReleasesShow ==
  Shows("RELEASE_GATE") /\ Shows("RELEASE_SIGNOFF") /\ Shows("DEPLOY_GATE")
<1>1. Mark["RELEASE_GATE"] = "proven" /\ Mark["RELEASE_SIGNOFF"] = "signedOff" /\ Mark["DEPLOY_GATE"] = "deployChecked"
  BY DEF Mark
<1>2. /\ Needs["RELEASE_GATE"] = {"DATABASE", "TASK_MANAGER", "WP_VERIFY"}
      /\ Needs["RELEASE_SIGNOFF"] = {"RELEASE_GATE", "DECISION_ROUTING"}
      /\ Needs["DEPLOY_GATE"] = {"RELEASE_GATE", "DATABASE"}
      /\ Needs["WP_VERIFY"] = {"TASK_WORKER"}
      /\ {"TASK_MANAGER", "WP_VERIFY", "RELEASE_GATE", "DECISION_ROUTING", "TASK_WORKER"} \subseteq Features
      /\ "DATABASE" \in Settings
  BY DEF Needs, Features, Settings
<1>3. ASSUME MetTwice("RELEASE_GATE") PROVE Works /\ Supervised /\ Pool /\ {"RELEASE_GATE", "WP_VERIFY"} \subseteq on
  <2>1. Met("WP_VERIFY") /\ Met("TASK_MANAGER") /\ "RELEASE_GATE" \in on
    BY <1>2, <1>3, MetGoesOn DEF MetTwice, Met
  <2>2. "TASK_WORKER" \in on /\ "WP_VERIFY" \in on /\ Supervised /\ Pool
    BY <1>2, <2>1, LoopIsMet DEF Met
  <2> QED BY <2>1, <2>2 DEF Works
<1>4. Shows("RELEASE_GATE")
  <2> SUFFICES ASSUME RunOut, MetTwice("RELEASE_GATE") PROVE Did("proven")
    BY <1>1 DEF Shows, Did, MetThrice, MetTwice
  <2>1. Works /\ Supervised /\ Pool /\ {"RELEASE_GATE", "WP_VERIFY"} \subseteq on
    BY <1>3
  <2>2. Has("evidence") /\ Did("verified")
    BY <2>1, StoresThere, WorkerThere, LoopRuns
  <2> QED BY <2>2, EventsHappen DEF Executing
<1>5. Shows("RELEASE_SIGNOFF")
  <2> SUFFICES ASSUME RunOut, "RELEASE_SIGNOFF" \in on, MetThrice("RELEASE_SIGNOFF") PROVE Did("signedOff")
    BY <1>1 DEF Shows, Did
  <2>1. MetTwice("RELEASE_GATE") /\ Met("DECISION_ROUTING")
    BY <1>2, MetGoesOn
  <2>2. Works /\ Supervised /\ Pool /\ "RELEASE_GATE" \in on /\ {"DECISION_ROUTING", "SECRET"} \subseteq on
    BY <1>3, <2>1, LoopIsMet
  <2>3. Stores.decisionStore /\ Stores.releaseStore /\ Has("releaseStore") /\ Has("relay")
    BY <2>2, StoresThere DEF AnyOf, Writers
  <2>4. Has("signoffConsumer") /\ Did("executed") /\ Answers
    BY <2>2, <2>3, SupervisorThere, LoopRuns
  <2>5. Did("blocked")
    BY <2>3, <2>4, EventsHappen DEF Deciding
  <2>6. Did("signoffAsked")
    BY <2>3, <2>4, <2>5, EventsHappen DEF Deciding
  <2> QED BY <2>4, <2>6, EventsHappen DEF Deciding
<1>6. Shows("DEPLOY_GATE")
  <2> SUFFICES ASSUME RunOut, "DEPLOY_GATE" \in on, Met("DEPLOY_GATE") PROVE Did("deployChecked")
    BY <1>1 DEF Shows, Did, MetThrice
  <2>1. Pool /\ "RELEASE_GATE" \in on
    BY <1>2 DEF Met, Pool
  <2>2. Has("deployGate")
    BY <2>1, StoresThere
  <2> QED BY <2>2, EventsHappen DEF Deciding
<1> QED BY <1>4, <1>5, <1>6

LEMMA DecisionsShow ==
  Shows("DECISION_BRIEF") /\ Shows("DECISION_ROUTING") /\ Shows("DECISION_EXPIRY")
<1>1. /\ Mark["DECISION_BRIEF"] = "defectAsked" /\ Mark["DECISION_ROUTING"] = "answered"
      /\ Mark["DECISION_EXPIRY"] = "expired"
  BY DEF Mark
<1>2. ASSUME RunOut, Supervised, Pool, "DECISION_BRIEF" \in on PROVE Did("defectAsked") /\ Stores.decisionStore
  <2>1. Stores.decisionStore
    BY <1>2, StoresThere DEF AnyOf
  <2>2. Has("defectBrief") /\ Did("escalated")
    BY <1>2, <2>1, SupervisorThere, LoopRuns
  <2> QED BY <1>2, <2>1, <2>2, EventsHappen DEF Deciding
<1>3. Shows("DECISION_BRIEF")
  <2> SUFFICES ASSUME RunOut, "DECISION_BRIEF" \in on, ~Unwarned("DECISION_BRIEF") PROVE Did("defectAsked")
    BY <1>1 DEF Shows, Did
  <2>1. Supervised /\ Pool
    BY DEF Unwarned, Supervised, Pool
  <2> QED BY <1>2, <2>1
<1>4. Shows("DECISION_ROUTING")
  <2> SUFFICES ASSUME RunOut, Met("DECISION_ROUTING"), ~Unwarned("DECISION_ROUTING") PROVE Did("answered")
    BY <1>1 DEF Shows, Did, MetThrice
  <2>1. Supervised /\ Pool
    BY DEF Unwarned, Supervised, Pool
  <2>2. {"DECISION_BRIEF", "DECISION_ROUTING", "SECRET"} \subseteq on
    BY <2>1, LoopIsMet
  <2>3. Did("defectAsked") /\ Answers
    BY <1>2, <2>1, <2>2, LoopRuns
  <2> QED BY <2>3, EventsHappen DEF Deciding
<1>5. Shows("DECISION_EXPIRY")
  <2> SUFFICES ASSUME RunOut, "DECISION_EXPIRY" \in on, MetThrice("DECISION_EXPIRY"), ~Unwarned("DECISION_EXPIRY")
               PROVE  Did("expired")
    BY <1>1 DEF Shows, Did
  <2>1. Needs["DECISION_EXPIRY"] = {"DATABASE", "TASK_MANAGER"} /\ "TASK_MANAGER" \in Features
    BY DEF Needs, Features
  <2>2. Supervised /\ Pool
    BY <2>1, MetGoesOn, LoopIsMet
  <2>3. "DECISION_BRIEF" \in on
    BY DEF Unwarned
  <2>4. Did("defectAsked") /\ Has("expiry")
    BY <1>2, <2>2, <2>3, SupervisorThere
  <2> QED BY <2>4, EventsHappen DEF Deciding
<1> QED BY <1>3, <1>4, <1>5

LEMMA RisksShow ==
  Shows("RISK_CLASSIFY") /\ Shows("RISK_ROUTING") /\ Shows("RISK_DECISION") /\ Shows("MODEL_ROUTING")
<1>1. /\ Mark["RISK_CLASSIFY"] = "classified" /\ Mark["RISK_ROUTING"] = "riskWritten"
      /\ Mark["RISK_DECISION"] = "riskAnswered" /\ Mark["MODEL_ROUTING"] = "modelRouted"
  BY DEF Mark
<1>2. /\ Needs["RISK_CLASSIFY"] = {"DATABASE", "DECOMPOSE"}
      /\ Needs["RISK_ROUTING"] = {"DATABASE", "TASK_MANAGER"}
      /\ Needs["RISK_DECISION"] = {"DATABASE", "RISK_CLASSIFY", "DECISION_ROUTING"}
      /\ Needs["MODEL_ROUTING"] = {"DATABASE", "TASK_WORKER"}
      /\ {"DECOMPOSE", "TASK_MANAGER", "RISK_CLASSIFY", "DECISION_ROUTING", "TASK_WORKER"} \subseteq Features
      /\ "DATABASE" \in Settings
  BY DEF Needs, Features, Settings
<1>3. Met("RISK_CLASSIFY") => Pool /\ "DECOMPOSE" \in on /\ "RISK_CLASSIFY" \in on
  BY <1>2 DEF Met, Pool
<1>4. Shows("RISK_CLASSIFY")
  <2> SUFFICES ASSUME RunOut, Met("RISK_CLASSIFY") PROVE Did("classified")
    BY <1>1 DEF Shows, Did, MetThrice
  <2>1. Stores.riskStore
    BY <1>3, StoresThere DEF AnyOf, RiskFeatures
  <2> QED BY <1>3, <2>1, LoopRuns
<1>5. Shows("RISK_ROUTING")
  <2> SUFFICES ASSUME RunOut, "RISK_ROUTING" \in on, MetThrice("RISK_ROUTING"), ~Unwarned("RISK_ROUTING")
               PROVE  Did("riskWritten")
    BY <1>1 DEF Shows, Did
  <2>1. "DECOMPOSE" \in on
    BY DEF Unwarned
  <2>2. Supervised
    BY <1>2, MetGoesOn, LoopIsMet
  <2> QED BY <2>1, <2>2, LoopRuns
<1>6. Shows("RISK_DECISION")
  <2> SUFFICES ASSUME RunOut, "RISK_DECISION" \in on, MetThrice("RISK_DECISION"), ~Unwarned("RISK_DECISION")
               PROVE  Did("riskAnswered")
    BY <1>1 DEF Shows, Did
  <2>1. Supervised /\ Pool
    BY DEF Unwarned, Supervised, Pool
  <2>2. Met("RISK_CLASSIFY") /\ Met("DECISION_ROUTING")
    BY <1>2, MetGoesOn
  <2>3. "DECOMPOSE" \in on /\ "RISK_CLASSIFY" \in on /\ {"DECISION_ROUTING", "SECRET"} \subseteq on
    BY <1>3, <2>1, <2>2, LoopIsMet
  <2>4. Stores.riskStore /\ Stores.decisionStore
    BY <2>1, <2>3, StoresThere DEF AnyOf, RiskFeatures
  <2>5. Did("classified") /\ Answers /\ Has("riskBrief") /\ Has("riskApprover")
    BY <2>1, <2>3, <2>4, LoopRuns, GuardsThere, SupervisorThere
  <2>6. Did("riskAsked")
    BY <2>5, EventsHappen DEF Approving
  <2> QED BY <2>5, <2>6, EventsHappen DEF Approving
<1>7. Shows("MODEL_ROUTING")
  <2> SUFFICES ASSUME RunOut, "MODEL_ROUTING" \in on, MetThrice("MODEL_ROUTING"), ~Unwarned("MODEL_ROUTING")
               PROVE  Did("modelRouted")
    BY <1>1 DEF Shows, Did
  <2>1. "DECOMPOSE" \in on
    BY DEF Unwarned
  <2>2. Works /\ Pool
    BY <1>2, MetGoesOn, LoopIsMet
  <2>3. Stores.riskStore
    BY <2>2, StoresThere DEF AnyOf, RiskFeatures
  <2>4. Did("executed") /\ Did("riskApproved") /\ Has("modelRouting")
    BY <2>1, <2>2, <2>3, LoopRuns, WorkerThere
  <2> QED BY <2>4, EventsHappen DEF Executing
<1> QED BY <1>4, <1>5, <1>6, <1>7

LEMMA ModesShow ==
  Shows("DEGRADED_MODE") /\ Shows("DEGRADED_ENFORCE") /\ Shows("DEGRADED_SIGNOFF")
<1>1. /\ Mark["DEGRADED_MODE"] = "degraded" /\ Mark["DEGRADED_ENFORCE"] = "held"
      /\ Mark["DEGRADED_SIGNOFF"] = "degradedAnswered"
  BY DEF Mark
<1>2. /\ Needs["DEGRADED_ENFORCE"] = {"DEGRADED_MODE", "TASK_MANAGER"}
      /\ Needs["DEGRADED_SIGNOFF"] = {"DATABASE", "DEGRADED_ENFORCE", "DECISION_ROUTING"}
      /\ {"DEGRADED_MODE", "TASK_MANAGER", "DEGRADED_ENFORCE", "DECISION_ROUTING"} \subseteq Features
  BY DEF Needs, Features
<1>3. ASSUME RunOut, "DEGRADED_MODE" \in on, AnyOf({"BUDGET_DAILY", "PROVIDER_CIRCUIT"}) PROVE Did("degraded")
  <2>1. Has("modeController") /\ (Has("providerCircuit") \/ "BUDGET_DAILY" \in on)
    BY <1>3, GuardsThere DEF AnyOf
  <2> QED BY <1>3, <2>1, EventsHappen DEF Deciding
<1>4. MetTwice("DEGRADED_ENFORCE") => Supervised /\ Pool /\ {"DEGRADED_ENFORCE", "DEGRADED_MODE"} \subseteq on
  BY <1>2, MetGoesOn, LoopIsMet DEF MetTwice, Met
<1>5. Shows("DEGRADED_MODE")
  <2> SUFFICES ASSUME RunOut, "DEGRADED_MODE" \in on, ~Unwarned("DEGRADED_MODE") PROVE Did("degraded")
    BY <1>1 DEF Shows, Did
  <2>1. AnyOf({"BUDGET_DAILY", "PROVIDER_CIRCUIT"})
    BY DEF Unwarned
  <2> QED BY <1>3, <2>1
<1>6. Shows("DEGRADED_ENFORCE")
  <2> SUFFICES ASSUME RunOut, MetThrice("DEGRADED_ENFORCE"), ~Unwarned("DEGRADED_ENFORCE") PROVE Did("held")
    BY <1>1 DEF Shows, Did
  <2>1. "BUDGET_DAILY" \in on
    BY DEF Unwarned
  <2>2. Supervised /\ {"DEGRADED_ENFORCE", "DEGRADED_MODE"} \subseteq on
    BY <1>4 DEF MetThrice, MetTwice
  <2>3. Has("enforcement") /\ Did("graph")
    BY <2>2, SupervisorThere, LoopRuns
  <2> QED BY <2>1, <2>3, EventsHappen DEF Deciding
<1>7. Shows("DEGRADED_SIGNOFF")
  <2> SUFFICES ASSUME RunOut, "DEGRADED_SIGNOFF" \in on, MetThrice("DEGRADED_SIGNOFF"), ~Unwarned("DEGRADED_SIGNOFF")
               PROVE  Did("degradedAnswered")
    BY <1>1 DEF Shows, Did
  <2>1. {"DECOMPOSE", "RISK_ROUTING"} \subseteq on /\ AnyOf({"BUDGET_DAILY", "PROVIDER_CIRCUIT"})
    BY DEF Unwarned
  <2>2. MetTwice("DEGRADED_ENFORCE") /\ Met("DECISION_ROUTING")
    BY <1>2, MetGoesOn
  <2>3. /\ Supervised /\ Pool /\ {"DEGRADED_ENFORCE", "DEGRADED_MODE"} \subseteq on
        /\ {"DECISION_ROUTING", "SECRET"} \subseteq on
    BY <1>4, <2>2, LoopIsMet
  <2>4. Stores.decisionStore
    BY <2>3, StoresThere DEF AnyOf
  <2>5. Has("enforcement") /\ Has("degradedBrief") /\ Did("riskWritten") /\ Did("degraded") /\ Answers
    BY <1>3, <2>1, <2>3, <2>4, SupervisorThere, LoopRuns
  <2>6. Did("degradedAsked")
    BY <2>5, EventsHappen DEF Deciding
  <2> QED BY <2>5, <2>6, EventsHappen DEF Deciding
<1> QED BY <1>5, <1>6, <1>7

\* A flag that is on either shows its effect or is warned about, itself or by
\* way of what its warning asks for, in every environment a Manager can be
\* started in (server.ts, buildServer; startup-warnings.ts).
THEOREM FlagsAreHeard == WiringSpec => []NoFlagIsSilent
<1>1. \A f \in Features : Shows(f)
  BY LoopShows, OraclesShow, ChannelsShow, ReleasesShow, DecisionsShow, RisksShow, ModesShow DEF Features
<1>2. WiringInv => NoFlagIsSilent
  <2> SUFFICES ASSUME WiringInv, stage = "serving", Possible \subseteq seen, NEW f \in on \cap Features,
                      LeadsTo(f) \cap warned = {}, ~Unwarned(f)
               PROVE  Mark[f] \in seen
    BY DEF NoFlagIsSilent
  <2>1. RunOut
    BY DEF WiringInv, RunOut
  <2>2. MetThrice(f)
    BY NeedsAreMet
  <2> QED BY <1>1, <2>1, <2>2 DEF Shows
<1> QED BY <1>2, WiringInvariant, PTL
=============================================================================
