--------------------------- MODULE MessagingProofs ---------------------------
(***************************************************************************)
(* Theorems about messages, agents and their sessions: one consumer per    *)
(* session (AgentRpc), at most one effect of a message and none forgotten  *)
(* (StreamConsumer), what an agent's success and its silence mean          *)
(* (AgentWork), what an accepted audit stands for (SecurityAudit), the     *)
(* store of watchers with its timers (FileWatch), and what becomes of the  *)
(* events they publish (WatchEvents).  Each module has an inductive        *)
(* invariant of its own; the shapes of its records come first.             *)
(***************************************************************************)
EXTENDS StreamConsumer, AgentRpc, SecurityAudit, AgentWork, FileWatch, WatchEvents,
  FiniteSetTheorems, WellFoundedInduction, TLAPS

-----------------------------------------------------------------------------
(* Consumers of an agent.  That a consumer which was not told to stop is   *)
(* the one the dispatcher knows is inductive, given which sessions there   *)
(* can be in the queue of announcements and in the consumers.              *)

IsTask(a) == a = [x \in {"at", "sess", "req", "tip"} |-> a[x]]
IsOpened(o) == o = [x \in {"at", "sess", "stop", "todo"} |-> o[x]]
Entries == [kind : {"start", "end"}, sess : Sessions]

TaskShapes ==
  /\ task = [t \in Tasks |-> task[t]]
  /\ \A t \in Tasks : IsTask(task[t]) /\ (task[t].at # "off" => task[t].sess \in Sessions)
ConsumerShapes ==
  /\ active = [s \in Sessions |-> active[s]] /\ opened = [i \in Ids |-> opened[i]]
  /\ \A i \in Ids : IsOpened(opened[i]) /\ (opened[i] # Gone /\ ~opened[i].stop => opened[i].sess \in Sessions)
ConsumerInv ==
  TaskShapes /\ ConsumerShapes /\ gateway \in Seq(Entries) /\ OneConsumerPerSession

(* A step of a run or an abort leaves the consumers alone.                 *)
LEMMA TaskSteps ==
  ASSUME ConsumerInv, UNCHANGED <<active, opened>>, NEW t \in Tasks, NEW a,
         task' = [task EXCEPT ![t] = a], IsTask(a), a.at # "off" => a.sess \in Sessions,
         gateway' \in Seq(Entries)
  PROVE  ConsumerInv'
<1>1. TaskShapes'
  BY DEF ConsumerInv, TaskShapes
<1>2. ConsumerShapes' /\ OneConsumerPerSession'
  BY DEF ConsumerInv, ConsumerShapes, OneConsumerPerSession, Live
<1>3. QED
  BY <1>1, <1>2 DEF ConsumerInv

(* So does one of a consumer that goes on.                                 *)
LEMMA ConsumerGoesOn ==
  ASSUME ConsumerInv, UNCHANGED <<task, gateway, active>>, NEW i \in Live, NEW o,
         opened' = [opened EXCEPT ![i] = o], IsOpened(o), o.sess = opened[i].sess,
         o.stop = opened[i].stop
  PROVE  ConsumerInv'
<1>1. TaskShapes' /\ gateway' \in Seq(Entries)
  BY DEF ConsumerInv, TaskShapes
<1>2. /\ ConsumerShapes /\ OneConsumerPerSession /\ i \in Ids /\ opened[i] # Gone
      /\ opened' = [j \in Ids |-> IF j = i THEN o ELSE opened[j]]
  BY DEF ConsumerInv, ConsumerShapes, Live
<1>3. ConsumerShapes'
  BY <1>2 DEF ConsumerShapes
<1>4. OneConsumerPerSession'
  BY <1>2 DEF OneConsumerPerSession, Live
<1>5. QED
  BY <1>1, <1>3, <1>4 DEF ConsumerInv

(* And one that closes.                                                    *)
LEMMA ConsumerCloses ==
  ASSUME ConsumerInv, UNCHANGED <<task, gateway>>, NEW i \in Ids, Close(i)
  PROVE  ConsumerInv'
<1>1. TaskShapes' /\ gateway' \in Seq(Entries)
  BY DEF ConsumerInv, TaskShapes
<1>2. /\ ConsumerShapes /\ OneConsumerPerSession
      /\ opened' = [j \in Ids |-> IF j = i THEN Gone ELSE opened[j]]
      /\ active' = [s \in Sessions |-> IF active[s] = i THEN NoId ELSE active[s]]
  BY DEF ConsumerInv, ConsumerShapes, Close, Closed
<1>3. ConsumerShapes'
  <2>1. IsOpened(Gone)
    BY DEF IsOpened, Gone
  <2>2. QED
    BY <1>2, <2>1 DEF ConsumerShapes
<1>4. OneConsumerPerSession'
  BY <1>2 DEF ConsumerShapes, OneConsumerPerSession, Live
<1>5. QED
  BY <1>1, <1>3, <1>4 DEF ConsumerInv

LEMMA AgentConsumerStep ==
  ASSUME ConsumerInv, NEW i \in Ids, OpenedStep(i)
  PROVE  ConsumerInv'
<1>1. IsOpened(opened[i]) /\ opened = [j \in Ids |-> opened[j]]
  BY DEF ConsumerInv, ConsumerShapes
<1>2. opened[i].at # "gone" => i \in Live
  BY DEF Live, Gone
<1>3. CASE StartEnds(i) \/ LoopEnds(i)
  BY <1>3, ConsumerCloses DEF StartEnds, LoopEnds, streams, manager
<1>4. ASSUME UNCHANGED <<task, gateway, active>>, i \in Live, NEW at, NEW todo,
             opened' = [opened EXCEPT ![i].at = at, ![i].todo = todo]
      PROVE  ConsumerInv'
  <2> DEFINE o == [opened[i] EXCEPT !.at = at, !.todo = todo]
  <2>1. IsOpened(o) /\ o.sess = opened[i].sess /\ o.stop = opened[i].stop
    BY <1>1 DEF IsOpened
  <2>2. opened' = [opened EXCEPT ![i] = o]
    BY <1>4, <1>1
  <2> HIDE DEF o
  <2>3. QED
    BY <1>4, <2>1, <2>2, ConsumerGoesOn
<1>5. CASE Ready(i)
  BY <1>5, <1>2, <1>4 DEF Ready, manager
<1>6. CASE Take(i)
  BY <1>6, <1>2, <1>4 DEF Take, manager
<1>7. CASE Work(i)
  <2>1. opened' = [opened EXCEPT ![i].at = opened'[i].at, ![i].todo = opened'[i].todo]
    BY <1>7, <1>1 DEF Work, IsOpened
  <2>2. QED
    BY <1>7, <1>2, <1>4, <2>1 DEF Work, manager
<1>8. CASE GiveBack(i)
  BY <1>8, <1>2, <1>4 DEF GiveBack, manager
<1>9. QED
  BY <1>3, <1>5, <1>6, <1>7, <1>8 DEF OpenedStep

LEMMA RunStepKeeps ==
  ASSUME ConsumerInv, NEW t \in Tasks,
         \/ t \in Runs /\ \E s \in Sessions : StartRun(t, s)
         \/ t \in Runs /\ (Begin(t) \/ CallStep(t) \/ Timeout(t) \/ CallFails(t) \/ FinishRun(t))
         \/ t \in Aborters /\ \E s \in Sessions : Abort(t, s)
         \/ ReleaseStep(t)
  PROVE  ConsumerInv'
<1>1. /\ IsTask(task[t]) /\ task = [u \in Tasks |-> task[u]]
      /\ task[t].at # "off" => task[t].sess \in Sessions
      /\ gateway \in Seq(Entries)
  BY DEF ConsumerInv, TaskShapes
<1>2. \A kind \in {"start", "end"}, s \in Sessions : Append(gateway, Entry(kind, s)) \in Seq(Entries)
  BY <1>1 DEF Entry, Entries
<1>3. IsTask(Off) /\ Off.at = "off"
  BY DEF IsTask, Off
<1>4. ASSUME NEW s \in Sessions, StartRun(t, s) \/ Abort(t, s) PROVE ConsumerInv'
  <2>1. PICK at \in {"idle", "release"} : task' = [task EXCEPT ![t] = [Off EXCEPT !.at = at, !.sess = s]]
    BY <1>4 DEF StartRun, Abort
  <2> DEFINE a == [Off EXCEPT !.at = at, !.sess = s]
  <2>2. IsTask(a) /\ a.sess = s
    BY DEF IsTask, Off
  <2>3. UNCHANGED <<active, opened, gateway>>
    BY <1>4 DEF StartRun, Abort, process, streams
  <2> HIDE DEF a
  <2>4. QED
    BY <1>1, <2>1, <2>2, <2>3, TaskSteps DEF a
<1>5. ASSUME UNCHANGED <<active, opened>>, gateway' \in Seq(Entries), task[t].at # "off",
             NEW a, task' = [task EXCEPT ![t] = a], IsTask(a), a.sess = task[t].sess
      PROVE  ConsumerInv'
  BY <1>1, <1>5, TaskSteps
<1>6. ASSUME task[t].at # "off", NEW at, task' = [task EXCEPT ![t].at = at],
             UNCHANGED <<active, opened>>, gateway' \in Seq(Entries)
      PROVE  ConsumerInv'
  <2> DEFINE a == [task[t] EXCEPT !.at = at]
  <2>1. IsTask(a) /\ a.sess = task[t].sess /\ task' = [task EXCEPT ![t] = a]
    BY <1>1, <1>6 DEF IsTask
  <2> HIDE DEF a
  <2>2. QED
    BY <1>5, <1>6, <2>1
<1>7. CASE Begin(t)
  <2>1. PICK at : task' = [task EXCEPT ![t].at = at, ![t].req = count.calls + 1]
    BY <1>7 DEF Begin
  <2> DEFINE a == [task[t] EXCEPT !.at = at, !.req = count.calls + 1]
  <2>2. IsTask(a) /\ a.sess = task[t].sess /\ task' = [task EXCEPT ![t] = a]
    BY <1>1, <2>1 DEF IsTask
  <2> HIDE DEF a
  <2>3. UNCHANGED <<active, opened, gateway>> /\ task[t].at # "off"
    BY <1>7 DEF Begin, streams, process
  <2>4. QED
    BY <1>1, <1>5, <2>2, <2>3
<1>8. CASE CallStep(t)
  <2>1. CASE Notify(t)
    BY <1>1, <1>2, <1>6, <2>1 DEF Notify, process
  <2>2. CASE Tip(t)
    <3> DEFINE a == [task[t] EXCEPT !.at = "send", !.tip = Len(responses[task[t].sess])]
    <3>1. IsTask(a) /\ a.sess = task[t].sess /\ task' = [task EXCEPT ![t] = a]
      BY <1>1, <2>2 DEF IsTask, Tip
    <3> HIDE DEF a
    <3>2. UNCHANGED <<active, opened, gateway>> /\ task[t].at # "off"
      BY <2>2 DEF Tip, streams, process
    <3>3. QED
      BY <1>1, <1>5, <3>1, <3>2
  <2>3. CASE SendRequest(t)
    BY <1>1, <1>6, <2>3 DEF SendRequest, process
  <2>4. CASE Answered(t)
    BY <1>1, <1>6, <2>4 DEF Answered, streams, process
  <2>5. QED
    BY <1>8, <2>1, <2>2, <2>3, <2>4 DEF CallStep
<1>9. CASE Timeout(t) \/ CallFails(t) \/ FinishRun(t)
  BY <1>1, <1>6, <1>9 DEF Timeout, CallFails, FinishRun, Calling, streams, process
<1>10. CASE ReleaseStep(t)
  <2>1. \/ task' = [task EXCEPT ![t] = Off]
        \/ task' = [task EXCEPT ![t] = [task[t] EXCEPT !.at = ReleaseOrder[@]]]
    BY <1>10 DEF ReleaseStep, Release, EndGateway, Forget, GoOn
  <2>2. UNCHANGED <<active, opened>> /\ task[t].at # "off" /\ gateway' \in Seq(Entries)
    BY <1>1, <1>2, <1>10 DEF ReleaseStep, Release, EndGateway, Forget, streams, process
  <2>3. CASE task' = [task EXCEPT ![t] = Off]
    BY <1>3, <2>2, <2>3, TaskSteps
  <2>4. CASE task' = [task EXCEPT ![t] = [task[t] EXCEPT !.at = ReleaseOrder[@]]]
    <3> DEFINE a == [task[t] EXCEPT !.at = ReleaseOrder[@]]
    <3>1. IsTask(a) /\ a.sess = task[t].sess
      BY <1>1 DEF IsTask
    <3> HIDE DEF a
    <3>2. QED
      BY <1>1, <2>2, <2>4, <3>1, TaskSteps DEF a
  <2>5. QED
    BY <2>1, <2>3, <2>4
<1>11. QED
  BY <1>4, <1>7, <1>8, <1>9, <1>10

\* A consumer of an agent that was not told to stop is the one registered for
\* its session, and only a task of that session ends it (session-dispatcher.ts).
THEOREM ConsumerInvariant == RpcSpec => []ConsumerInv
<1>1. RpcInit => ConsumerInv
  <2> SUFFICES ASSUME RpcInit PROVE ConsumerInv
    OBVIOUS
  <2>1. TaskShapes
    BY DEF RpcInit, TaskShapes, IsTask, Off
  <2>2. ConsumerShapes
    BY DEF RpcInit, ConsumerShapes, IsOpened, Gone
  <2>3. gateway \in Seq(Entries) /\ OneConsumerPerSession
    BY DEF RpcInit, OneConsumerPerSession, Live
  <2>4. QED
    BY <2>1, <2>2, <2>3 DEF ConsumerInv
<1>2. ConsumerInv /\ [RpcNext]_rpcVars => ConsumerInv'
  <2> SUFFICES ASSUME ConsumerInv, [RpcNext]_rpcVars PROVE ConsumerInv'
    OBVIOUS
  <2>1. CASE UNCHANGED <<task, gateway, active, opened>>
    BY <2>1 DEF ConsumerInv, TaskShapes, ConsumerShapes, OneConsumerPerSession, Live
  <2>2. ASSUME NEW r \in Runs,
               \/ \E s \in Sessions : StartRun(r, s)
               \/ Begin(r) \/ CallStep(r) \/ Timeout(r) \/ CallFails(r) \/ FinishRun(r)
        PROVE  ConsumerInv'
    BY <2>2, RunStepKeeps DEF Tasks
  <2>3. ASSUME NEW a \in Aborters, NEW s \in Sessions, Abort(a, s) PROVE ConsumerInv'
    BY <2>3, RunStepKeeps DEF Tasks
  <2>4. ASSUME NEW t \in Tasks, ReleaseStep(t) PROVE ConsumerInv'
    BY <2>4, RunStepKeeps
  <2>5. CASE Boot
    <3>1. UNCHANGED <<task, active, opened>> /\ gateway' \in Seq(Entries)
      BY <2>5 DEF Boot, manager, ConsumerInv
    <3>2. QED
      BY <3>1 DEF ConsumerInv, TaskShapes, ConsumerShapes, OneConsumerPerSession, Live
  <2>6. CASE AgentCrash
    <3>1. /\ UNCHANGED task /\ opened' = [i \in Ids |-> Gone]
          /\ active' = [s \in Sessions |-> NoId]
          /\ \E n \in 0..Len(gateway) : gateway' = SubSeq(gateway, n + 1, Len(gateway))
      BY <2>6 DEF AgentCrash, manager
    <3>2. gateway' \in Seq(Entries)
      <4>1. PICK n \in 0..Len(gateway) : gateway' = SubSeq(gateway, n + 1, Len(gateway))
        BY <3>1
      <4>2. gateway \in Seq(Entries)
        BY DEF ConsumerInv
      <4>3. QED
        BY <4>1, <4>2
    <3>3. ConsumerShapes' /\ OneConsumerPerSession'
      BY <3>1 DEF ConsumerShapes, OneConsumerPerSession, Live, IsOpened, Gone
    <3>4. QED
      BY <3>1, <3>2, <3>3 DEF ConsumerInv, TaskShapes
  <2>7. CASE HandleStart \/ HandleEnd
    <3> DEFINE s == Head(gateway).sess
    <3>1. /\ UNCHANGED task /\ gateway' = Tail(gateway) /\ gateway # << >> /\ gateway \in Seq(Entries)
      BY <2>7 DEF HandleStart, HandleEnd, manager, ConsumerInv
    <3>2. gateway' \in Seq(Entries) /\ s \in Sessions
      <4>1. gateway' \in Seq(Entries) /\ Head(gateway) \in Entries
        BY <3>1
      <4>2. QED
        BY <4>1 DEF Entries
    <3>3. ConsumerShapes /\ OneConsumerPerSession
      BY DEF ConsumerInv
    <3>4. TaskShapes'
      BY <3>1 DEF ConsumerInv, TaskShapes
    <3>5. CASE UNCHANGED <<active, opened>>
      BY <3>2, <3>3, <3>4, <3>5 DEF ConsumerInv, ConsumerShapes, OneConsumerPerSession, Live
    <3>6. CASE HandleStart /\ ~UNCHANGED <<active, opened>>
      <4>1. PICK i \in Ids \ Live : /\ active' = [active EXCEPT ![s] = i]
                                    /\ opened' = [opened EXCEPT ![i] = Opened(s)]
        BY <3>6 DEF HandleStart
      <4>2. active[s] = NoId
        BY <3>6 DEF HandleStart
      <4>3. IsOpened(Opened(s)) /\ Opened(s).sess = s
        BY DEF IsOpened, Opened
      <4>4. /\ active' = [u \in Sessions |-> IF u = s THEN i ELSE active[u]]
            /\ opened' = [j \in Ids |-> IF j = i THEN Opened(s) ELSE opened[j]]
        BY <3>3, <4>1 DEF ConsumerShapes
      <4> HIDE DEF s
      <4>5. ConsumerShapes'
        BY <3>2, <3>3, <4>3, <4>4 DEF ConsumerShapes
      <4>6. \A j \in Live : ~opened[j].stop => opened[j].sess # s
        BY <3>3, <4>2, RpcAssumption DEF OneConsumerPerSession, Live
      <4>7. OneConsumerPerSession'
        BY <3>2, <3>3, <4>1, <4>3, <4>4, <4>6 DEF OneConsumerPerSession, Live, ConsumerShapes
      <4>8. QED
        BY <3>2, <3>4, <4>5, <4>7 DEF ConsumerInv
    <3>7. CASE HandleEnd
      <4>1. /\ active' = [active EXCEPT ![s] = NoId]
            /\ opened' = IF active[s] = NoId THEN opened
                         ELSE [opened EXCEPT ![active[s]].stop = TRUE]
        BY <3>7 DEF HandleEnd
      <4> HIDE DEF s
      <4>2. /\ active' = [u \in Sessions |-> IF u = s THEN NoId ELSE active[u]]
            /\ opened' = [j \in Ids |-> opened'[j]]
            /\ \A j \in Ids : j # active[s] => opened'[j] = opened[j]
        BY <3>3, <4>1 DEF ConsumerShapes
      <4>3. \A j \in Ids : j = active[s] =>
              IsOpened(opened'[j]) /\ opened'[j].stop
        BY <3>3, <4>1, RpcAssumption DEF ConsumerShapes, IsOpened
      <4>4. ConsumerShapes'
        BY <3>3, <4>2, <4>3 DEF ConsumerShapes
      <4>5. OneConsumerPerSession'
        BY <3>3, <4>2, <4>3 DEF OneConsumerPerSession, Live, ConsumerShapes
      <4>6. QED
        BY <3>2, <3>4, <4>4, <4>5 DEF ConsumerInv
    <3>8. QED
      BY <2>7, <3>5, <3>6, <3>7
  <2>8. ASSUME NEW i \in Ids, OpenedStep(i) PROVE ConsumerInv'
    BY <2>8, AgentConsumerStep
  <2>9. QED
    BY <2>1, <2>2, <2>3, <2>4, <2>5, <2>6, <2>7, <2>8
       DEF RpcNext, rpcVars, manager, streams, process
<1>3. QED
  BY <1>1, <1>2, PTL DEF RpcSpec

(* However ends and reopenings overlap with consumers that are still       *)
(* winding down, a consumer that was not told to stop is the one that is   *)
(* known for its session: for any number of sessions, runs and faults      *)
(* (session-dispatcher.ts, the identity check).                            *)
THEOREM OneConsumer == RpcSpec => []OneConsumerPerSession
<1>1. ConsumerInv => OneConsumerPerSession
  BY DEF ConsumerInv
<1>2. QED
  BY <1>1, ConsumerInvariant, PTL

-----------------------------------------------------------------------------
(* SecurityAudit.                                                          *)

\* A file is scanned or skipped, and only scanned files have findings.
IsScan(a) ==
  /\ a.files \in Nat /\ a.left \in Nat /\ a.scanned \in Nat /\ a.left + a.scanned <= a.files
  /\ a.found # {} => a.scanned > 0
  /\ a.least \in {"low", "high"}

\* Only a project that is none has dependencies that are not applicable.
IsDeps(a) ==
  /\ a.deps \in {"running", "ok", "unavailable", "not_applicable", "rejected"}
  /\ a.deps = "not_applicable" => a.kind = "none"
  /\ a.deps # "ok" => a.depsFound = {}

AuditShape(a) ==
  a = [x \in {"pc", "files", "kind", "least", "left", "scanned", "found", "static", "deps",
              "depsFound", "llm", "llmFound"} |-> a[x]]

IsAudit(a) == AuditShape(a) /\ IsScan(a) /\ IsDeps(a)

AuditInv ==
  /\ audit = NoAudit \/ (audit.pc = "running" /\ IsAudit(audit))
  /\ AcceptedWasAudited

LEMMA RankFacts == Rank("high") = 3 /\ Rank("low") = 1
<1>1. \A i \in 1..4 : Severities[i] = "high" <=> i = 3
  BY DEF Severities
<1>2. \A i \in 1..4 : Severities[i] = "low" <=> i = 1
  BY DEF Severities
<1> QED BY <1>1, <1>2 DEF Rank

LEMMA ScanKept ==
  ASSUME NEW a, NEW b, IsScan(a), b.files = a.files, b.least = a.least, b.left = a.left,
         b.scanned = a.scanned, b.found = a.found
  PROVE  IsScan(b)
  BY DEF IsScan

LEMMA DepsKept ==
  ASSUME NEW a, NEW b, IsDeps(a), b.deps = a.deps, b.kind = a.kind, b.depsFound = a.depsFound
  PROVE  IsDeps(b)
  BY DEF IsDeps

\* The running audit becomes a, nothing is reported.
LEMMA AuditGoesOn ==
  ASSUME AuditInv, NEW a, audit' = a, IsAudit(a), a.pc = "running",
         UNCHANGED report \/ report' = NoReport
  PROVE  AuditInv'
  BY DEF AuditInv, AcceptedWasAudited, Accepted

\* What the channel accepts of the report of audit a was looked at.
LEMMA ReportIsHonest ==
  ASSUME audit.pc = "running", IsAudit(audit), Publish
  PROVE  AcceptedWasAudited'
<1> DEFINE answer == report'.answer
<1>1. report'.truth = audit /\ report'.requested = audit.files
  BY DEF Publish
<1> SUFFICES ASSUME Accepted'
             PROVE  /\ audit.files > 0 => audit.scanned > 0
                    /\ "high" \notin audit.found
                    /\ audit.kind = "none" \/ (audit.deps = "ok" /\ "high" \notin audit.depsFound)
  BY <1>1 DEF AcceptedWasAudited
<1>2. ChannelAuditOk(answer, audit.files, 0)
  BY <1>1 DEF Accepted
<1>3. answer.readable
  BY <1>2 DEF ChannelAuditOk
<1>4. answer = [readable |-> TRUE, requested |-> audit.files, scanned |-> ScannedCount,
                deps |-> DepsStatus,
                issues |-> \E i \in Reported : i[1] # "llm" /\ Rank(i[2]) >= Rank("high")]
  BY <1>3 DEF Publish, Unreadable
<1>5. /\ answer.requested = audit.files /\ answer.scanned = ScannedCount
      /\ answer.deps = DepsStatus
      /\ answer.issues = \E i \in Reported : i[1] # "llm" /\ Rank(i[2]) >= Rank("high")
  BY <1>4
<1> HIDE DEF answer
<1>6. /\ ~(audit.files > 0 /\ ScannedCount = 0) /\ DepsStatus \notin {"unavailable", "absent"}
      /\ ~\E i \in Reported : i[1] # "llm" /\ Rank(i[2]) >= Rank("high")
  BY <1>2, <1>5 DEF ChannelAuditOk
<1>7. audit.files > 0 => audit.scanned > 0 /\ audit.static # "rejected"
  BY <1>6 DEF ScannedCount, IsAudit, IsScan
<1>8. \A source \in {"static", "deps"} : <<source, "high">> \notin AllIssues
  <2>1. Rank("high") >= Rank(audit.least) /\ Rank("high") >= Rank("high")
    BY RankFacts DEF IsAudit, IsScan
  <2> QED BY <1>6, <2>1 DEF Reported
<1>9. "high" \notin audit.found
  <2>1. CASE audit.static = "rejected"
    BY <1>7, <2>1 DEF IsAudit, IsScan
  <2>2. CASE audit.static # "rejected"
    BY <1>8, <2>2 DEF AllIssues, StaticIssues
  <2> QED BY <2>1, <2>2
<1>10. audit.deps \in {"ok", "not_applicable"} /\ "high" \notin audit.depsFound
  <2>1. audit.deps # "running"
    BY DEF Publish, AllSettled
  <2>2. "high" \notin audit.depsFound
    BY <1>8 DEF AllIssues
  <2> QED BY <1>6, <2>1, <2>2 DEF DepsStatus, IsAudit, IsDeps
<1> QED BY <1>7, <1>9, <1>10 DEF IsAudit, IsDeps

\* The counts and findings of the audit under way belong together, and the last
\* report is about one.
THEOREM AuditInvariant == AuditSpec => []AuditInv
<1>1. AuditInit => AuditInv
  BY DEF AuditInit, AuditInv, AcceptedWasAudited, Accepted
<1>2. AuditInv /\ [AuditNext]_auditVars => AuditInv'
  <2> SUFFICES ASSUME AuditInv, [AuditNext]_auditVars PROVE AuditInv'
    OBVIOUS
  <2>0. audit # NoAudit => audit.pc = "running" /\ IsAudit(audit)
    BY DEF AuditInv
  <2>1. CASE UNCHANGED auditVars
    BY <2>1 DEF auditVars, AuditInv, AcceptedWasAudited, Accepted
  <2>2. CASE StartAudit
    <3>1. PICK size \in 0..MaxFiles, kind \in Package, least \in {"low", "high"} :
            audit' = [pc |-> "running", files |-> size, kind |-> kind, least |-> least,
                      left |-> size, scanned |-> 0, found |-> {}, static |-> "running",
                      deps |-> "running", depsFound |-> {}, llm |-> "running", llmFound |-> {}]
      BY <2>2 DEF StartAudit
    <3> PICK a : a = [pc |-> "running", files |-> size, kind |-> kind, least |-> least,
                      left |-> size, scanned |-> 0, found |-> {}, static |-> "running",
                      deps |-> "running", depsFound |-> {}, llm |-> "running", llmFound |-> {}]
      OBVIOUS
    <3>2. AuditShape(a)
      BY DEF AuditShape
    <3>3. IsScan(a) /\ IsDeps(a) /\ a.pc = "running"
      BY AuditAssumption DEF IsScan, IsDeps
    <3> QED BY <2>2, <3>1, <3>2, <3>3, AuditGoesOn DEF IsAudit, StartAudit
  <2>3. ASSUME NEW outcome \in Outcomes, ScanFile(outcome) PROVE AuditInv'
    <3>0. audit.pc = "running" /\ audit.left > 0 /\ UNCHANGED report
      BY <2>3 DEF ScanFile
    <3>1. IsAudit(audit)
      BY <2>0, <3>0 DEF NoAudit
    <3>2. ASSUME NEW found \in Findings,
                 audit' = [audit EXCEPT !.left = @ - 1, !.scanned = @ + 1, !.found = @ \cup found]
          PROVE  AuditInv'
      <4> PICK a : a = [audit EXCEPT !.left = @ - 1, !.scanned = @ + 1, !.found = @ \cup found]
        OBVIOUS
      <4>1. /\ AuditShape(a) /\ a.pc = audit.pc /\ a.files = audit.files /\ a.least = audit.least
            /\ a.left = audit.left - 1 /\ a.scanned = audit.scanned + 1
            /\ a.deps = audit.deps /\ a.kind = audit.kind /\ a.depsFound = audit.depsFound
        BY <3>1 DEF IsAudit, AuditShape
      <4>2. IsScan(a)
        BY <3>0, <3>1, <4>1 DEF IsAudit, IsScan
      <4>3. IsDeps(a)
        BY <3>1, <4>1, DepsKept DEF IsAudit
      <4> QED BY <3>0, <3>2, <4>1, <4>2, <4>3, AuditGoesOn DEF IsAudit
    <3>3. CASE audit' = [audit EXCEPT !.left = @ - 1]
      <4> PICK a : a = [audit EXCEPT !.left = @ - 1]
        OBVIOUS
      <4>1. /\ AuditShape(a) /\ a.pc = audit.pc /\ a.files = audit.files /\ a.least = audit.least
            /\ a.left = audit.left - 1 /\ a.scanned = audit.scanned /\ a.found = audit.found
            /\ a.deps = audit.deps /\ a.kind = audit.kind /\ a.depsFound = audit.depsFound
        BY <3>1 DEF IsAudit, AuditShape
      <4>2. IsScan(a)
        BY <3>0, <3>1, <4>1 DEF IsAudit, IsScan
      <4>3. IsDeps(a)
        BY <3>1, <4>1, DepsKept DEF IsAudit
      <4> QED BY <3>0, <3>3, <4>1, <4>2, <4>3, AuditGoesOn DEF IsAudit
    <3> QED BY <2>3, <3>2, <3>3 DEF ScanFile
  <2>4. CASE StaticEnds \/ AskModel \/ Rejects("llm")
    <3>0. audit.pc = "running" /\ UNCHANGED report
      BY <2>4 DEF StaticEnds, AskModel, Rejects
    <3>1. IsAudit(audit)
      BY <2>0, <3>0 DEF NoAudit
    <3> PICK a : a = audit'
      OBVIOUS
    <3>2. /\ AuditShape(a) /\ a.pc = audit.pc /\ a.files = audit.files /\ a.least = audit.least
          /\ a.left = audit.left /\ a.scanned = audit.scanned /\ a.found = audit.found
          /\ a.deps = audit.deps /\ a.kind = audit.kind /\ a.depsFound = audit.depsFound
      <4>1. CASE StaticEnds
        <5>1. PICK static : a = [audit EXCEPT !.static = static]
          BY <4>1 DEF StaticEnds
        <5> QED BY <3>1, <5>1 DEF IsAudit, AuditShape
      <4>2. CASE AskModel
        <5>1. PICK found : a = [audit EXCEPT !.llm = "ended", !.llmFound = found]
          BY <4>2 DEF AskModel
        <5> QED BY <3>1, <5>1 DEF IsAudit, AuditShape
      <4>3. CASE Rejects("llm")
        <5>1. a = [audit EXCEPT !.llm = "rejected"]
          BY <4>3 DEF Rejects
        <5> QED BY <3>1, <5>1 DEF IsAudit, AuditShape
      <4> QED BY <2>4, <4>1, <4>2, <4>3
    <3>3. IsScan(a) /\ IsDeps(a)
      BY <3>1, <3>2, ScanKept, DepsKept DEF IsAudit
    <3> QED BY <3>0, <3>2, <3>3, AuditGoesOn DEF IsAudit
  <2>5. CASE AuditDeps \/ Rejects("deps")
    <3>0. audit.pc = "running" /\ audit.deps = "running" /\ UNCHANGED report
      BY <2>5 DEF AuditDeps, Rejects
    <3>1. IsAudit(audit)
      BY <2>0, <3>0 DEF NoAudit
    <3> PICK a : a = audit'
      OBVIOUS
    <3>2. \/ a = [audit EXCEPT !.deps = "unavailable"]
          \/ audit.kind = "none" /\ a = [audit EXCEPT !.deps = "not_applicable"]
          \/ \E found : a = [audit EXCEPT !.deps = "ok", !.depsFound = found]
          \/ a = [audit EXCEPT !.deps = "rejected"]
          \/ a = audit
      <4>1. CASE AuditDeps
        BY <4>1 DEF AuditDeps, DepsRun
      <4>2. CASE Rejects("deps")
        BY <4>2 DEF Rejects
      <4> QED BY <2>5, <4>1, <4>2
    <3>3. /\ AuditShape(a) /\ a.pc = audit.pc /\ a.files = audit.files /\ a.least = audit.least
          /\ a.left = audit.left /\ a.scanned = audit.scanned /\ a.found = audit.found
      BY <3>1, <3>2 DEF IsAudit, AuditShape
    <3>4. IsDeps(a)
      BY <3>0, <3>1, <3>2 DEF IsAudit, IsDeps, AuditShape
    <3>5. IsScan(a)
      BY <3>1, <3>3, ScanKept DEF IsAudit
    <3> QED BY <3>0, <3>3, <3>4, <3>5, AuditGoesOn DEF IsAudit
  <2>6. CASE Publish
    <3>1. AcceptedWasAudited'
      BY <2>0, <2>6, ReportIsHonest DEF Publish, NoAudit
    <3> QED BY <2>6, <3>1 DEF AuditInv, Publish
  <2> QED BY <2>1, <2>2, <2>3, <2>4, <2>5, <2>6 DEF AuditNext
<1> QED BY <1>1, <1>2, PTL DEF AuditSpec

\* A report that the security channel accepts stands for an audit that looked
\* (security.ts): a rejected analyzer, a skipped file or a missing tool never
\* passes for "found nothing".
THEOREM AcceptedLooked == AuditSpec => []AcceptedWasAudited
  BY AuditInvariant, PTL DEF AuditInv

-----------------------------------------------------------------------------
(* AgentWork.  A try runs its installation and then its command, so what   *)
(* the children of the try are follows from how far the job has come; who  *)
(* has answered with success leaves its children as they are, since no     *)
(* later step of anyone belongs to that try.                               *)

LifeOf(q, t, s) == children[<<q, t, s>>].life
InTime(c) == children[c].life = "none" \/ (children[c].life = "running" /\ children[c].killed = FALSE)
WellEnded(c) == children[c].life = "none" \/ (children[c].life = "ended" /\ children[c].code = "zero")
Good(q, t) ==
  /\ WellEnded(<<q, t, "install">>) /\ WellEnded(<<q, t, "run">>)
  /\ children[<<q, t, "run">>].killed = FALSE
Unstarted(q, t) == \A s \in Stages : LifeOf(q, t, s) = "none"

IsJob(j) ==
  /\ j = [x \in {"at", "kind", "req", "try", "say", "plan", "left"} |-> j[x]]
  /\ j.req \in Requests /\ j.try \in 1..MaxTries /\ j.say \in Terminal
  /\ j.kind \in {"check", "query", "think"}
  /\ j.at \in {"check", "query", "think", "install", "run", "apply", "rename", "reply", "error"}
ComesSoFar(j) ==
  /\ j.at \in {"check", "query", "think", "apply", "rename"} => Unstarted(j.req, j.try)
  /\ j.at = "install" => LifeOf(j.req, j.try, "run") = "none" /\ InTime(<<j.req, j.try, "install">>)
  /\ j.at = "run" => InTime(<<j.req, j.try, "run">>) /\ WellEnded(<<j.req, j.try, "install">>)
  /\ j.at = "reply" /\ j.say = "complete" => Good(j.req, j.try)
Works == job # NoJob => IsJob(job) /\ job.req \notin waiting /\ ComesSoFar(job)

IsChild(v) ==
  /\ v = [x \in {"life", "code", "killed", "timer", "sigkill"} |-> v[x]]
  /\ v.life = "none" => v.killed = FALSE
ChildShapes == children = [c \in ChildIds |-> children[c]] /\ \A c \in ChildIds : IsChild(children[c])

\* No try starts a command before its turn.
StartsInTurn ==
  \A q \in Requests, t \in 1..MaxTries, s \in Stages :
    LifeOf(q, t, s) # "none" => q \notin waiting /\ (job # NoJob /\ job.req = q => t <= job.try)

Answers == [what : Terminal, try : 1..MaxTries]
AnswerOK(q, a) ==
  /\ q \notin waiting
  /\ job # NoJob /\ job.req = q => a.try < job.try \/ (a.try = job.try /\ job.at = "error")
  /\ a.what = "complete" => Good(q, a.try)
AnswersOK ==
  /\ replies \in [Requests -> Seq(Answers)]
  /\ \A q \in Requests : \A i \in DOMAIN replies[q] : AnswerOK(q, replies[q][i])

WorkInv ==
  /\ waiting \subseteq Requests /\ Works /\ ChildShapes /\ StartsInTurn /\ AnswersOK
  /\ RequestsAnswered

LEMMA AnswerAppended ==
  ASSUME NEW S, NEW s \in Seq(S), NEW e \in S
  PROVE  /\ Append(s, e) \in Seq(S)
         /\ \A i \in DOMAIN s : i \in DOMAIN Append(s, e) /\ Append(s, e)[i] = s[i]
         /\ \A i \in DOMAIN Append(s, e) : Append(s, e)[i] = e \/ (i \in DOMAIN s /\ Append(s, e)[i] = s[i])
         /\ \E i \in DOMAIN Append(s, e) : Append(s, e)[i] = e
<1>1. Append(s, e) \in Seq(S) /\ Len(Append(s, e)) = Len(s) + 1 /\ Len(s) \in Nat
      /\ Append(s, e)[Len(s) + 1] = e /\ \A i \in 1..Len(s) : Append(s, e)[i] = s[i]
  OBVIOUS
<1>2. DOMAIN s = 1..Len(s) /\ DOMAIN Append(s, e) = 1..Len(s) + 1
  BY <1>1
<1>3. Len(s) + 1 \in DOMAIN Append(s, e)
  BY <1>1, <1>2
<1>4. \A i \in 1..Len(s) + 1 : i = Len(s) + 1 \/ i \in 1..Len(s)
  BY <1>1
<1> QED BY <1>1, <1>2, <1>3, <1>4

(* What the children are matters to the invariant, and nothing else.       *)
LEMMA GoodKept ==
  ASSUME NEW q \in Requests, NEW t \in 1..MaxTries, Good(q, t),
         \A s \in Stages : children'[<<q, t, s>>].life = children[<<q, t, s>>].life
                        /\ children'[<<q, t, s>>].code = children[<<q, t, s>>].code
                        /\ children'[<<q, t, s>>].killed = children[<<q, t, s>>].killed
  PROVE  Good(q, t)'
  BY DEF Good, WellEnded, Stages

LEMMA AnswerTyped ==
  ASSUME AnswersOK, NEW q \in Requests, NEW i \in DOMAIN replies[q]
  PROVE  replies[q][i].try \in 1..MaxTries /\ replies[q][i].what \in Terminal
<1>1. replies[q] \in Seq(Answers)
  BY DEF AnswersOK
<1>2. replies[q][i] \in Answers
  BY <1>1
<1> QED BY <1>2 DEF Answers

LEMMA JobIsBusy ==
  ASSUME NEW j, IsJob(j)
  PROVE  j # NoJob
<1>1. NoJob.at = "idle"
  BY DEF NoJob
<1> QED BY <1>1 DEF IsJob

LEMMA FreshJob ==
  ASSUME NEW q \in Requests, NEW t \in 1..MaxTries, NEW pc \in {"check", "query", "think"},
         NEW j, j = Fresh(q, t, pc)
  PROVE  IsJob(j) /\ j.req = q /\ j.try = t /\ j.at = pc
<1>1. j = [at |-> pc, kind |-> pc, req |-> q, try |-> t, say |-> "error", plan |-> <<>>, left |-> <<>>]
  BY DEF Fresh
<1>2. j = [x \in {"at", "kind", "req", "try", "say", "plan", "left"} |-> j[x]]
  BY <1>1
<1> QED BY <1>1, <1>2 DEF IsJob, Terminal

(* Nothing is started or answered, and the job becomes j.  Fits says that  *)
(* no answer and no command belongs to a later try than that of j.         *)
Fits(j) ==
  /\ IsJob(j) /\ ComesSoFar(j)
  /\ \A i \in DOMAIN replies[j.req] :
       replies[j.req][i].try < j.try \/ (replies[j.req][i].try = j.try /\ j.at = "error")
  /\ \A t \in 1..MaxTries, s \in Stages : LifeOf(j.req, t, s) # "none" => t <= j.try

LEMMA JobChanges ==
  ASSUME WorkInv, UNCHANGED <<children, replies>>, waiting' \subseteq waiting, NEW j, job' = j,
         j # NoJob => Fits(j) /\ j.req \notin waiting', RequestsAnswered'
  PROVE  WorkInv'
<1>1. Works' /\ ChildShapes'
  BY DEF WorkInv, Works, Fits, ComesSoFar, ChildShapes, LifeOf, InTime, WellEnded,
         Good, Unstarted, IsChild
<1>2. StartsInTurn'
  BY DEF WorkInv, StartsInTurn, Fits, LifeOf
<1>3. ASSUME NEW q \in Requests, NEW i \in DOMAIN replies[q] PROVE AnswerOK(q, replies[q][i])'
  BY <1>3 DEF WorkInv, AnswersOK, AnswerOK, Good, WellEnded, Fits
<1>4. AnswersOK'
  BY <1>3 DEF WorkInv, AnswersOK
<1> QED BY <1>1, <1>2, <1>4 DEF WorkInv

(* The job goes on within its try.                                         *)
LEMMA JobGoesOn ==
  ASSUME WorkInv, UNCHANGED <<children, replies, waiting, dropped>>, job # NoJob, job.at # "error",
         NEW j, job' = j, IsJob(j), j.req = job.req, j.try = job.try, ComesSoFar(j)
  PROVE  WorkInv'
<1>1. Fits(j)
  BY DEF WorkInv, Works, IsJob, Fits, AnswersOK, AnswerOK, StartsInTurn
<1>2. RequestsAnswered'
  <2>1. j # NoJob
    BY JobIsBusy
  <2>2. \A q \in Requests : \A what \in Terminal : Says(q, what)' <=> Says(q, what)
    BY DEF Says
  <2> QED BY <2>1, <2>2 DEF WorkInv, RequestsAnswered
<1> QED BY <1>1, <1>2, JobChanges DEF WorkInv, Works

(* The handler has thrown.                                                 *)
LEMMA TryEnds ==
  ASSUME WorkInv, UNCHANGED <<children, replies, waiting>>, job # NoJob, Again
  PROVE  WorkInv'
<1>0. IsJob(job) /\ job.req \notin waiting /\ job.try \in Nat /\ MaxTries \in Nat
  BY WorkAssumption DEF WorkInv, Works, IsJob
<1>1. \A q \in Requests : \A what \in Terminal : Says(q, what)' <=> Says(q, what)
  BY DEF Says
<1>2. CASE job.try < MaxTries
  <2> PICK j : j = Fresh(job.req, job.try + 1, job.kind)
    OBVIOUS
  <2>1. job' = j /\ UNCHANGED dropped
    BY <1>2 DEF Again, Become
  <2>2. job.try + 1 \in 1..MaxTries
    BY <1>0, <1>2
  <2>3. IsJob(j) /\ j.req = job.req /\ j.try = job.try + 1 /\ j.at = job.kind
    BY <1>0, <2>2, FreshJob DEF IsJob
  <2>4. Unstarted(j.req, j.try)
    BY <1>0, <2>2, <2>3 DEF WorkInv, StartsInTurn, Unstarted, IsJob, LifeOf
  <2>5. ComesSoFar(j)
    BY <1>0, <2>3, <2>4 DEF ComesSoFar, IsJob
  <2>6. \A i \in DOMAIN replies[j.req] : replies[j.req][i].try < j.try
    <3> TAKE i \in DOMAIN replies[j.req]
    <3>1. replies[j.req][i].try \in 1..MaxTries
      BY <1>0, <2>3, AnswerTyped DEF WorkInv, IsJob
    <3>2. replies[j.req][i].try < job.try \/ replies[j.req][i].try = job.try
      BY <1>0, <2>3 DEF WorkInv, AnswersOK, AnswerOK, IsJob
    <3> QED BY <1>0, <2>3, <3>1, <3>2
  <2>7. \A t \in 1..MaxTries, s \in Stages : LifeOf(j.req, t, s) # "none" => t <= j.try
    BY <1>0, <2>3 DEF WorkInv, StartsInTurn, IsJob
  <2>8. Fits(j)
    BY <2>3, <2>5, <2>6, <2>7 DEF Fits
  <2>9. RequestsAnswered'
    BY <1>1, <2>1, <2>3, JobIsBusy DEF WorkInv, RequestsAnswered
  <2> QED BY <1>0, <2>1, <2>3, <2>8, <2>9, JobChanges
<1>3. CASE ~(job.try < MaxTries)
  <2>1. job' = NoJob /\ dropped' = dropped \cup {job.req}
    BY <1>3 DEF Again, Become
  <2>2. RequestsAnswered'
    BY <1>1, <2>1 DEF WorkInv, RequestsAnswered
  <2> QED BY <2>1, <2>2, JobChanges
<1> QED BY <1>2, <1>3

(* The reply with what job.say says, with or without the publish known to  *)
(* have succeeded; or the error reply.                                     *)
LEMMA JobReplies ==
  ASSUME WorkInv, UNCHANGED <<children, waiting, dropped>>, job # NoJob, NEW what \in Terminal,
         Reply(job.req, what, job.try), what = "complete" => Good(job.req, job.try),
         job' = NoJob \/ job' = JobAt("error")
  PROVE  WorkInv'
<1> PICK a, q : a = [what |-> what, try |-> job.try] /\ q = job.req
  OBVIOUS
<1>1. IsJob(job) /\ q \notin waiting /\ q \in Requests
  BY DEF WorkInv, Works, IsJob
<1>2. a \in Answers /\ a.what = what /\ a.try = job.try
  BY <1>1 DEF Answers, IsJob
<1>3. /\ replies \in [Requests -> Seq(Answers)]
      /\ replies' = [replies EXCEPT ![q] = Append(@, a)]
  BY DEF Reply, WorkInv, AnswersOK
<1>4. /\ Append(replies[q], a) \in Seq(Answers)
      /\ \A i \in DOMAIN replies[q] :
           i \in DOMAIN Append(replies[q], a) /\ Append(replies[q], a)[i] = replies[q][i]
      /\ \A i \in DOMAIN Append(replies[q], a) :
           \/ Append(replies[q], a)[i] = a
           \/ i \in DOMAIN replies[q] /\ Append(replies[q], a)[i] = replies[q][i]
      /\ \E i \in DOMAIN Append(replies[q], a) : Append(replies[q], a)[i] = a
  BY <1>1, <1>2, <1>3, AnswerAppended
<1>5. /\ replies'[q] = Append(replies[q], a)
      /\ \A r \in Requests \ {q} : replies'[r] = replies[r]
      /\ replies' \in [Requests -> Seq(Answers)]
  BY <1>1, <1>3, <1>4
<1>6. job' = NoJob \/ (IsJob(job') /\ job'.req = q /\ job'.try = job.try /\ job'.at = "error")
  <2> PICK j : j = [job EXCEPT !.at = "error"]
    OBVIOUS
  <2>1. IsJob(j) /\ j.req = q /\ j.try = job.try /\ j.at = "error"
    BY <1>1 DEF IsJob
  <2> QED BY <2>1 DEF JobAt
<1>7. Works' /\ ChildShapes' /\ StartsInTurn'
  <2>1. Works'
    BY <1>1, <1>6 DEF Works, ComesSoFar
  <2>2. ChildShapes'
    BY DEF WorkInv, ChildShapes, IsChild
  <2>3. StartsInTurn'
    BY <1>1, <1>6 DEF WorkInv, StartsInTurn, LifeOf
  <2> QED BY <2>1, <2>2, <2>3
<1>8. \A r \in Requests, t \in 1..MaxTries : Good(r, t)' <=> Good(r, t)
  BY DEF Good, WellEnded
<1>9. ASSUME NEW r \in Requests, NEW b \in Answers, AnswerOK(r, b)
      PROVE  AnswerOK(r, b)'
  BY <1>1, <1>6, <1>8, <1>9 DEF AnswerOK, Answers
<1>10. AnswerOK(q, a)'
  BY <1>1, <1>2, <1>6, <1>8 DEF AnswerOK, IsJob
<1>11. AnswersOK'
  <2>1. ASSUME NEW r \in Requests, NEW i \in DOMAIN replies'[r]
        PROVE  \E b : AnswerOK(r, b)' /\ b = replies'[r][i]
    <3>1. CASE replies'[r][i] = a /\ r = q
      BY <1>10, <3>1
    <3>2. CASE ~(replies'[r][i] = a /\ r = q)
      <4>1. i \in DOMAIN replies[r] /\ replies'[r][i] = replies[r][i]
        BY <1>4, <1>5, <2>1, <3>2
      <4> PICK b : b = replies[r][i]
        OBVIOUS
      <4>2. AnswerOK(r, b)
        BY <4>1 DEF WorkInv, AnswersOK
      <4>3. replies[r] \in Seq(Answers)
        BY DEF WorkInv, AnswersOK
      <4>4. b \in Answers
        BY <4>1, <4>3
      <4>5. AnswerOK(r, b)'
        BY <4>2, <4>4, <1>9
      <4> QED BY <4>1, <4>5
    <3> QED BY <3>1, <3>2
  <2>2. ASSUME NEW r \in Requests, NEW i \in DOMAIN replies'[r] PROVE AnswerOK(r, replies[r][i])'
    <3>1. PICK b : AnswerOK(r, b)' /\ b = replies'[r][i]
      BY <2>1, <2>2
    <3> QED BY <3>1 DEF AnswerOK
  <2> QED BY <1>5, <2>2 DEF AnswersOK
<1>12. RequestsAnswered'
  <2>1. Says(q, what)'
    BY <1>2, <1>4, <1>5 DEF Says
  <2>2. ASSUME NEW r \in Requests \ {q} PROVE \A w \in Terminal : Says(r, w)' <=> Says(r, w)
    BY <1>5 DEF Says
  <2>3. \A r \in Requests \ {q} : ~(job # NoJob /\ job.req = r)
    OBVIOUS
  <2> QED BY <2>1, <2>2, <2>3 DEF WorkInv, RequestsAnswered
<1> QED BY <1>7, <1>11, <1>12 DEF WorkInv

(* Nothing but the timers of commands changes.                             *)
LEMMA TimersOnly ==
  ASSUME WorkInv, UNCHANGED <<replies, waiting>>, ChildShapes',
         \A c \in ChildIds : /\ children'[c].life = children[c].life
                            /\ children'[c].code = children[c].code
                            /\ children'[c].killed = children[c].killed,
         \/ UNCHANGED <<job, dropped>>
         \/ job # NoJob /\ job' = NoJob /\ dropped' = dropped \cup {job.req}
  PROVE  WorkInv'
<1>1. \A q \in Requests, t \in 1..MaxTries, s \in Stages : <<q, t, s>> \in ChildIds
  BY DEF ChildIds
<1>2. ASSUME NEW q \in Requests, NEW t \in 1..MaxTries, NEW s \in Stages
      PROVE  /\ LifeOf(q, t, s)' = LifeOf(q, t, s)
             /\ InTime(<<q, t, s>>)' <=> InTime(<<q, t, s>>)
             /\ WellEnded(<<q, t, s>>)' <=> WellEnded(<<q, t, s>>)
             /\ children'[<<q, t, s>>].killed = children[<<q, t, s>>].killed
  <2> PICK c : c = <<q, t, s>>
    OBVIOUS
  <2>1. c \in ChildIds
    BY <1>1
  <2>2. /\ children'[c].life = children[c].life /\ children'[c].code = children[c].code
        /\ children'[c].killed = children[c].killed
    BY <2>1
  <2> QED BY <2>2 DEF LifeOf, InTime, WellEnded
<1>3. ASSUME NEW q \in Requests, NEW t \in 1..MaxTries
      PROVE  (Good(q, t)' <=> Good(q, t)) /\ (Unstarted(q, t)' <=> Unstarted(q, t))
  BY <1>2 DEF Good, Unstarted, Stages
<1>4. Works'
  <2>1. CASE job' = NoJob
    BY <2>1 DEF Works
  <2>2. CASE job' = job /\ job # NoJob
    <3>1. IsJob(job) /\ job.req \notin waiting /\ ComesSoFar(job)
      BY <2>2 DEF WorkInv, Works
    <3> PICK j : j = job
      OBVIOUS
    <3>2. j.req \in Requests /\ j.try \in 1..MaxTries
      BY <3>1 DEF IsJob
    <3>3. ComesSoFar(j)'
      BY <1>2, <1>3, <3>1, <3>2 DEF ComesSoFar, Stages
    <3>4. ComesSoFar(job)'
      BY <2>2, <3>3 DEF ComesSoFar
    <3> QED BY <2>2, <3>1, <3>4 DEF Works
  <2> QED BY <2>1, <2>2
<1>5. StartsInTurn'
  <2> SUFFICES ASSUME NEW q \in Requests, NEW t \in 1..MaxTries, NEW s \in Stages,
                      LifeOf(q, t, s)' # "none"
               PROVE  q \notin waiting' /\ (job' # NoJob /\ job'.req = q => t <= job'.try)
    BY DEF StartsInTurn
  <2>1. LifeOf(q, t, s) # "none"
    BY <1>2
  <2> QED BY <2>1 DEF WorkInv, StartsInTurn
<1>6. AnswersOK'
  <2>1. ASSUME NEW q \in Requests, NEW i \in DOMAIN replies[q] PROVE AnswerOK(q, replies[q][i])'
    <3> PICK b : b = replies[q][i]
      OBVIOUS
    <3>1. AnswerOK(q, b) /\ b.try \in 1..MaxTries
      BY <2>1, AnswerTyped DEF WorkInv, AnswersOK
    <3>2. AnswerOK(q, b)'
      BY <1>3, <3>1 DEF AnswerOK
    <3> QED BY <3>2 DEF AnswerOK
  <2> QED BY <2>1 DEF WorkInv, AnswersOK
<1>7. RequestsAnswered'
  BY DEF WorkInv, RequestsAnswered, Says
<1> QED BY <1>4, <1>5, <1>6, <1>7 DEF WorkInv

(* One command changes, in a try that no successful answer belongs to: it  *)
(* is running, or the job is at it.                                        *)
Moves(q, t, s, v, j) ==
  /\ UNCHANGED <<replies, waiting, dropped>> /\ IsChild(v) /\ job' = j
  /\ children' = [children EXCEPT ![<<q, t, s>>] = v]
  /\ LifeOf(q, t, s) = "running" \/ (job # NoJob /\ q = job.req /\ t = job.try /\ job.at \in Stages)
  /\ \/ j = job
     \/ job # NoJob /\ IsJob(j) /\ j.req = job.req /\ j.try = job.try /\ job.at # "error"

LEMMA CommandMoves ==
  ASSUME WorkInv, NEW q \in Requests, NEW t \in 1..MaxTries, NEW s \in Stages, NEW v, NEW j,
         Moves(q, t, s, v, j), j # NoJob => ComesSoFar(j)'
  PROVE  WorkInv'
<1> USE DEF Moves
<1>0. /\ \A d \in ChildIds : children'[d] = IF d = <<q, t, s>> THEN v ELSE children[d]
      /\ \A x \in Requests, y \in 1..MaxTries, z \in Stages : <<x, y, z>> \in ChildIds
      /\ ChildShapes'
  BY DEF WorkInv, ChildShapes, ChildIds
<1>1. q \notin waiting /\ (job # NoJob /\ job.req = q => t <= job.try)
  BY DEF WorkInv, StartsInTurn, Works, IsJob
<1>2. Works'
  <2>1. j # NoJob => IsJob(j) /\ j.req \notin waiting'
    BY DEF WorkInv, Works
  <2>2. j # NoJob => ComesSoFar(job)'
    BY DEF ComesSoFar
  <2> QED BY <2>1, <2>2 DEF Works
<1>3. StartsInTurn'
  <2> SUFFICES ASSUME NEW x \in Requests, NEW y \in 1..MaxTries, NEW z \in Stages,
                      LifeOf(x, y, z)' # "none"
               PROVE  x \notin waiting' /\ (job' # NoJob /\ job'.req = x => y <= job'.try)
    BY DEF StartsInTurn
  <2>1. (x = q /\ y = t) \/ LifeOf(x, y, z) # "none"
    BY <1>0 DEF LifeOf
  <2>2. x \notin waiting /\ (job # NoJob /\ job.req = x => y <= job.try)
    BY <1>1, <2>1 DEF WorkInv, StartsInTurn
  <2> QED BY <2>2
<1>4. AnswersOK'
  <2>1. ASSUME NEW x \in Requests, NEW i \in DOMAIN replies[x] PROVE AnswerOK(x, replies[x][i])'
    <3> PICK b : b = replies[x][i]
      OBVIOUS
    <3>1. AnswerOK(x, b) /\ b.try \in 1..MaxTries
      BY <2>1, AnswerTyped DEF WorkInv, AnswersOK
    <3>2. b.what = "complete" => ~(x = q /\ b.try = t)
      <4> SUFFICES ASSUME b.what = "complete", x = q, b.try = t PROVE FALSE
        OBVIOUS
      <4>1. Good(q, t)
        BY <3>1 DEF AnswerOK
      <4>2. LifeOf(q, t, s) # "running"
        BY <4>1 DEF Good, WellEnded, LifeOf, Stages
      <4>3. job # NoJob /\ q = job.req /\ t = job.try /\ job.at \in Stages
        BY <4>2
      <4>4. job.at = "error"
        BY <3>1, <4>3 DEF AnswerOK
      <4> QED BY <4>3, <4>4 DEF Stages
    <3>3. b.what = "complete" => Good(x, b.try)'
      <4> SUFFICES ASSUME b.what = "complete" PROVE Good(x, b.try)'
        OBVIOUS
      <4>1. Good(x, b.try)
        BY <3>1 DEF AnswerOK
      <4>2. \A z \in Stages : children'[<<x, b.try, z>>] = children[<<x, b.try, z>>]
        BY <1>0, <3>1, <3>2
      <4> QED BY <3>1, <4>1, <4>2, GoodKept
    <3>4. job' # NoJob /\ job'.req = x => b.try < job'.try \/ (b.try = job'.try /\ job'.at = "error")
      BY <3>1 DEF AnswerOK
    <3>5. AnswerOK(x, b)'
      BY <3>1, <3>3, <3>4 DEF AnswerOK
    <3> QED BY <3>5 DEF AnswerOK
  <2> QED BY <2>1 DEF WorkInv, AnswersOK
<1>5. RequestsAnswered'
  <2>1. \A x \in Requests : \A what \in Terminal : Says(x, what)' <=> Says(x, what)
    BY DEF Says
  <2>2. \A x \in Requests : job # NoJob /\ job.req = x => job' # NoJob /\ job'.req = x
    BY JobIsBusy
  <2> QED BY <2>1, <2>2 DEF WorkInv, RequestsAnswered
<1> QED BY <1>0, <1>2, <1>3, <1>4, <1>5 DEF WorkInv

LEMMA JobEdited ==
  ASSUME NEW j, IsJob(j), NEW at, NEW k, k = [j EXCEPT !.at = at],
         at \in {"check", "query", "think", "install", "run", "apply", "rename", "reply", "error"}
  PROVE  IsJob(k) /\ k.req = j.req /\ k.try = j.try /\ k.say = j.say /\ k.at = at
  BY DEF IsJob

(* The commands of Builder and Tester.                                     *)
LEMMA SpawnKeeps == WorkInv /\ Spawn => WorkInv'
<1> SUFFICES ASSUME WorkInv, Spawn PROVE WorkInv'
  OBVIOUS
<1> PICK q, t, s : q = job.req /\ t = job.try /\ s = job.at
  OBVIOUS
<1>1. /\ s \in Stages /\ LifeOf(q, t, s) = "none" /\ UNCHANGED <<role, waiting, replies, dropped>>
      /\ \/ children' = [children EXCEPT ![<<q, t, s>>].life = "running"] /\ UNCHANGED job
         \/ job' = JobAt("error") /\ UNCHANGED children
  BY DEF Spawn, Command, Child, LifeOf, Become
<1>2. job # NoJob
  BY <1>1 DEF NoJob, Stages
<1>3. IsJob(job) /\ ComesSoFar(job) /\ q \in Requests /\ t \in 1..MaxTries
  BY <1>2 DEF WorkInv, Works, IsJob
<1>4. CASE children' = [children EXCEPT ![<<q, t, s>>].life = "running"] /\ UNCHANGED job
  <2>1. <<q, t, s>> \in ChildIds /\ IsChild(children[<<q, t, s>>])
    BY <1>1, <1>3 DEF ChildIds, WorkInv, ChildShapes
  <2> PICK v : v = [children[<<q, t, s>>] EXCEPT !.life = "running"]
    OBVIOUS
  <2>2. IsChild(v) /\ v.life = "running" /\ v.killed = FALSE
    BY <1>1, <2>1 DEF IsChild, LifeOf
  <2>3. children' = [children EXCEPT ![<<q, t, s>>] = v]
    BY <1>4
  <2>4. \A z \in Stages : children'[<<q, t, z>>] = IF z = s THEN v ELSE children[<<q, t, z>>]
    BY <1>3, <2>3 DEF WorkInv, ChildShapes, ChildIds
  <2> PICK j : j = job
    OBVIOUS
  <2>5. ComesSoFar(j)'
    BY ZenonT(40), <1>1, <1>3, <2>2, <2>4 DEF ComesSoFar, Stages, LifeOf, InTime, WellEnded
  <2>6. Moves(q, t, s, v, j)
    BY <1>1, <1>2, <1>4, <2>2, <2>3 DEF Moves
  <2> QED BY <1>1, <1>3, <2>5, <2>6, CommandMoves
<1>5. CASE job' = JobAt("error") /\ UNCHANGED children
  <2> PICK j : j = JobAt("error")
    OBVIOUS
  <2>1. IsJob(j) /\ j.req = job.req /\ j.try = job.try /\ j.at = "error"
    BY <1>3, JobEdited DEF JobAt
  <2> QED BY <1>1, <1>2, <1>5, <2>1, JobGoesOn DEF ComesSoFar, Stages
<1> QED BY <1>1, <1>4, <1>5

LEMMA TimesOutKeeps == WorkInv /\ TimesOut => WorkInv'
<1> SUFFICES ASSUME WorkInv, TimesOut PROVE WorkInv'
  OBVIOUS
<1> PICK q, t, s : q = job.req /\ t = job.try /\ s = job.at
  OBVIOUS
<1>1. /\ s \in Stages /\ LifeOf(q, t, s) = "running" /\ UNCHANGED <<role, waiting, replies, dropped>>
      /\ children' = [children EXCEPT ![<<q, t, s>>].killed = TRUE, ![<<q, t, s>>].timer = "armed"]
      /\ job' = JobAt("error")
  BY DEF TimesOut, Command, Child, LifeOf, Become
<1>2. job # NoJob
  BY <1>1 DEF NoJob, Stages
<1>3. IsJob(job) /\ q \in Requests /\ t \in 1..MaxTries
  BY <1>2 DEF WorkInv, Works, IsJob
<1>4. <<q, t, s>> \in ChildIds /\ IsChild(children[<<q, t, s>>])
  BY <1>1, <1>3 DEF ChildIds, WorkInv, ChildShapes
<1> PICK v : v = [children[<<q, t, s>>] EXCEPT !.killed = TRUE, !.timer = "armed"]
  OBVIOUS
<1>5. IsChild(v)
  BY <1>1, <1>4 DEF IsChild, LifeOf
<1>6. children' = [children EXCEPT ![<<q, t, s>>] = v]
  BY <1>1, <1>4 DEF WorkInv, ChildShapes
<1> PICK j : j = JobAt("error")
  OBVIOUS
<1>7. IsJob(j) /\ j.req = job.req /\ j.try = job.try /\ j.at = "error"
  BY <1>3, JobEdited DEF JobAt
<1>8. ComesSoFar(j)' /\ job.at # "error"
  BY <1>1, <1>7 DEF ComesSoFar, Stages
<1>9. Moves(q, t, s, v, j)
  BY <1>1, <1>2, <1>5, <1>6, <1>7, <1>8 DEF Moves
<1> QED BY <1>1, <1>3, <1>8, <1>9, CommandMoves

LEMMA ExitKeeps ==
  ASSUME WorkInv, NEW c \in ChildIds, Exit(c)
  PROVE  WorkInv'
<1>1. PICK q \in Requests, t \in 1..MaxTries, s \in Stages : c = <<q, t, s>>
  BY DEF ChildIds
<1>2. PICK code \in {"zero", "other"} :
        /\ children' = [children EXCEPT ![c].life = "ended", ![c].code = code,
                                        ![c].timer = IF @ = "armed" THEN "off" ELSE @]
        /\ IF Awaited(c)
           THEN job' = IF job.at = "install" THEN AfterInstall(code) ELSE AfterRun(code)
           ELSE UNCHANGED job
  BY DEF Exit, Become
<1>3. LifeOf(q, t, s) = "running" /\ UNCHANGED <<role, waiting, replies, dropped>>
  BY <1>1 DEF Exit, LifeOf
<1>4. IsChild(children[c])
  BY DEF WorkInv, ChildShapes
<1> PICK v : v = [children[c] EXCEPT !.life = "ended", !.code = code,
                                     !.timer = IF @ = "armed" THEN "off" ELSE @]
  OBVIOUS
<1>5. IsChild(v) /\ v.life = "ended" /\ v.code = code /\ v.killed = children[c].killed
  BY <1>4 DEF IsChild
<1>6. children' = [children EXCEPT ![<<q, t, s>>] = v]
  BY <1>1, <1>2, <1>4 DEF WorkInv, ChildShapes
<1>7. \A d \in ChildIds : children'[d] = IF d = c THEN v ELSE children[d]
  BY <1>1, <1>6 DEF WorkInv, ChildShapes
<1>8. CASE Awaited(c)
  <2>1. job.at \in Stages /\ q = job.req /\ t = job.try /\ s = job.at
    BY <1>1, <1>8 DEF Awaited, Command, Child
  <2>2. job # NoJob
    BY <2>1 DEF NoJob, Stages
  <2>3. IsJob(job) /\ ComesSoFar(job) /\ job.at # "error"
    BY <2>1, <2>2 DEF WorkInv, Works, Stages
  <2>4. \A z \in Stages : children'[<<q, t, z>>] = IF z = s THEN v ELSE children[<<q, t, z>>]
    BY <1>1, <1>7 DEF ChildIds
  <2> PICK j : j = IF job.at = "install" THEN AfterInstall(code) ELSE AfterRun(code)
    OBVIOUS
  <2>5. IsJob(j) /\ j.req = job.req /\ j.try = job.try /\ ComesSoFar(j)'
    <3>1. CASE job.at = "install"
      <4>1. j = [job EXCEPT !.at = IF code = "zero" THEN "run" ELSE "error"]
        BY <3>1 DEF AfterInstall, JobAt
      <4>2. /\ IsJob(j) /\ j.req = job.req /\ j.try = job.try
            /\ j.at = IF code = "zero" THEN "run" ELSE "error"
        BY <2>3, <4>1, JobEdited
      <4>3. LifeOf(q, t, "run") = "none"
        BY <2>1, <2>3, <3>1 DEF ComesSoFar
      <4>4. children'[<<q, t, "run">>].life = "none" /\ children'[<<q, t, "install">>] = v
        BY <2>1, <2>4, <3>1, <4>3 DEF Stages, LifeOf
      <4>5. code = "zero" => InTime(<<q, t, "run">>)' /\ WellEnded(<<q, t, "install">>)'
        BY <1>5, <4>4 DEF InTime, WellEnded
      <4>6. ComesSoFar(j)'
        BY <2>1, <4>2, <4>5 DEF ComesSoFar
      <4> QED BY <4>2, <4>6
    <3>2. CASE job.at = "run"
      <4> PICK k : k = [job EXCEPT !.at = "reply"]
        OBVIOUS
      <4>1. j = [k EXCEPT !.say = IF code = "zero" THEN "complete" ELSE "failed"]
        BY <3>2 DEF AfterRun, JobAt
      <4>2. IsJob(k) /\ k.req = job.req /\ k.try = job.try /\ k.at = "reply"
        BY <2>3, JobEdited
      <4>3. /\ IsJob(j) /\ j.req = job.req /\ j.try = job.try /\ j.at = "reply"
            /\ j.say = IF code = "zero" THEN "complete" ELSE "failed"
        BY <4>1, <4>2 DEF IsJob, Terminal
      <4>4. InTime(<<q, t, "run">>) /\ WellEnded(<<q, t, "install">>)
        BY <2>1, <2>3, <3>2 DEF ComesSoFar
      <4>5. v.killed = FALSE
        BY <1>1, <1>3, <1>5, <2>1, <3>2, <4>4 DEF InTime, LifeOf
      <4>6. code = "zero" => Good(q, t)'
        BY <1>5, <2>1, <2>4, <3>2, <4>4, <4>5 DEF Good, WellEnded, Stages
      <4>7. ComesSoFar(j)'
        BY <2>1, <4>3, <4>6 DEF ComesSoFar
      <4> QED BY <4>3, <4>7
    <3> QED BY <2>1, <3>1, <3>2 DEF Stages
  <2>6. Moves(q, t, s, v, j)
    BY <1>2, <1>3, <1>5, <1>6, <1>8, <2>2, <2>3, <2>5 DEF Moves
  <2> QED BY <2>5, <2>6, CommandMoves
<1>9. CASE ~Awaited(c)
  <2> PICK j : j = job
    OBVIOUS
  <2>1. j # NoJob => ComesSoFar(j)'
    <3> SUFFICES ASSUME j # NoJob PROVE ComesSoFar(j)'
      OBVIOUS
    <3>1. IsJob(j) /\ ComesSoFar(j) /\ j.req \in Requests /\ j.try \in 1..MaxTries
      BY DEF WorkInv, Works, IsJob
    <3>2. \A z \in Stages : children'[<<j.req, j.try, z>>] =
            IF <<j.req, j.try, z>> = c THEN v ELSE children[<<j.req, j.try, z>>]
      BY <1>7, <3>1 DEF ChildIds
    <3>3. \A z \in Stages : children'[<<j.req, j.try, z>>] = children[<<j.req, j.try, z>>]
                            \/ (children[<<j.req, j.try, z>>].life = "running" /\ z # j.at)
      BY <1>1, <1>3, <1>9, <3>2 DEF Awaited, Command, Child, LifeOf
    <3> QED BY <3>1, <3>3
            DEF ComesSoFar, Unstarted, LifeOf, InTime, WellEnded, Good, Stages
  <2>2. Moves(q, t, s, v, j)
    BY <1>2, <1>3, <1>5, <1>6, <1>9 DEF Moves
  <2> QED BY <2>1, <2>2, CommandMoves
<1> QED BY <1>8, <1>9

LEMMA WorkStarts == WorkInit => WorkInv
<1> SUFFICES ASSUME WorkInit PROVE WorkInv
  OBVIOUS
<1>1. /\ waiting = Requests /\ job = NoJob /\ children = [c \in ChildIds |-> Unborn]
      /\ replies = [q \in Requests |-> <<>>]
  BY DEF WorkInit
<1>2. IsChild(Unborn) /\ Unborn.life = "none"
  BY DEF IsChild, Unborn
<1>3. ChildShapes /\ StartsInTurn
  <2>1. \A q \in Requests, t \in 1..MaxTries, s \in Stages : <<q, t, s>> \in ChildIds
    BY DEF ChildIds
  <2> QED BY <1>1, <1>2, <2>1 DEF ChildShapes, StartsInTurn, LifeOf
<1>4. AnswersOK
  <2>1. <<>> \in Seq(Answers) /\ DOMAIN <<>> = {}
    OBVIOUS
  <2> QED BY <1>1, <2>1 DEF AnswersOK
<1> QED BY <1>1, <1>3, <1>4 DEF WorkInv, Works, RequestsAnswered

(* Planner, Designer and Developer, and the answer to a question.          *)
LEMMA WithoutCommands ==
  ASSUME WorkInv, AnswerQuery \/ Think \/ Propose \/ RefuseChange \/ DeleteFile \/ WriteFile
                  \/ RenameFile \/ Applied \/ Check
  PROVE  WorkInv'
<1>1. /\ job.at \in {"query", "think", "apply", "rename", "check"}
      /\ UNCHANGED <<children, replies, waiting, dropped>>
  BY DEF AnswerQuery, QueryFails, Think, Propose, RefuseChange, DeleteFile, WriteFile, RenameFile,
         Applied, Check
<1>2. job # NoJob
  BY <1>1 DEF NoJob
<1>3. IsJob(job) /\ Unstarted(job.req, job.try)
  BY <1>1, <1>2 DEF WorkInv, Works, ComesSoFar
<1>4. Good(job.req, job.try)
  <2>1. \A s \in Stages : <<job.req, job.try, s>> \in ChildIds
    BY <1>3 DEF IsJob, ChildIds
  <2> QED BY <1>3, <2>1 DEF Unstarted, LifeOf, Good, WellEnded, WorkInv, ChildShapes, IsChild, Stages
<1> PICK j : j = job'
  OBVIOUS
<1>5. IsJob(j) /\ j.req = job.req /\ j.try = job.try
  <2>1. CASE \E at \in {"reply", "error", "rename", "run", "install", "apply"} : j = [job EXCEPT !.at = at]
    BY <1>3, <2>1, JobEdited
  <2>2. CASE \E say \in Terminal : j = [job EXCEPT !.at = "reply", !.say = say]
    BY <1>3, <2>2 DEF IsJob
  <2>3. CASE \E plan, left : j = [job EXCEPT !.at = "apply", !.plan = plan, !.left = left]
    BY <1>3, <2>3 DEF IsJob
  <2>4. CASE \E left : j = [job EXCEPT !.at = "apply", !.left = left]
    BY <1>3, <2>4 DEF IsJob
  <2>5. CASE AnswerQuery
    BY <2>1, <2>2, <2>5 DEF AnswerQuery, QueryFails, Become, JobAt, Terminal
  <2>6. CASE Think
    BY <2>1, <2>2, <2>6 DEF Think, Become, JobAt, Terminal, PlannerSays, DesignerSays
  <2>7. CASE Propose
    BY <2>1, <2>3, <2>7 DEF Propose, Become, JobAt
  <2>8. CASE RefuseChange \/ WriteFile \/ Check
    BY <2>1, <2>8 DEF RefuseChange, WriteFile, Check, Become, JobAt
  <2>9. CASE DeleteFile \/ RenameFile
    BY <2>1, <2>4, <2>9 DEF DeleteFile, RenameFile, Become, JobAt, NextChange
  <2>10. CASE Applied
    BY <2>2, <2>10 DEF Applied, Become, JobAt, Terminal
  <2> QED BY <2>5, <2>6, <2>7, <2>8, <2>9, <2>10
<1>6. ComesSoFar(j)
  <2>1. \A s \in Stages : LifeOf(j.req, j.try, s) = "none"
    BY <1>3, <1>5 DEF Unstarted
  <2>2. InTime(<<j.req, j.try, "install">>) /\ InTime(<<j.req, j.try, "run">>)
        /\ WellEnded(<<j.req, j.try, "install">>)
    BY <2>1 DEF InTime, WellEnded, LifeOf, Stages
  <2> QED BY <1>4, <1>5, <2>1, <2>2 DEF ComesSoFar, Unstarted, Stages
<1>7. job.at # "error"
  BY <1>1
<1> QED BY <1>1, <1>2, <1>5, <1>6, <1>7, JobGoesOn

\* Which commands there can be follows from how far the try of the job has come,
\* and no later step belongs to a try that was answered with success.
THEOREM WorkInvariant == WorkSpec => []WorkInv
<1>1. WorkInv /\ [WorkNext]_workVars => WorkInv'
  <2> SUFFICES ASSUME WorkInv, [WorkNext]_workVars PROVE WorkInv'
    OBVIOUS
  <2>0. job # NoJob => IsJob(job) /\ job.req \notin waiting /\ ComesSoFar(job)
    BY DEF WorkInv, Works
  <2>1. CASE UNCHANGED workVars
    <3>1. ChildShapes'
      BY <2>1 DEF workVars, WorkInv, ChildShapes, IsChild
    <3> QED BY <2>1, <3>1, TimersOnly DEF workVars
  <2>2. ASSUME NEW q \in Requests, TakeRequest(q) PROVE WorkInv'
    <3>1. /\ q \in waiting /\ waiting' = waiting \ {q} /\ UNCHANGED <<children, replies>> /\ job = NoJob
          /\ \/ dropped' = dropped \cup {q} /\ UNCHANGED job
             \/ /\ \E pc \in {"query", "think", "check"} : job' = Fresh(q, 1, pc)
                /\ UNCHANGED dropped
      BY <2>2 DEF TakeRequest, IsNext, Become
    <3>2. \A r \in Requests : \A what \in Terminal : Says(r, what)' <=> Says(r, what)
      BY <3>1 DEF Says
    <3>3. CASE dropped' = dropped \cup {q} /\ UNCHANGED job
      <4>1. RequestsAnswered'
        BY <3>1, <3>2, <3>3 DEF WorkInv, RequestsAnswered
      <4> PICK j : j = NoJob
        OBVIOUS
      <4> QED BY <3>1, <3>3, <4>1, JobChanges
    <3>4. ASSUME NEW pc \in {"query", "think", "check"}, job' = Fresh(q, 1, pc), UNCHANGED dropped
          PROVE  WorkInv'
      <4> PICK j : j = Fresh(q, 1, pc)
        OBVIOUS
      <4>1. 1 \in 1..MaxTries
        BY WorkAssumption
      <4>2. IsJob(j) /\ j.req = q /\ j.try = 1 /\ j.at = pc
        BY <4>1, FreshJob
      <4>3. Unstarted(q, 1) /\ \A t \in 1..MaxTries, s \in Stages : LifeOf(q, t, s) = "none"
        BY <3>1, <4>1 DEF WorkInv, StartsInTurn, Unstarted
      <4>4. DOMAIN replies[q] = {}
        BY <3>1 DEF WorkInv, AnswersOK, AnswerOK
      <4>5. Fits(j)
        BY <4>2, <4>3, <4>4 DEF Fits, ComesSoFar
      <4>6. RequestsAnswered'
        BY <3>1, <3>2, <3>4, <4>2, JobIsBusy DEF WorkInv, RequestsAnswered
      <4> QED BY <3>1, <3>4, <4>2, <4>5, <4>6, JobChanges
    <3> QED BY <3>1, <3>3, <3>4
  <2>3. CASE AnswerQuery \/ Think \/ Propose \/ RefuseChange \/ DeleteFile \/ WriteFile
             \/ RenameFile \/ Applied \/ Check
    BY <2>3, WithoutCommands
  <2>4. CASE PublishReply
    <3>1. /\ job.at = "reply" /\ UNCHANGED <<children, waiting, dropped>>
          /\ \/ Reply(job.req, job.say, job.try) /\ (job' = NoJob \/ job' = JobAt("error"))
             \/ UNCHANGED replies /\ job' = JobAt("error")
      BY <2>4 DEF PublishReply, Become
    <3>2. job # NoJob
      BY <3>1 DEF NoJob
    <3>3. CASE Reply(job.req, job.say, job.try) /\ (job' = NoJob \/ job' = JobAt("error"))
      <4> PICK what : what = job.say
        OBVIOUS
      <4>1. what \in Terminal /\ (what = "complete" => Good(job.req, job.try))
        BY <2>0, <3>1, <3>2 DEF IsJob, ComesSoFar
      <4>2. Reply(job.req, what, job.try)
        BY <3>3
      <4> QED BY <3>1, <3>2, <3>3, <4>1, <4>2, JobReplies
    <3>4. CASE UNCHANGED replies /\ job' = JobAt("error")
      <4> PICK j : j = JobAt("error")
        OBVIOUS
      <4>1. IsJob(j) /\ j.req = job.req /\ j.try = job.try /\ j.at = "error"
        BY <2>0, <3>2, JobEdited DEF JobAt
      <4>2. ComesSoFar(j)
        BY <4>1 DEF ComesSoFar
      <4> QED BY <3>1, <3>2, <3>4, <4>1, <4>2, JobGoesOn
    <3> QED BY <3>1, <3>3, <3>4
  <2>5. CASE PublishError
    <3>1. /\ job.at = "error" /\ UNCHANGED <<children, waiting>>
          /\ \/ Reply(job.req, "error", job.try) /\ job' = NoJob /\ UNCHANGED dropped
             \/ Again /\ UNCHANGED replies
      BY <2>5 DEF PublishError, Become
    <3>2. job # NoJob
      BY <3>1 DEF NoJob
    <3>3. CASE Reply(job.req, "error", job.try) /\ job' = NoJob /\ UNCHANGED dropped
      <4> PICK what : what = "error"
        OBVIOUS
      <4>1. Reply(job.req, what, job.try) /\ what \in Terminal /\ what # "complete"
        BY <3>3 DEF Terminal
      <4> QED BY <3>1, <3>2, <3>3, <4>1, JobReplies
    <3> QED BY <3>1, <3>2, <3>3, TryEnds
  <2>6. CASE Spawn
    BY <2>6, SpawnKeeps
  <2>7. CASE TimesOut
    BY <2>7, TimesOutKeeps
  <2>8. ASSUME NEW c \in ChildIds, Exit(c) PROVE WorkInv'
    BY <2>8, ExitKeeps
  <2>9. ASSUME NEW c \in ChildIds, KillTimer(c) PROVE WorkInv'
    <3>1. PICK kill :
            children' = [children EXCEPT ![c].timer = "fired", ![c].sigkill = kill]
      BY <2>9 DEF KillTimer
    <3>2. /\ ChildShapes'
          /\ \A d \in ChildIds : /\ children'[d].life = children[d].life
                                 /\ children'[d].code = children[d].code
                                 /\ children'[d].killed = children[d].killed
      BY <3>1 DEF WorkInv, ChildShapes, IsChild
    <3> QED BY <2>9, <3>2, TimersOnly DEF KillTimer
  <2>10. CASE WorkCrash
    <3>1. /\ ChildShapes'
          /\ \A d \in ChildIds : /\ children'[d].life = children[d].life
                                 /\ children'[d].code = children[d].code
                                 /\ children'[d].killed = children[d].killed
      BY <2>10 DEF WorkCrash, WorkInv, ChildShapes, IsChild
    <3> QED BY <2>10, <3>1, TimersOnly DEF WorkCrash, Become
  <2> QED BY <2>1, <2>2, <2>3, <2>4, <2>5, <2>6, <2>7, <2>8, <2>9, <2>10 DEF WorkNext
<1> QED BY <1>1, WorkStarts, PTL DEF WorkSpec

\* Who answers with success has run the command of that try to its end with exit
\* code zero, after the installation; a command that has timed out, or the late
\* exit of an earlier try, never makes a success (executor.ts: settle, finish).
THEOREM SuccessHasRun == WorkSpec => []SuccessRan
<1>1. WorkInv => SuccessRan
  <2> SUFFICES ASSUME WorkInv, NEW q \in Requests, NEW i \in DOMAIN replies[q],
                      replies[q][i].what = "complete"
               PROVE  Good(q, replies[q][i].try)
    BY DEF SuccessRan, Good, WellEnded, Child
  <2> QED BY DEF WorkInv, AnswersOK, AnswerOK
<1> QED BY <1>1, WorkInvariant, PTL

\* A request that was taken is worked on, was answered, or was given up where a
\* person can see it (collaboration.ts).
THEOREM TakenIsAnswered == WorkSpec => []RequestsAnswered
  BY WorkInvariant, PTL DEF WorkInv

-----------------------------------------------------------------------------
(* FileWatch.  The store and the watchers belong together: an entry is an  *)
(* open watcher of its own.  A pending timer carries the last event.       *)

IsWatcher(v) ==
  /\ v = [x \in {"life", "session", "timers", "last", "told"} |-> v[x]]
  /\ v.timers = [f \in Files |-> v.timers[f]] /\ v.last = [f \in Files |-> v.last[f]]
  /\ v.told = [f \in Files |-> v.told[f]]
Tells(v) ==
  \A f \in Files : v.timers[f] = v.last[f] \/ (v.timers[f] = NoTimer /\ v.told[f] \in {v.last[f], "lost"})
Quiet(v) == \A f \in Files : v.timers[f] = NoTimer
Behaves(v) == IsWatcher(v) /\ (v.life = "open" => Tells(v)) /\ (v.life = "closed" => Quiet(v))

WatchersBehave ==
  watchers = [w \in WatcherIds |-> watchers[w]] /\ \A w \in WatcherIds : Behaves(watchers[w])
EntriesAreOpen ==
  /\ entries = [s \in DOMAIN entries |-> entries[s]] /\ IsFiniteSet(DOMAIN entries)
  /\ \A s \in DOMAIN entries : entries[s] \in WatcherIds /\ watchers[entries[s]].life = "open"
  /\ \A s, t \in DOMAIN entries : entries[s] = entries[t] => s = t
  /\ CapacityHeld
WatchInv == WatchersBehave /\ EntriesAreOpen

(* An open watcher that stays open.                                        *)
LEMMA WatcherGoesOn ==
  ASSUME WatchInv, UNCHANGED entries, NEW w \in WatcherIds, NEW v,
         watchers' = [watchers EXCEPT ![w] = v], Behaves(v), v.life = watchers[w].life
  PROVE  WatchInv'
<1>1. WatchersBehave'
  BY DEF WatchInv, WatchersBehave
<1>2. \A x \in WatcherIds : watchers'[x].life = watchers[x].life
  BY DEF WatchInv, WatchersBehave
<1>3. EntriesAreOpen'
  BY <1>2 DEF WatchInv, EntriesAreOpen, CapacityHeld
<1> QED BY <1>1, <1>3 DEF WatchInv

(* WatcherStore.remove.                                                    *)
LEMMA EntryRemoved ==
  ASSUME WatchInv, NEW s, Remove(s)
  PROVE  WatchInv'
<1>1. entries' = [t \in DOMAIN entries \ {s} |-> entries[t]]
  BY DEF Remove
<1>2. /\ IsFiniteSet(DOMAIN entries \ {s})
      /\ Cardinality(DOMAIN entries \ {s}) <= Cardinality(DOMAIN entries)
      /\ Cardinality(DOMAIN entries \ {s}) \in Nat /\ Cardinality(DOMAIN entries) \in Nat
  BY FS_Subset, FS_CardinalityType DEF WatchInv, EntriesAreOpen
<1>3. CapacityHeld'
  BY <1>1, <1>2, WatchAssumption DEF WatchInv, EntriesAreOpen, CapacityHeld
<1>4. CASE s \notin DOMAIN entries
  <2>1. watchers' = watchers
    BY <1>4 DEF Remove
  <2>2. WatchersBehave'
    BY <2>1 DEF WatchInv, WatchersBehave
  <2>3. EntriesAreOpen'
    BY <1>1, <1>2, <1>3, <2>1 DEF WatchInv, EntriesAreOpen
  <2> QED BY <2>2, <2>3 DEF WatchInv
<1>5. CASE s \in DOMAIN entries
  <2> PICK w : w = entries[s]
    OBVIOUS
  <2>1. w \in WatcherIds /\ Behaves(watchers[w])
    BY <1>5 DEF WatchInv, EntriesAreOpen, WatchersBehave
  <2> PICK v : v = [watchers[w] EXCEPT !.life = "closed", !.timers = [f \in Files |-> NoTimer]]
    OBVIOUS
  <2>2. watchers' = [watchers EXCEPT ![w] = v]
    BY <1>5, <2>1 DEF Remove, WatchInv, WatchersBehave
  <2>3. v.life = "closed" /\ Behaves(v)
    BY <2>1 DEF Behaves, IsWatcher, Quiet
  <2>4. WatchersBehave'
    BY <2>2, <2>3 DEF WatchInv, WatchersBehave
  <2>5. \A x \in WatcherIds \ {w} : watchers'[x] = watchers[x]
    BY <2>2 DEF WatchInv, WatchersBehave
  <2>6. EntriesAreOpen'
    BY <1>1, <1>2, <1>3, <1>5, <2>5 DEF WatchInv, EntriesAreOpen
  <2> QED BY <2>4, <2>6 DEF WatchInv
<1> QED BY <1>4, <1>5

(* A watcher that has seen nothing.                                        *)
LEMMA NewWatcherBehaves ==
  ASSUME NEW life, NEW s, NEW v,
         v = [life |-> life, session |-> s, timers |-> [f \in Files |-> NoTimer],
              last |-> [f \in Files |-> NoTimer], told |-> [f \in Files |-> NoTimer]]
  PROVE  Behaves(v) /\ v.life = life
<1>1. /\ v.life = life /\ v.timers = [f \in Files |-> NoTimer]
      /\ v.last = [f \in Files |-> NoTimer] /\ v.told = [f \in Files |-> NoTimer]
  OBVIOUS
<1>2. v = [x \in {"life", "session", "timers", "last", "told"} |-> v[x]]
  OBVIOUS
<1>3. IsWatcher(v)
  BY <1>1, <1>2 DEF IsWatcher
<1>4. Tells(v) /\ Quiet(v)
  BY <1>1 DEF Tells, Quiet
<1> QED BY <1>1, <1>3, <1>4 DEF Behaves

(* WatcherStore.add.                                                       *)
LEMMA EntryAdded ==
  ASSUME WatchInv, NEW s, NEW w \in WatcherIds, watchers[w].life = "none", ~Full,
         entries' = [t \in DOMAIN entries \cup {s} |-> IF t = s THEN w ELSE entries[t]],
         watchers' = [watchers EXCEPT ![w] = [Uncreated EXCEPT !.life = "open", !.session = s]]
  PROVE  WatchInv'
<1> PICK v : v = [Uncreated EXCEPT !.life = "open", !.session = s]
  OBVIOUS
<1>1. v.life = "open" /\ Behaves(v)
  <2> PICK d : d = CHOOSE t \in Watched : TRUE
    OBVIOUS
  <2>1. Uncreated = [life |-> "none", session |-> d, timers |-> [f \in Files |-> NoTimer],
                     last |-> [f \in Files |-> NoTimer], told |-> [f \in Files |-> NoTimer]]
    BY DEF Uncreated
  <2>2. v = [life |-> "open", session |-> s, timers |-> [f \in Files |-> NoTimer],
             last |-> [f \in Files |-> NoTimer], told |-> [f \in Files |-> NoTimer]]
    BY <2>1
  <2> QED BY <2>2, NewWatcherBehaves
<1>2. WatchersBehave'
  BY <1>1 DEF WatchInv, WatchersBehave
<1>3. \A x \in WatcherIds : watchers'[x] = IF x = w THEN v ELSE watchers[x]
  BY DEF WatchInv, WatchersBehave
<1>4. /\ IsFiniteSet(DOMAIN entries \cup {s})
      /\ Cardinality(DOMAIN entries \cup {s}) <= Cardinality(DOMAIN entries) + 1
  BY FS_AddElement, FS_CardinalityType DEF WatchInv, EntriesAreOpen
<1>5. CapacityHeld'
  <2>1. Cardinality(DOMAIN entries) \in Nat /\ Cardinality(DOMAIN entries \cup {s}) \in Nat
    BY <1>4, FS_CardinalityType DEF WatchInv, EntriesAreOpen
  <2>2. DOMAIN entries' = DOMAIN entries \cup {s}
    OBVIOUS
  <2> QED BY <1>4, <2>1, <2>2, WatchAssumption DEF CapacityHeld, Full
<1>6. \A t \in DOMAIN entries : entries[t] \in WatcherIds \ {w}
  BY DEF WatchInv, EntriesAreOpen
<1>7. EntriesAreOpen'
  <2>1. /\ DOMAIN entries' = DOMAIN entries \cup {s}
        /\ \A t \in DOMAIN entries' : entries'[t] = IF t = s THEN w ELSE entries[t]
    OBVIOUS
  <2>2. entries' = [t \in DOMAIN entries' |-> entries'[t]]
    OBVIOUS
  <2>3. \A t \in DOMAIN entries' : entries'[t] \in WatcherIds /\ watchers'[entries'[t]].life = "open"
    <3> TAKE t \in DOMAIN entries'
    <3>1. CASE t = s
      BY <1>1, <1>3, <2>1, <3>1
    <3>2. CASE t # s
      <4>1. t \in DOMAIN entries /\ entries'[t] = entries[t] /\ entries[t] \in WatcherIds \ {w}
        BY <1>6, <2>1, <3>2
      <4>2. watchers'[entries[t]] = watchers[entries[t]] /\ watchers[entries[t]].life = "open"
        BY <1>3, <4>1 DEF WatchInv, EntriesAreOpen
      <4> QED BY <4>1, <4>2
    <3> QED BY <3>1, <3>2
  <2>4. \A t, u \in DOMAIN entries' : entries'[t] = entries'[u] => t = u
    BY <2>1, <1>6 DEF WatchInv, EntriesAreOpen
  <2> QED BY <1>4, <1>5, <2>1, <2>2, <2>3, <2>4 DEF EntriesAreOpen
<1> QED BY <1>2, <1>7 DEF WatchInv

\* An entry of the store is an open watcher of its own, a closed watcher has no
\* timer, and what a timer carries or has told is the last event.
THEOREM WatchInvariant == WatchSpec => []WatchInv
<1>1. WatchInit => WatchInv
  <2> SUFFICES ASSUME WatchInit PROVE WatchInv
    OBVIOUS
  <2>1. entries = [s \in {} |-> 1] /\ watchers = [w \in WatcherIds |-> Uncreated]
    BY DEF WatchInit
  <2>2. Behaves(Uncreated)
    <3> PICK d, v : d = (CHOOSE t \in Watched : TRUE) /\ v = Uncreated
      OBVIOUS
    <3>1. v = [life |-> "none", session |-> d, timers |-> [f \in Files |-> NoTimer],
               last |-> [f \in Files |-> NoTimer], told |-> [f \in Files |-> NoTimer]]
      BY DEF Uncreated
    <3> QED BY <3>1, NewWatcherBehaves
  <2>3. WatchersBehave
    BY <2>1, <2>2 DEF WatchersBehave
  <2>4. IsFiniteSet({}) /\ Cardinality({}) = 0
    BY FS_EmptySet
  <2>5. DOMAIN entries = {}
    BY <2>1
  <2>6. EntriesAreOpen
    BY <2>1, <2>4, <2>5, WatchAssumption DEF EntriesAreOpen, CapacityHeld
  <2> QED BY <2>3, <2>6 DEF WatchInv
<1>2. WatchInv /\ [WatchNext]_watchVars => WatchInv'
  <2> SUFFICES ASSUME WatchInv, [WatchNext]_watchVars PROVE WatchInv'
    OBVIOUS
  <2>1. CASE UNCHANGED <<entries, watchers>>
    BY <2>1 DEF WatchInv, WatchersBehave, EntriesAreOpen, CapacityHeld
  <2>2. ASSUME NEW c \in Loops, OpenSession(c) \/ WatchRequest(c) \/ Published(c) PROVE WatchInv'
    BY <2>1, <2>2 DEF OpenSession, WatchRequest, Published
  <2>3. ASSUME NEW c \in Loops, EndSession(c) \/ LoopOver(c) \/ StopWatch(c) PROVE WatchInv'
    <3>1. Remove(c[1])
      BY <2>3 DEF EndSession, LoopOver, StopWatch
    <3> QED BY <3>1, EntryRemoved
  <2>4. ASSUME NEW c \in Loops, PathChecked(c) PROVE WatchInv'
    <3>1. CASE UNCHANGED <<entries, watchers>>
      BY <2>1, <3>1
    <3>2. CASE ~UNCHANGED <<entries, watchers>>
      <4> PICK w : w = NewWatcher
        OBVIOUS
      <4>1. /\ \E x \in WatcherIds : watchers[x].life = "none"
            /\ ~Full
            /\ entries' = [s \in DOMAIN entries \cup {c[1]} |-> IF s = c[1] THEN w ELSE entries[s]]
            /\ watchers' = [watchers EXCEPT ![w] = [Uncreated EXCEPT !.life = "open", !.session = c[1]]]
        BY <2>4, <3>2 DEF PathChecked, MayAdd
      <4>2. w \in WatcherIds /\ watchers[w].life = "none"
        BY <4>1 DEF NewWatcher
      <4> QED BY <4>1, <4>2, EntryAdded
    <3> QED BY <3>1, <3>2
  <2>5. ASSUME NEW w \in WatcherIds, NEW f \in Files, TimerFires(w, f) PROVE WatchInv'
    <3>1. /\ UNCHANGED entries /\ watchers[w].timers[f] # NoTimer
      BY <2>5 DEF TimerFires
    <3>2. PICK told \in {watchers[w].timers[f], "lost"} :
            watchers' = [watchers EXCEPT ![w].timers[f] = NoTimer, ![w].told[f] = told]
      BY <2>5 DEF TimerFires
    <3>3. Behaves(watchers[w])
      BY DEF WatchInv, WatchersBehave
    <3> PICK v : v = [watchers[w] EXCEPT !.timers[f] = NoTimer, !.told[f] = told]
      OBVIOUS
    <3>4. watchers' = [watchers EXCEPT ![w] = v]
      BY <3>2, <3>3 DEF WatchInv, WatchersBehave
    <3>5. /\ IsWatcher(v) /\ v.life = watchers[w].life /\ v.last = watchers[w].last
          /\ v.timers = [watchers[w].timers EXCEPT ![f] = NoTimer]
          /\ v.told = [watchers[w].told EXCEPT ![f] = told]
      BY <3>3 DEF Behaves, IsWatcher
    <3>6. /\ v.timers[f] = NoTimer /\ v.told[f] = told
          /\ \A g \in Files \ {f} : v.timers[g] = watchers[w].timers[g] /\ v.told[g] = watchers[w].told[g]
      BY <3>3, <3>5 DEF Behaves, IsWatcher
    <3>7. v.life = "open" => Tells(watchers[w])
      BY <3>3, <3>5 DEF Behaves
    <3>8. ASSUME v.life = "open", NEW g \in Files
          PROVE  v.timers[g] = v.last[g] \/ (v.timers[g] = NoTimer /\ v.told[g] \in {v.last[g], "lost"})
      <4>1. watchers[w].timers[g] = watchers[w].last[g]
            \/ (watchers[w].timers[g] = NoTimer /\ watchers[w].told[g] \in {watchers[w].last[g], "lost"})
        BY <3>7, <3>8 DEF Tells
      <4>2. CASE g = f
        BY <3>1, <3>2, <3>5, <3>6, <4>1, <4>2
      <4>3. CASE g # f
        BY <3>5, <3>6, <4>1, <4>3
      <4> QED BY <4>2, <4>3
    <3>9. v.life = "closed" => Quiet(v)
      BY <3>3, <3>5, <3>6 DEF Behaves, Quiet
    <3>10. Behaves(v)
      BY <3>5, <3>8, <3>9 DEF Behaves, Tells
    <3> QED BY <3>1, <3>4, <3>5, <3>10, WatcherGoesOn
  <2>6. ASSUME NEW w \in WatcherIds, NEW f \in Files, NEW kind \in Kinds, FileEvent(w, f, kind)
        PROVE  WatchInv'
    <3>1. /\ UNCHANGED entries /\ watchers[w].life = "open"
          /\ watchers' = [watchers EXCEPT ![w].last[f] = kind, ![w].timers[f] = kind]
      BY <2>6 DEF FileEvent, QueueEvent
    <3>2. Behaves(watchers[w])
      BY DEF WatchInv, WatchersBehave
    <3> PICK v : v = [watchers[w] EXCEPT !.last[f] = kind, !.timers[f] = kind]
      OBVIOUS
    <3>3. watchers' = [watchers EXCEPT ![w] = v]
      BY <3>1, <3>2 DEF WatchInv, WatchersBehave
    <3>4. /\ IsWatcher(v) /\ v.life = watchers[w].life /\ v.told = watchers[w].told
          /\ v.timers = [watchers[w].timers EXCEPT ![f] = kind]
          /\ v.last = [watchers[w].last EXCEPT ![f] = kind]
      BY <3>2 DEF Behaves, IsWatcher
    <3>5. Behaves(v)
      BY <3>1, <3>2, <3>4 DEF Behaves, IsWatcher, Tells
    <3> QED BY <3>1, <3>3, <3>4, <3>5, WatcherGoesOn
  <2> QED BY <2>1, <2>2, <2>3, <2>4, <2>5, <2>6 DEF WatchNext, watchVars
<1> QED BY <1>1, <1>2, PTL DEF WatchSpec

\* However the events of a file follow each other and its timer, what is told
\* of an open watcher is the last of them (watcher.ts: queueEvent).
THEOREM LastIsTold == WatchSpec => []LastEventIsTold
<1>1. WatchInv => LastEventIsTold
  BY DEF WatchInv, WatchersBehave, Behaves, Tells, LastEventIsTold
<1> QED BY <1>1, WatchInvariant, PTL

\* Every entry of the store is an open watcher that no other session has, the
\* second look at the capacity keeps their number, however many sessions have
\* passed the first, and a closed watcher is out of the store and never fires
\* (watcher-store.ts: add, remove).
THEOREM StoreIsKept == WatchSpec => [](EntriesAreOpen /\ StoppedIsSilent)
<1>1. WatchInv => EntriesAreOpen /\ StoppedIsSilent
  BY DEF WatchInv, WatchersBehave, EntriesAreOpen, Behaves, Quiet, StoppedIsSilent
<1> QED BY <1>1, WatchInvariant, PTL

-----------------------------------------------------------------------------
(* A set of natural numbers with a member has a least one, and Min is it.  *)

LEMMA LeastExists ==
  ASSUME NEW S, S \subseteq Nat, S # {}
  PROVE  \E x \in S : \A y \in S : x <= y
<1> PICK R : R = {p \in Nat \X Nat : p[1] < p[2]}
  OBVIOUS
<1>1. IsWellFoundedOn(R, Nat)
  BY NatLessThanWellFounded DEF OpToRel
<1>2. PICK x \in S : \A y \in S : ~(<<y, x>> \in R)
  BY <1>1, WFMin
<1>3. \A y \in S : x <= y
  <2> TAKE y \in S
  <2>1. x \in Nat /\ y \in Nat
    OBVIOUS
  <2>2. CASE y < x
    <3> PICK p : p = <<y, x>>
      OBVIOUS
    <3>1. p \in Nat \X Nat /\ p[1] < p[2]
      BY <2>1, <2>2
    <3>2. p \in R
      BY <3>1
    <3> QED BY <1>2, <3>2
  <2> QED BY <2>1, <2>2
<1> QED BY <1>3

LEMMA MinFacts ==
  ASSUME NEW S, S \subseteq Nat, S # {}
  PROVE  Min(S) \in S /\ \A y \in S : Min(S) <= y
  BY LeastExists DEF Min

-----------------------------------------------------------------------------
(* StreamConsumer.  A keyed message has one turn: with a consumer, spent in *)
(* a completed handler, or kept for a person as a dead letter; it is given  *)
(* out with the marker, and only a redrive gives it out again.              *)

ConsumerOK(k) ==
  /\ k \in [pc : {"down", "claim", "read", "check", "run", "ack"},
            todo : SUBSET (1..Len(stream)), acks : SUBSET (1..Len(stream)), try : Nat]
  /\ k.pc \in {"check", "run"} => k.todo # {}
  /\ k.pc # "down" => group # NoGroup
StreamInv ==
  /\ stream \in Seq(Msgs) /\ group \in Nat \cup {NoGroup}
  /\ stale \subseteq pel /\ pel \subseteq 1..Len(stream)
  /\ consumer = [c \in Consumers |-> consumer[c]]
  /\ \A c \in Consumers : ConsumerOK(consumer[c])
DeadInv ==
  /\ dlq \subseteq DeadLetters /\ buried \in Nat
  /\ \A e \in dlq : e.id < buried /\ (e.reason = "invalid_schema" => e.msg \in Invalid)
RedriveInv ==
  /\ operator = [o \in Operators |-> operator[o]]
  /\ \A o \in Operators : operator[o] \in [step : 1..3, items : SUBSET dlq]

Handles(c, m) == consumer[c].pc = "run" /\ Msg(c) = m
\* The operator has taken this entry's marker away.
Redriven(e) == \E o \in Operators : operator[o].items # {} /\ operator[o].step > 1 /\ e = Item(o)
Stands(e, m) == e \in dlq /\ e.msg = m /\ e.reason = "handler_failed" /\ ~Redriven(e)
NoTurn(m) == handled[m] = 0 /\ (\A c \in Consumers : ~Handles(c, m)) /\ (\A e : ~Stands(e, m))
OneTurn(m) ==
  /\ handled[m] \in {0, 1}
  /\ m \notin markers \/ m \in Broken \cup Invalid => NoTurn(m)
  /\ handled[m] = 1 => (\A c \in Consumers : ~Handles(c, m)) /\ (\A e : ~Stands(e, m))
  /\ \A c \in Consumers : Handles(c, m) => (\A e : ~Stands(e, m))
  /\ \A c, d \in Consumers : Handles(c, m) /\ Handles(d, m) => c = d
  /\ \A e, f : Stands(e, m) /\ Stands(f, m) => e = f
HandlingInv == handled \in [Msgs -> Nat] /\ \A m \in Msgs \ Keyless : OneTurn(m)

(* What a consumer has at hand is an entry of the stream.                  *)
LEMMA HasAtHand ==
  ASSUME StreamInv, NEW c \in Consumers, consumer[c].pc \in {"check", "run"}
  PROVE  /\ Current(c) \in consumer[c].todo /\ Current(c) \in 1..Len(stream) /\ Msg(c) \in Msgs
<1>1. consumer[c].todo # {} /\ consumer[c].todo \subseteq Nat /\ consumer[c].todo \subseteq 1..Len(stream)
  BY DEF StreamInv, ConsumerOK
<1>2. Current(c) \in consumer[c].todo
  BY <1>1, MinFacts DEF Current
<1>3. stream[Current(c)] \in Msgs
  BY <1>1, <1>2 DEF StreamInv
<1> QED BY <1>1, <1>2, <1>3 DEF Msg

(* ... and stays what it is, whatever is added to the stream.              *)
LEMMA StaysAtHand ==
  ASSUME StreamInv, NEW c \in Consumers, consumer[c].pc \in {"check", "run"},
         consumer'[c].todo = consumer[c].todo,
         UNCHANGED stream \/ \E m \in Msgs : stream' = Append(stream, m)
  PROVE  Msg(c)' = Msg(c) /\ Current(c)' = Current(c)
<1>1. Current(c)' = Current(c)
  BY DEF Current
<1>2. Current(c) \in 1..Len(stream) /\ stream \in Seq(Msgs)
  BY HasAtHand DEF StreamInv
<1>3. stream'[Current(c)] = stream[Current(c)]
  BY <1>2
<1> QED BY <1>1, <1>3 DEF Msg

(* The first entries of a batch are entries, and there is one if any is    *)
(* there at all.                                                           *)
LEMMA FirstOfSome ==
  ASSUME NEW lo \in Nat, NEW hi \in Nat, lo < hi, NEW n \in Nat \ {0}
  PROVE  /\ FirstIds((lo + 1)..hi, n) \subseteq 1..hi /\ FirstIds((lo + 1)..hi, n) # {}
         /\ Cardinality(FirstIds((lo + 1)..hi, n)) \in Nat
<1> DEFINE S == (lo + 1)..hi
<1>1. {j \in S : j <= lo + 1} = {lo + 1}
  OBVIOUS
<1>2. Cardinality({j \in S : j <= lo + 1}) = 1
  BY <1>1, FS_Singleton
<1>3. lo + 1 \in FirstIds(S, n)
  BY <1>2 DEF FirstIds
<1>4. FirstIds(S, n) \subseteq S /\ S \subseteq 1..hi
  BY DEF FirstIds
<1>5. IsFiniteSet(S)
  BY FS_Interval
<1>6. IsFiniteSet(FirstIds(S, n))
  BY <1>4, <1>5, FS_Subset
<1> QED BY <1>3, <1>4, <1>6, FS_CardinalityType

(* A step that gives no turn out, and takes no marker away.                *)
LEMMA NobodyIsNext ==
  ASSUME NEW m, OneTurn(m), handled'[m] = handled[m], m \in markers => m \in markers',
         \A c \in Consumers : Handles(c, m)' => Handles(c, m), \A e : Stands(e, m)' => Stands(e, m)
  PROVE  OneTurn(m)'
  BY DEF OneTurn, NoTurn

(* The dead letters stand as they did while the operator rests.            *)
LEMMA LettersStand ==
  ASSUME NEW m, UNCHANGED <<dlq, operator>>
  PROVE  \A e : Stands(e, m)' => Stands(e, m)
  BY DEF Stands, Redriven, Item

(* The consumers but one are where they were.                              *)
LEMMA OthersRun ==
  ASSUME StreamInv, NEW c \in Consumers, NEW k, Becomes(c, k), UNCHANGED stream
  PROVE  /\ consumer' = [d \in Consumers |-> IF d = c THEN k ELSE consumer[d]]
         /\ \A d \in Consumers : \A m : d # c => (Handles(d, m)' <=> Handles(d, m))
         /\ \A m : k.pc # "run" => ~Handles(c, m)'
         /\ \A m : k.pc = "run" /\ consumer[c].pc \in {"check", "run"} /\ k.todo = consumer[c].todo
                    => (Handles(c, m)' <=> Msg(c) = m)
<1>1. consumer' = [d \in Consumers |-> IF d = c THEN k ELSE consumer[d]]
  BY DEF Becomes, StreamInv
<1> QED BY <1>1 DEF Handles, Msg, Current


(* The steps of a consumer that leave the counts and the dead letters      *)
(* alone and let it run nothing.                                           *)
LEMMA LoopGoesOn ==
  ASSUME StreamInv, HandlingInv, NEW c \in Consumers, NEW k, Becomes(c, k), k.pc # "run",
         UNCHANGED <<stream, markers, dlq, operator, handled>>
  PROVE  HandlingInv'
<1>1. \A m : \A d \in Consumers : Handles(d, m)' => Handles(d, m)
  BY OthersRun
<1>2. \A m \in Msgs \ Keyless : OneTurn(m)'
  BY <1>1, LettersStand, NobodyIsNext DEF HandlingInv
<1> QED BY <1>2 DEF HandlingInv

(* Where a consumer goes, it is in order.                                  *)
LEMMA LoopInOrder ==
  ASSUME StreamInv, NEW c \in Consumers, NEW k, Becomes(c, k), ConsumerOK(k)', UNCHANGED stream,
         group' \in Nat \cup {NoGroup}, group # NoGroup => group' # NoGroup,
         stale' \subseteq pel', pel' \subseteq 1..Len(stream)
  PROVE  StreamInv'
<1>1. consumer' = [d \in Consumers |-> IF d = c THEN k ELSE consumer[d]]
  BY OthersRun
<1>2. \A x : ConsumerOK(x) => ConsumerOK(x)'
  BY DEF ConsumerOK
<1>3. ASSUME NEW d \in Consumers PROVE ConsumerOK(consumer[d])'
  <2>1. CASE d = c
    <3>1. consumer'[d] = k
      BY <1>1, <2>1
    <3> QED BY <3>1 DEF ConsumerOK
  <2>2. CASE d # c
    <3>1. consumer'[d] = consumer[d] /\ ConsumerOK(consumer[d])
      BY <1>1, <2>2 DEF StreamInv
    <3> QED BY <1>2, <3>1 DEF ConsumerOK
  <2> QED BY <2>1, <2>2
<1>4. stream' \in Seq(Msgs)
  BY DEF StreamInv
<1> QED BY <1>1, <1>3, <1>4 DEF StreamInv

LEMMA LoopRests ==
  ASSUME NEW pc \in {"down", "claim", "read"}
  PROVE  At(pc) = [pc |-> pc, todo |-> {}, acks |-> {}, try |-> 0]
  BY DEF At, Down


LEMMA AfterEntry ==
  ASSUME StreamInv, NEW c \in Consumers, consumer[c].pc \in {"check", "run"}, Finish(c),
         UNCHANGED <<stream, group, pel, stale>>
  PROVE  /\ StreamInv'
         /\ \A m : ~Handles(c, m)'
         /\ \A d \in Consumers : \A m : d # c => (Handles(d, m)' <=> Handles(d, m))
<1> PICK rest, here, k :
      /\ here = Current(c) /\ rest = consumer[c].todo \ {here}
      /\ k = [pc |-> IF rest = {} THEN "ack" ELSE "check", todo |-> rest,
              acks |-> consumer[c].acks \cup {here}, try |-> 0]
  OBVIOUS
<1>1. Becomes(c, k)
  BY DEF Finish
<1>2. ConsumerOK(consumer[c]) /\ here \in 1..Len(stream)
  BY HasAtHand DEF StreamInv
<1>3. ConsumerOK(k)'
  BY <1>2 DEF ConsumerOK
<1>4. k.pc # "run"
  OBVIOUS
<1>5. StreamInv'
  BY <1>1, <1>3, LoopInOrder DEF StreamInv
<1> QED BY <1>1, <1>4, <1>5, OthersRun

(* An entry is finished with and nothing else happened.                    *)
LEMMA EntryPassed ==
  ASSUME StreamInv, HandlingInv, NEW c \in Consumers, consumer[c].pc \in {"check", "run"}, Finish(c),
         UNCHANGED <<stream, group, pel, stale, markers, dlq, operator, handled>>
  PROVE  StreamInv' /\ HandlingInv'
<1>1. StreamInv' /\ \A m : \A d \in Consumers : Handles(d, m)' => Handles(d, m)
  BY AfterEntry
<1>2. \A m \in Msgs \ Keyless : OneTurn(m)'
  BY <1>1, LettersStand, NobodyIsNext DEF HandlingInv
<1> QED BY <1>1, <1>2 DEF HandlingInv

(* A dead letter is added, and those there are stand as they did.          *)
LEMMA LetterAdded ==
  ASSUME DeadInv, RedriveInv, UNCHANGED operator, NEW m0 \in Msgs,
         NEW reason \in {"handler_failed", "invalid_schema"}, reason = "invalid_schema" => m0 \in Invalid,
         NEW e0, e0 = [id |-> buried, msg |-> m0, reason |-> reason],
         dlq' = dlq \cup {e0}, buried' = buried + 1
  PROVE  /\ DeadInv' /\ RedriveInv'
         /\ \A e, m : Stands(e, m)' => Stands(e, m) \/ (e = e0 /\ m = m0 /\ reason = "handler_failed")
<1>1. e0 \in DeadLetters /\ e0.id = buried /\ e0.msg = m0 /\ e0.reason = reason
  BY DEF DeadInv, DeadLetters
<1>2. \A e \in dlq : e.id \in Nat /\ e.id < buried + 1
  BY DEF DeadInv, DeadLetters
<1>3. DeadInv'
  BY <1>1, <1>2 DEF DeadInv
<1>4. RedriveInv'
  BY DEF RedriveInv
<1>5. \A e : Redriven(e)' <=> Redriven(e)
  BY DEF Redriven, Item
<1> QED BY <1>1, <1>3, <1>4, <1>5 DEF Stands

(* The entry is refused.                                                   *)
LEMMA RejectKeeps ==
  ASSUME StreamInv, DeadInv, RedriveInv, HandlingInv, NEW c \in Consumers, Reject(c)
  PROVE  StreamInv' /\ DeadInv' /\ RedriveInv' /\ HandlingInv'
<1>1. /\ consumer[c].pc = "check" /\ Finish(c) /\ Msg(c) \in Broken \cup Invalid
      /\ UNCHANGED <<stream, group, pel, stale, markers, operator, handled>>
  BY DEF Reject
<1> PICK m0 : m0 = Msg(c)
  OBVIOUS
<1>2. CASE UNCHANGED <<dlq, buried>>
  BY <1>1, <1>2, EntryPassed DEF DeadInv, RedriveInv
<1>3. CASE ~UNCHANGED <<dlq, buried>>
  <2> PICK e0 : e0 = [id |-> buried, msg |-> m0, reason |-> "invalid_schema"]
    OBVIOUS
  <2>1. m0 \in Invalid /\ dlq' = dlq \cup {e0} /\ buried' = buried + 1
    BY <1>1, <1>3 DEF Reject, Bury
  <2>2. m0 \in Msgs
    BY <1>1, HasAtHand
  <2>3. DeadInv' /\ RedriveInv' /\ \A e, m : Stands(e, m)' => Stands(e, m)
    BY <1>1, <2>1, <2>2, LetterAdded
  <2>4. StreamInv' /\ \A m : \A d \in Consumers : Handles(d, m)' => Handles(d, m)
    BY <1>1, AfterEntry
  <2>5. \A m \in Msgs \ Keyless : OneTurn(m)'
    BY <1>1, <2>3, <2>4, NobodyIsNext DEF HandlingInv
  <2> QED BY <1>1, <2>3, <2>4, <2>5 DEF HandlingInv
<1> QED BY <1>2, <1>3

(* The handler fails for the last time: the turn becomes a dead letter.    *)
LEMMA TurnIsBuried ==
  ASSUME StreamInv, DeadInv, RedriveInv, HandlingInv, NEW c \in Consumers, consumer[c].pc = "run",
         Finish(c), UNCHANGED <<stream, group, pel, stale, markers, operator, handled>>,
         NEW m0, m0 = Msg(c), NEW e0, e0 = [id |-> buried, msg |-> m0, reason |-> "handler_failed"],
         dlq' = dlq \cup {e0}, buried' = buried + 1
  PROVE  StreamInv' /\ DeadInv' /\ RedriveInv' /\ HandlingInv'
<1>1. m0 \in Msgs /\ Handles(c, m0)
  BY HasAtHand DEF Handles
<1>2. DeadInv' /\ RedriveInv'
      /\ \A e, m : Stands(e, m)' => Stands(e, m) \/ (e = e0 /\ m = m0)
  BY <1>1, LetterAdded
<1>3. /\ StreamInv' /\ \A m : ~Handles(c, m)'
      /\ \A d \in Consumers : \A m : d # c => (Handles(d, m)' <=> Handles(d, m))
  BY AfterEntry
<1>4. ASSUME NEW m \in Msgs \ Keyless PROVE OneTurn(m)'
  <2>1. CASE m # m0
    BY <1>2, <1>3, <2>1, NobodyIsNext DEF HandlingInv
  <2>2. CASE m = m0
    BY <1>1, <1>2, <1>3, <2>2 DEF HandlingInv, OneTurn, NoTurn
  <2> QED BY <2>1, <2>2
<1> QED BY <1>2, <1>3, <1>4 DEF HandlingInv

(* The handler completes: the turn is spent.                               *)
LEMMA TurnIsSpent ==
  ASSUME StreamInv, HandlingInv, NEW c \in Consumers, HandlerSucceeds(c)
  PROVE  StreamInv' /\ HandlingInv'
<1>1. /\ consumer[c].pc = "run" /\ Finish(c) /\ handled' = [handled EXCEPT ![Msg(c)] = @ + 1]
      /\ UNCHANGED <<stream, group, pel, stale, markers, dlq, operator>>
  BY DEF HandlerSucceeds, redis
<1> PICK m0 : m0 = Msg(c)
  OBVIOUS
<1>2. m0 \in Msgs /\ Handles(c, m0) /\ handled' = [handled EXCEPT ![m0] = @ + 1]
  BY <1>1, HasAtHand DEF Handles
<1>3. /\ StreamInv' /\ \A m : ~Handles(c, m)'
      /\ \A d \in Consumers : \A m : d # c => (Handles(d, m)' <=> Handles(d, m))
  BY <1>1, AfterEntry
<1>4. \A m, e : Stands(e, m)' => Stands(e, m)
  BY <1>1, LettersStand
<1>5. ASSUME NEW m \in Msgs \ Keyless PROVE OneTurn(m)'
  <2>1. CASE m # m0
    BY <1>1, <1>2, <1>3, <1>4, <2>1, NobodyIsNext DEF HandlingInv
  <2>2. CASE m = m0
    <3>1. handled[m] = 0 /\ handled'[m] = 1 /\ m \in markers' /\ m \notin Broken \cup Invalid /\ \A e : ~Stands(e, m)
      BY <1>1, <1>2, <2>2 DEF HandlingInv, OneTurn, NoTurn
    <3>2. \A d \in Consumers : ~Handles(d, m)'
      BY <1>2, <1>3, <2>2 DEF HandlingInv, OneTurn
    <3> QED BY <1>4, <3>1, <3>2 DEF OneTurn, NoTurn
  <2> QED BY <2>1, <2>2
<1> QED BY <1>1, <1>2, <1>3, <1>5 DEF HandlingInv


(* The entry is let in, and gets the turn with its marker.                 *)
LEMMA TurnIsGiven ==
  ASSUME IdemEnabled, Faults \cap {"setnx", "redrive"} = {}, StreamInv, HandlingInv, NEW c \in Consumers, Admit(c)
  PROVE  StreamInv' /\ HandlingInv'
<1> PICK k, m0 : k = [consumer[c] EXCEPT !.pc = "run", !.try = 1] /\ m0 = Msg(c)
  OBVIOUS
<1>1. /\ consumer[c].pc = "check" /\ m0 \notin Broken \cup Invalid /\ Becomes(c, k)
      /\ UNCHANGED <<stream, group, pel, stale, dlq, operator, handled>>
      /\ m0 \notin Keyless => m0 \notin markers /\ markers' = markers \cup {m0}
      /\ m0 \in Keyless => markers' = markers
  BY DEF Admit, Fault, IsDuplicate, Deduplicated
<1>2. m0 \in Msgs /\ ConsumerOK(consumer[c])
  BY <1>1, HasAtHand DEF StreamInv
<1>3. k.pc = "run" /\ k.todo = consumer[c].todo /\ ConsumerOK(k)'
  BY <1>1, <1>2 DEF ConsumerOK
<1>4. StreamInv'
  BY <1>1, <1>3, LoopInOrder DEF StreamInv
<1>5. /\ \A m : Handles(c, m)' <=> m = m0
      /\ \A d \in Consumers : \A m : d # c => (Handles(d, m)' <=> Handles(d, m))
  <2>1. \A m : Handles(c, m)' <=> Msg(c) = m
    BY ZenonT(40), <1>1, <1>3, OthersRun
  <2>2. \A d \in Consumers : \A m : d # c => (Handles(d, m)' <=> Handles(d, m))
    BY <1>1, OthersRun
  <2> QED BY <2>1, <2>2
<1>6. \A m, e : Stands(e, m)' => Stands(e, m)
  BY <1>1, LettersStand
<1>7. ASSUME NEW m \in Msgs \ Keyless PROVE OneTurn(m)'
  <2>1. CASE m # m0
    BY <1>1, <1>5, <1>6, <2>1, NobodyIsNext DEF HandlingInv
  <2>2. CASE m = m0
    <3>1. NoTurn(m) /\ m \in markers' /\ m \notin Broken \cup Invalid
      BY <1>1, <2>2 DEF HandlingInv, OneTurn
    <3> QED BY <1>1, <1>5, <1>6, <2>2, <3>1 DEF OneTurn, NoTurn
  <2> QED BY <2>1, <2>2
<1> QED BY <1>1, <1>4, <1>7 DEF HandlingInv

LEMMA HandlerFailing ==
  ASSUME StreamInv, DeadInv, RedriveInv, HandlingInv, NEW c \in Consumers, HandlerFails(c)
  PROVE  StreamInv' /\ DeadInv' /\ RedriveInv' /\ HandlingInv'
<1>1. /\ consumer[c].pc = "run" /\ ConsumerOK(consumer[c])
      /\ UNCHANGED <<stream, group, pel, stale, markers, operator, handled>>
  BY DEF HandlerFails, StreamInv
<1>2. CASE consumer[c].try < MaxDeliveries
  <2> PICK k : k = [consumer[c] EXCEPT !.try = @ + 1]
    OBVIOUS
  <2>1. Becomes(c, k) /\ UNCHANGED <<dlq, buried>>
    BY <1>2 DEF HandlerFails
  <2>2. k.pc = "run" /\ k.todo = consumer[c].todo /\ ConsumerOK(k)'
    BY <1>1 DEF ConsumerOK
  <2>3. StreamInv'
    BY <1>1, <2>1, <2>2, LoopInOrder DEF StreamInv
  <2>4. \A m : \A d \in Consumers : Handles(d, m)' => Handles(d, m)
    <3>1. \A m : Handles(c, m)' <=> Msg(c) = m
      BY <1>1, <2>1, <2>2, OthersRun
    <3>2. \A d \in Consumers : \A m : d # c => (Handles(d, m)' <=> Handles(d, m))
      BY <1>1, <2>1, OthersRun
    <3> QED BY <1>1, <3>1, <3>2 DEF Handles
  <2>5. \A m \in Msgs \ Keyless : OneTurn(m)'
    BY <1>1, <2>1, <2>4, LettersStand, NobodyIsNext DEF HandlingInv
  <2> QED BY <1>1, <2>1, <2>3, <2>5 DEF HandlingInv, DeadInv, RedriveInv
<1>3. CASE ~(consumer[c].try < MaxDeliveries)
  <2>1. Bury(Msg(c), "handler_failed") /\ Finish(c)
    BY <1>3 DEF HandlerFails
  <2>2. CASE UNCHANGED <<dlq, buried>>
    BY <1>1, <2>1, <2>2, EntryPassed DEF DeadInv, RedriveInv
  <2>3. CASE ~UNCHANGED <<dlq, buried>>
    <3> PICK m0, e0 : m0 = Msg(c) /\ e0 = [id |-> buried, msg |-> m0, reason |-> "handler_failed"]
      OBVIOUS
    <3>1. dlq' = dlq \cup {e0} /\ buried' = buried + 1
      BY <2>1, <2>3 DEF Bury
    <3> QED BY <1>1, <2>1, <3>1, TurnIsBuried
  <2> QED BY <2>2, <2>3
<1> QED BY <1>2, <1>3

(* A message is added to the stream.                                       *)
LEMMA StreamGrows ==
  ASSUME StreamInv, NEW m0 \in Msgs, stream' = Append(stream, m0), UNCHANGED <<group, pel, stale, consumer>>
  PROVE  StreamInv' /\ \A d \in Consumers : \A m : Handles(d, m)' => Handles(d, m)
<1>1. stream' \in Seq(Msgs) /\ Len(stream') = Len(stream) + 1 /\ Len(stream) \in Nat
  BY DEF StreamInv
<1>2. 1..Len(stream) \subseteq 1..Len(stream')
  BY <1>1
<1>3. \A d \in Consumers : ConsumerOK(consumer[d])'
  <2> TAKE d \in Consumers
  <2> QED BY <1>2 DEF StreamInv, ConsumerOK
<1>4. ASSUME NEW d \in Consumers, NEW m, Handles(d, m)' PROVE Handles(d, m)
  <2>1. consumer[d].pc = "run" /\ consumer'[d].todo = consumer[d].todo /\ Msg(d)' = m
    BY <1>4 DEF Handles
  <2>2. Msg(d)' = Msg(d)
    BY <2>1, StaysAtHand
  <2> QED BY <2>1, <2>2 DEF Handles
<1> QED BY <1>1, <1>2, <1>3, <1>4 DEF StreamInv

LEMMA ItemThere ==
  ASSUME DeadInv, RedriveInv, NEW o \in Operators, operator[o].items # {}
  PROVE  Item(o) \in operator[o].items /\ Item(o) \in dlq /\ Item(o).msg \in Msgs
<1> PICK items : items = operator[o].items
  OBVIOUS
<1>1. items \subseteq dlq /\ \A e \in items : e.id \in Nat
  BY DEF DeadInv, RedriveInv, DeadLetters
<1> PICK ids : ids = {e.id : e \in items}
  OBVIOUS
<1>2. ids \subseteq Nat /\ ids # {}
  BY <1>1
<1>3. PICK i \in ids : \A j \in ids : i <= j
  BY <1>2, LeastExists
<1>4. \E e \in items : \A f \in items : e.id <= f.id
  BY <1>3
<1>5. Item(o) \in items
  BY <1>4 DEF Item
<1> QED BY <1>1, <1>5 DEF DeadInv, DeadLetters

(* One operator at a time.                                                 *)
LEMMA RedriveBegins ==
  ASSUME \A p, q \in Operators : p = q, StreamInv, DeadInv, RedriveInv, HandlingInv,
         NEW o \in Operators, RedriveStart(o)
  PROVE  StreamInv' /\ DeadInv' /\ RedriveInv' /\ HandlingInv'
<1>1. /\ operator[o].items = {} /\ UNCHANGED <<redis, consumer, handled>>
      /\ \E items \in SUBSET dlq : operator' = [operator EXCEPT ![o] = [step |-> 1, items |-> items]]
  BY DEF RedriveStart
<1>2. PICK items \in SUBSET dlq : operator' = [p \in Operators |-> [step |-> 1, items |-> items]]
  BY <1>1 DEF RedriveInv
<1>3. RedriveInv'
  BY <1>1, <1>2 DEF RedriveInv, redis
<1>4. \A e : ~Redriven(e)
  BY <1>1 DEF Redriven
<1>5. \A m, e : Stands(e, m)' => Stands(e, m)
  BY <1>1, <1>4 DEF Stands, redis
<1>6. StreamInv' /\ DeadInv'
  BY <1>1 DEF StreamInv, DeadInv, ConsumerOK, redis
<1>7. \A m : \A d \in Consumers : Handles(d, m)' => Handles(d, m)
  BY <1>1 DEF Handles, Msg, Current, redis
<1>8. \A m \in Msgs \ Keyless : OneTurn(m)'
  BY <1>1, <1>5, <1>7, NobodyIsNext DEF HandlingInv, redis
<1> QED BY <1>1, <1>3, <1>6, <1>8 DEF HandlingInv

LEMMA RedriveGoesOn ==
  ASSUME \A p, q \in Operators : p = q, StreamInv, DeadInv, RedriveInv, HandlingInv,
         NEW o \in Operators, RedriveStep(o)
  PROVE  StreamInv' /\ DeadInv' /\ RedriveInv' /\ HandlingInv'
<1> PICK e0, items, n : e0 = Item(o) /\ items = operator[o].items /\ n = operator[o].step
  OBVIOUS
<1>1. /\ items # {} /\ e0 \in items /\ e0 \in dlq /\ e0.msg \in Msgs /\ n \in 1..3
      /\ UNCHANGED <<group, pel, stale, buried, consumer, handled>>
  BY ItemThere DEF RedriveStep, RedriveInv
<1>2. \A p \in Operators : p = o
  OBVIOUS
<1>6. ASSUME NEW e, Redriven(e) PROVE e = e0 /\ n > 1
  <2>1. PICK p \in Operators : operator[p].items # {} /\ operator[p].step > 1 /\ e = Item(p)
    BY <1>6 DEF Redriven
  <2>2. p = o
    BY <1>2
  <2> QED BY <2>1, <2>2
<1>7. ASSUME NEW k, operator' = [p \in Operators |-> [step |-> k, items |-> items]], k \in 2..3
      PROVE  Redriven(e0)'
  <2>1. Item(o)' = Item(o) /\ operator'[o].step = k /\ operator'[o].items = items
    BY <1>7 DEF Item
  <2> QED BY <1>1, <1>7, <2>1 DEF Redriven
<1>8. ASSUME NEW r, operator' = [operator EXCEPT ![o] = r]
      PROVE  operator' = [p \in Operators |-> r]
  BY <1>2, <1>8 DEF RedriveInv
<1>9. operator[o] = [step |-> n, items |-> items]
  BY DEF RedriveInv
<1>3. CASE n = 1
  <2>1. /\ markers' = markers \ {e0.msg} /\ UNCHANGED <<stream, dlq>>
        /\ operator' = [p \in Operators |-> [step |-> 2, items |-> items]]
    <3>1. RedriveSteps[n] = "unmark"
      BY <1>3 DEF RedriveSteps
    <3>2. operator' = [operator EXCEPT ![o] = [step |-> 2, items |-> items]]
      <4>1. operator' = [operator EXCEPT ![o] = NextStep(o)]
        BY <3>1 DEF RedriveStep
      <4>2. NextStep(o) = [step |-> 2, items |-> items]
        BY <1>3, <1>9 DEF NextStep
      <4> QED BY <4>1, <4>2
    <3> QED BY <1>1, <1>8, <3>1, <3>2 DEF RedriveStep
  <2>2. StreamInv' /\ DeadInv' /\ RedriveInv'
    BY <1>1, <2>1 DEF StreamInv, DeadInv, RedriveInv, ConsumerOK
  <2>3. \A e : ~Redriven(e)
    BY <1>2, <1>3, <1>6
  <2>4. Redriven(e0)'
    BY <1>7, <2>1
  <2>5. \A m, e : Stands(e, m)' => Stands(e, m) /\ e # e0
    BY <2>1, <2>3, <2>4 DEF Stands
  <2>6. \A m : \A d \in Consumers : Handles(d, m)' => Handles(d, m)
    BY <1>1, <2>1 DEF Handles, Msg, Current
  <2>7. ASSUME NEW m \in Msgs \ Keyless PROVE OneTurn(m)'
    <3>1. CASE m # e0.msg
      BY <1>1, <2>1, <2>5, <2>6, <3>1, NobodyIsNext DEF HandlingInv
    <3>2. CASE m = e0.msg /\ e0.reason = "handler_failed"
      <4>1. Stands(e0, m)
        BY <1>1, <2>3, <3>2 DEF Stands
      <4>2. handled[m] = 0 /\ \A d \in Consumers : ~Handles(d, m)
        BY <4>1 DEF HandlingInv, OneTurn
      <4>3. \A e : ~Stands(e, m)'
        BY <2>5, <4>1 DEF HandlingInv, OneTurn
      <4> QED BY <1>1, <2>6, <4>2, <4>3 DEF OneTurn, NoTurn
    <3>3. CASE m = e0.msg /\ e0.reason # "handler_failed"
      <4>1. m \in Invalid
        BY <1>1, <3>3 DEF DeadInv, DeadLetters
      <4>2. NoTurn(m)
        BY <4>1 DEF HandlingInv, OneTurn
      <4> QED BY <1>1, <2>5, <2>6, <4>2 DEF OneTurn, NoTurn
    <3> QED BY <3>1, <3>2, <3>3
  <2> QED BY <1>1, <2>2, <2>7 DEF HandlingInv
<1>4. CASE n = 2
  <2>1. /\ stream' = Append(stream, e0.msg) /\ UNCHANGED <<markers, dlq>>
        /\ operator' = [p \in Operators |-> [step |-> 3, items |-> items]]
    <3>1. RedriveSteps[n] = "publish"
      BY <1>4 DEF RedriveSteps
    <3>2. operator' = [operator EXCEPT ![o] = [step |-> 3, items |-> items]]
      <4>1. operator' = [operator EXCEPT ![o] = NextStep(o)]
        BY <3>1 DEF RedriveStep
      <4>2. NextStep(o) = [step |-> 3, items |-> items]
        BY <1>4, <1>9 DEF NextStep
      <4> QED BY <4>1, <4>2
    <3> QED BY <1>1, <1>8, <3>1, <3>2 DEF RedriveStep
  <2>2. StreamInv' /\ \A d \in Consumers : \A m : Handles(d, m)' => Handles(d, m)
    BY <1>1, <2>1, StreamGrows
  <2>3. DeadInv' /\ RedriveInv'
    BY <1>1, <2>1 DEF DeadInv, RedriveInv
  <2>4. \A e : Redriven(e) => Redriven(e)'
    BY <1>6, <1>7, <2>1
  <2>5. \A m, e : Stands(e, m)' => Stands(e, m)
    BY <2>1, <2>4 DEF Stands
  <2>6. \A m \in Msgs \ Keyless : OneTurn(m)'
    BY <1>1, <2>1, <2>2, <2>5, NobodyIsNext DEF HandlingInv
  <2> QED BY <1>1, <2>2, <2>3, <2>6 DEF HandlingInv
<1>5. CASE n = 3
  <2>1. /\ dlq' = dlq \ {e0} /\ UNCHANGED <<markers, stream>>
        /\ operator' = [p \in Operators |-> [step |-> 1, items |-> items \ {e0}]]
    <3>1. RedriveSteps[n] = "delete"
      BY <1>5 DEF RedriveSteps
    <3>2. operator' = [operator EXCEPT ![o] = [step |-> 1, items |-> items \ {e0}]]
      BY <3>1 DEF RedriveStep, NextItem
    <3> QED BY <1>1, <1>8, <3>1, <3>2 DEF RedriveStep
  <2>2. items \subseteq dlq
    BY DEF RedriveInv
  <2>3. StreamInv' /\ DeadInv' /\ RedriveInv'
    BY <1>1, <2>1, <2>2 DEF StreamInv, DeadInv, RedriveInv, ConsumerOK
  <2>4. \A e : Redriven(e) => e = e0
    BY <1>6
  <2>5. \A m, e : Stands(e, m)' => Stands(e, m)
    BY <2>1, <2>4 DEF Stands
  <2>6. \A m : \A d \in Consumers : Handles(d, m)' => Handles(d, m)
    BY <1>1, <2>1 DEF Handles, Msg, Current
  <2>7. \A m \in Msgs \ Keyless : OneTurn(m)'
    BY <1>1, <2>1, <2>5, <2>6, NobodyIsNext DEF HandlingInv
  <2> QED BY <1>1, <2>3, <2>7 DEF HandlingInv
<1> QED BY <1>1, <1>3, <1>4, <1>5


\* A keyed message has one turn at most, whoever it is delivered to and however
\* often: with a consumer, spent, or kept as a dead letter.  One operator works
\* on the dead letters, Redis answers SET NX, and a redrive that has begun an
\* entry ends it (see README for what happens otherwise).
THEOREM HandlingInvariant ==
  ASSUME IdemEnabled, Faults \cap {"setnx", "redrive"} = {}, \A p, q \in Operators : p = q
  PROVE  Spec => [](StreamInv /\ DeadInv /\ RedriveInv /\ HandlingInv)
<1>1. Init => StreamInv /\ DeadInv /\ RedriveInv /\ HandlingInv
  <2> SUFFICES ASSUME Init PROVE StreamInv /\ DeadInv /\ RedriveInv /\ HandlingInv
    OBVIOUS
  <2>1. StreamInv /\ DeadInv /\ RedriveInv
    BY DEF Init, StreamInv, DeadInv, RedriveInv, ConsumerOK, Down, NoGroup
  <2>2. HandlingInv
    BY DEF Init, HandlingInv, OneTurn, NoTurn, Handles, Stands, Down
  <2> QED BY <2>1, <2>2
<1>2. StreamInv /\ DeadInv /\ RedriveInv /\ HandlingInv /\ [Next]_vars
        => (StreamInv /\ DeadInv /\ RedriveInv /\ HandlingInv)'
  <2> SUFFICES ASSUME StreamInv, DeadInv, RedriveInv, HandlingInv, [Next]_vars
               PROVE  StreamInv' /\ DeadInv' /\ RedriveInv' /\ HandlingInv'
    OBVIOUS
  <2> DEFINE Rest == UNCHANGED <<stream, markers, dlq, buried, operator, handled>>
             InStream == stale' \subseteq pel' /\ pel' \subseteq 1..Len(stream)
  <2>0. /\ stale \subseteq pel /\ pel \subseteq 1..Len(stream) /\ stream \in Seq(Msgs)
        /\ group \in Nat \cup {NoGroup} /\ NoGroup = -1 /\ Len(stream) \in Nat
    BY DEF StreamInv, NoGroup
  <2>1. ASSUME NEW m \in Msgs, Send(m) PROVE StreamInv' /\ DeadInv' /\ RedriveInv' /\ HandlingInv'
    <3>1. /\ stream' = Append(stream, m)
          /\ UNCHANGED <<group, pel, stale, consumer, markers, dlq, buried, operator, handled>>
      BY <2>1 DEF Send
    <3>2. StreamInv' /\ \A d \in Consumers : \A x : Handles(d, x)' => Handles(d, x)
      BY <3>1, StreamGrows
    <3>3. \A x \in Msgs \ Keyless : OneTurn(x)'
      BY <3>1, <3>2, LettersStand, NobodyIsNext DEF HandlingInv
    <3> QED BY <3>1, <3>2, <3>3 DEF HandlingInv, DeadInv, RedriveInv
  <2>2. ASSUME NEW i \in pel, GoStale(i) PROVE StreamInv' /\ DeadInv' /\ RedriveInv' /\ HandlingInv'
    <3>1. UNCHANGED <<stream, group, pel, consumer, markers, dlq, buried, operator, handled>> /\ stale' = stale \cup {i}
      BY <2>2 DEF GoStale
    <3>2. StreamInv'
      BY <3>1 DEF StreamInv, ConsumerOK
    <3>3. \A d \in Consumers : \A x : Handles(d, x)' => Handles(d, x)
      BY <3>1 DEF Handles, Msg, Current
    <3>4. \A x \in Msgs \ Keyless : OneTurn(x)'
      BY <3>1, <3>3, LettersStand, NobodyIsNext DEF HandlingInv
    <3> QED BY <3>1, <3>2, <3>4 DEF HandlingInv, DeadInv, RedriveInv
  <2>3. ASSUME NEW c \in Consumers, NEW k, Becomes(c, k), ConsumerOK(k)', k.pc # "run", Rest, InStream,
               group' \in Nat \cup {NoGroup}, group # NoGroup => group' # NoGroup
        PROVE  StreamInv' /\ DeadInv' /\ RedriveInv' /\ HandlingInv'
    <3>1. StreamInv'
      BY <2>3, LoopInOrder
    <3>2. HandlingInv'
      BY <2>3, LoopGoesOn
    <3> QED BY <2>3, <3>1, <3>2 DEF DeadInv, RedriveInv
  <2>4. ASSUME NEW pc \in {"down", "claim", "read"}, pc # "down" => group' # NoGroup
        PROVE  ConsumerOK(At(pc))' /\ At(pc).pc # "run"
    <3> PICK k : k = At(pc)
      OBVIOUS
    <3>1. k = [pc |-> pc, todo |-> {}, acks |-> {}, try |-> 0]
      BY LoopRests
    <3>2. ConsumerOK(k)'
      BY <2>4, <3>1 DEF ConsumerOK
    <3> QED BY <3>1, <3>2 DEF ConsumerOK
  <2>5. ASSUME NEW ids, ids \subseteq 1..Len(stream), ids # {}, UNCHANGED stream, group' # NoGroup
        PROVE  ConsumerOK(Batch(ids))' /\ Batch(ids).pc # "run"
    <3> PICK k : k = Batch(ids)
      OBVIOUS
    <3>1. k = [pc |-> "check", todo |-> ids, acks |-> {}, try |-> 0]
      BY DEF Batch
    <3>2. ConsumerOK(k)'
      BY <2>5, <3>1 DEF ConsumerOK
    <3> QED BY <3>1, <3>2 DEF ConsumerOK
  <2>6. ASSUME NEW c \in Consumers, Start(c) PROVE StreamInv' /\ DeadInv' /\ RedriveInv' /\ HandlingInv'
    <3>1. Rest /\ UNCHANGED <<pel, stale>> /\ Becomes(c, At("claim")) /\ group' \in Nat /\ group' # NoGroup
      BY <2>0, <2>6 DEF Start
    <3> QED BY <2>0, <2>3, <2>4, <3>1
  <2>7. ASSUME NEW c \in Consumers, Claim(c) PROVE StreamInv' /\ DeadInv' /\ RedriveInv' /\ HandlingInv'
    <3>1. /\ Rest /\ UNCHANGED <<pel, group>> /\ stale' \subseteq stale /\ group # NoGroup
          /\ Becomes(c, At("read")) \/ \E ids \in SUBSET stale : ids # {} /\ Becomes(c, Batch(ids))
      BY <2>7 DEF Claim, FirstIds, StreamInv, ConsumerOK
    <3>2. CASE Becomes(c, At("read"))
      BY <2>0, <2>3, <2>4, <3>1, <3>2
    <3>3. ASSUME NEW ids \in SUBSET stale, ids # {}, Becomes(c, Batch(ids))
          PROVE  StreamInv' /\ DeadInv' /\ RedriveInv' /\ HandlingInv'
      BY <2>0, <2>3, <2>5, <3>1, <3>3
    <3> QED BY <3>1, <3>2, <3>3
  <2>8. ASSUME NEW c \in Consumers, Read(c) PROVE StreamInv' /\ DeadInv' /\ RedriveInv' /\ HandlingInv'
    <3> PICK ids : ids = FirstIds(Undelivered, BatchCount)
      OBVIOUS
    <3>1. /\ Rest /\ UNCHANGED stale /\ Becomes(c, Batch(ids)) /\ pel' = pel \cup ids
          /\ group' = group + Cardinality(ids) /\ group < Len(stream) /\ group # NoGroup
      BY <2>8 DEF Read, StreamInv, ConsumerOK
    <3>2. ids \subseteq 1..Len(stream) /\ ids # {} /\ Cardinality(ids) \in Nat
      BY <2>0, <3>1, FirstOfSome, ConsumerAssumption DEF Undelivered
    <3>3. group' \in Nat /\ group' # NoGroup
      BY <2>0, <3>1, <3>2
    <3> QED BY <2>0, <2>3, <2>5, <3>1, <3>2, <3>3
  <2>9. ASSUME NEW c \in Consumers, SkipDuplicate(c) PROVE StreamInv' /\ DeadInv' /\ RedriveInv' /\ HandlingInv'
    BY <2>9, EntryPassed DEF SkipDuplicate, redis, DeadInv, RedriveInv
  <2>10. ASSUME NEW c \in Consumers, Ack(c) PROVE StreamInv' /\ DeadInv' /\ RedriveInv' /\ HandlingInv'
    <3>1. /\ Rest /\ UNCHANGED group /\ group # NoGroup /\ Becomes(c, At("read"))
          /\ stale' \subseteq pel' /\ pel' \subseteq pel
      BY <2>0, <2>10 DEF Ack, StreamInv, ConsumerOK
    <3> QED BY <2>0, <2>3, <2>4, <3>1
  <2>11. ASSUME NEW c \in Consumers, Stop(c) \/ Crash(c) PROVE StreamInv' /\ DeadInv' /\ RedriveInv' /\ HandlingInv'
    <3>1. Rest /\ UNCHANGED <<group, pel, stale>> /\ Becomes(c, At("down"))
      BY <2>11 DEF Stop, Crash, redis, At, Down
    <3> QED BY <2>0, <2>3, <2>4, <3>1
  <2>12. ASSUME NEW c \in Consumers, Admit(c) PROVE StreamInv' /\ DeadInv' /\ RedriveInv' /\ HandlingInv'
    BY <2>12, TurnIsGiven DEF Admit, DeadInv, RedriveInv
  <2>13. ASSUME NEW c \in Consumers, Handle(c) PROVE StreamInv' /\ DeadInv' /\ RedriveInv' /\ HandlingInv'
    BY <2>13, TurnIsSpent, HandlerFailing DEF Handle, HandlerSucceeds, redis, DeadInv, RedriveInv
  <2>14. ASSUME NEW o \in Operators, RedriveStart(o) \/ RedriveStep(o) \/ RedriveFails(o)
         PROVE  StreamInv' /\ DeadInv' /\ RedriveInv' /\ HandlingInv'
    BY <2>14, RedriveBegins, RedriveGoesOn DEF RedriveFails, Fault
  <2>15. CASE UNCHANGED vars
    <3>1. /\ UNCHANGED <<stream, group, pel, stale, markers, dlq, buried>>
          /\ UNCHANGED <<consumer, operator, handled>>
      BY <2>15 DEF vars, redis
    <3>2. StreamInv' /\ DeadInv' /\ RedriveInv'
      BY <3>1 DEF StreamInv, ConsumerOK, DeadInv, RedriveInv
    <3>3. \A x : \A d \in Consumers : Handles(d, x)' => Handles(d, x)
      BY <3>1 DEF Handles, Msg, Current
    <3>4. \A x \in Msgs \ Keyless : OneTurn(x)'
      BY <3>1, <3>3, LettersStand, NobodyIsNext DEF HandlingInv
    <3> QED BY <3>1, <3>2, <3>4 DEF HandlingInv
  <2> QED BY <2>1, <2>2, <2>6, <2>7, <2>8, <2>9, <2>10, <2>11, <2>12, <2>13, <2>14, <2>15, RejectKeeps
          DEF Next, ConsumerStep
<1> QED BY <1>1, <1>2, PTL DEF Spec

\* A keyed message takes effect once, under the same assumptions
\* (base-consumer.ts: a redelivery is skipped).
THEOREM HandledAtMostOnce ==
  ASSUME IdemEnabled, Faults \cap {"setnx", "redrive"} = {}, \A p, q \in Operators : p = q
  PROVE  Spec => []HandledOnce
<1>1. HandlingInv => HandledOnce
  BY DEF HandlingInv, HandledOnce, OneTurn
<1> QED BY <1>1, HandlingInvariant, PTL
------------------------------------------------------------------------------
(* Nothing is forgotten.  A marker stands for a turn that somebody has or    *)
(* that is spent, and what a consumer is done with is marked, handled, lost, *)
(* a dead letter that is not back in the stream, or in the stream again.     *)

IsBack(e) == \E o \in Operators : operator[o].items # {} /\ operator[o].step = 3 /\ e = Item(o)
Unsent(e, m) == e \in dlq /\ e.msg = m /\ ~IsBack(e)
InAcks(j) == \E c \in Consumers : j \in consumer[c].acks
Waits(j) == j > group \/ (j \in pel /\ ~InAcks(j))
Finished(i) == i \notin pel \/ InAcks(i)

Delivered ==
  /\ group <= Len(stream) /\ born \in Nat \cup {NoGroup} /\ born <= group
  /\ group # NoGroup => born # NoGroup
  /\ pel \subseteq 1..group
  /\ \A c \in Consumers : consumer[c].todo \cup consumer[c].acks \subseteq 1..group
MarkerStands(m) ==
  m \in markers => handled[m] > 0 \/ m \in lost \/ (\E c \in Consumers : Handles(c, m)) \/ (\E e : Stands(e, m))
Kept(m) ==
  \/ m \in markers \/ handled[m] > 0 \/ m \in lost
  \/ \E e : Unsent(e, m)
  \/ \E j \in 1..Len(stream) : stream[j] = m /\ Waits(j)
EntryKept(i) == stream[i] \in Sendable /\ Finished(i) => Kept(stream[i])
KeptInv ==
  /\ handled \in [Msgs -> Nat] /\ lost \subseteq Msgs
  /\ \A m \in Msgs : MarkerStands(m)
  /\ \A i \in (born + 1)..group : EntryKept(i)
Known == StreamInv /\ DeadInv /\ RedriveInv /\ Delivered /\ KeptInv

(* What a step may do to a message without harm.                           *)
TurnKept(m) ==
  /\ handled[m] > 0 => handled'[m] > 0
  /\ m \in lost => m \in lost'
LettersKept(m) == \A e : (Stands(e, m) => Stands(e, m)') /\ (Unsent(e, m) => Unsent(e, m)')
LEMMA MarkerGoesOn ==
  ASSUME NEW m, MarkerStands(m), TurnKept(m), LettersKept(m), m \in markers' => m \in markers,
         \A c \in Consumers : Handles(c, m) => m \in lost' \/ handled'[m] > 0 \/ \E d \in Consumers : Handles(d, m)'
  PROVE  MarkerStands(m)'
  BY DEF MarkerStands, TurnKept, LettersKept
LEMMA KeptGoesOn ==
  ASSUME NEW m, Kept(m), TurnKept(m), LettersKept(m), m \in markers => m \in markers',
         \A j \in 1..Len(stream) : stream[j] = m /\ Waits(j) => j \in 1..Len(stream') /\ stream'[j] = m /\ Waits(j)'
  PROVE  Kept(m)'
  BY DEF Kept, TurnKept, LettersKept

(* The dead letters stand as they did while the operator rests.            *)
LEMMA LettersRest ==
  ASSUME UNCHANGED <<dlq, operator>>
  PROVE  \A m : LettersKept(m)
  BY DEF LettersKept, Stands, Unsent, Redriven, IsBack, Item

(* A new dead letter is nobody's item yet.                                 *)
LEMMA LetterStands ==
  ASSUME DeadInv, RedriveInv, UNCHANGED operator, NEW m0 \in Msgs,
         NEW reason \in {"handler_failed", "invalid_schema"}, reason = "invalid_schema" => m0 \in Invalid,
         NEW e0, e0 = [id |-> buried, msg |-> m0, reason |-> reason],
         dlq' = dlq \cup {e0}, buried' = buried + 1
  PROVE  /\ DeadInv' /\ RedriveInv' /\ \A m : LettersKept(m)
         /\ Unsent(e0, m0)'
         /\ reason = "handler_failed" => Stands(e0, m0)'
<1>1. DeadInv' /\ RedriveInv'
  BY LetterAdded
<1>2. e0.id = buried /\ e0.msg = m0 /\ e0.reason = reason /\ e0 \in dlq'
  OBVIOUS
<1>3. e0 \notin dlq
  BY <1>2 DEF DeadInv, DeadLetters
<1>4. ASSUME NEW o \in Operators, operator[o].items # {} PROVE Item(o) # e0
  BY <1>3, <1>4, ItemThere
<1>5. ~Redriven(e0) /\ ~IsBack(e0)
  BY <1>4 DEF Redriven, IsBack
<1>6. \A e : (Redriven(e)' <=> Redriven(e)) /\ (IsBack(e)' <=> IsBack(e))
  BY DEF Redriven, IsBack, Item
<1>7. \A m : LettersKept(m)
  BY <1>6 DEF LettersKept, Stands, Unsent
<1>8. Unsent(e0, m0)' /\ (reason = "handler_failed" => Stands(e0, m0)')
  BY <1>2, <1>5, <1>6 DEF Unsent, Stands
<1> QED BY <1>1, <1>7, <1>8

(* A consumer goes on without an entry at hand, with nothing to            *)
(* acknowledge: what it had is lost if its marker stands.                  *)
Rests(c, k) ==
  /\ Becomes(c, k) /\ ConsumerOK(k)' /\ k.pc # "run" /\ k.acks = {} /\ k.todo \subseteq 1..group'
  /\ UNCHANGED <<stream, markers, dlq, buried, operator, handled, born>>
  /\ stale' \subseteq pel' /\ pel' \subseteq 1..group' /\ group <= group' /\ group' \in Int /\ group' <= Len(stream)
  /\ lost \subseteq lost' /\ lost' \subseteq Msgs
  /\ consumer[c].pc = "run" => Msg(c) \notin markers \/ Msg(c) \in lost'
  /\ \A i \in (born + 1)..group' : i \notin pel' => i <= group /\ Finished(i)
  /\ \A j \in (group + 1)..group' : j \in pel'
  /\ \A j \in pel : ~InAcks(j) => j \in pel'

LEMMA RestKeeps ==
  ASSUME Known, NEW c \in Consumers, NEW k, Rests(c, k), group # NoGroup
  PROVE  Known'
<1> USE DEF Known
<1>1. /\ Becomes(c, k) /\ ConsumerOK(k)' /\ k.pc # "run" /\ k.acks = {} /\ k.todo \subseteq 1..group'
      /\ UNCHANGED <<stream, markers, dlq, buried, operator, handled, born>>
      /\ stale' \subseteq pel' /\ pel' \subseteq 1..group' /\ group <= group' /\ group' \in Int /\ group' <= Len(stream)
      /\ lost \subseteq lost' /\ lost' \subseteq Msgs
      /\ consumer[c].pc = "run" => Msg(c) \notin markers \/ Msg(c) \in lost'
  BY DEF Rests
<1>2. group \in Nat /\ group' \in Nat /\ Len(stream) \in Nat /\ born \in Int /\ group' # NoGroup
  BY <1>1 DEF StreamInv, Delivered, NoGroup
<1>3. StreamInv'
  <2>1. pel' \subseteq 1..Len(stream)
    BY <1>1, <1>2
  <2> QED BY <1>1, <1>2, <2>1, LoopInOrder
<1>4. /\ consumer' = [d \in Consumers |-> IF d = c THEN k ELSE consumer[d]]
      /\ \A d \in Consumers : \A m : d # c => (Handles(d, m)' <=> Handles(d, m))
  BY <1>1, OthersRun
<1>5. Delivered'
  <2>1. 1..group \subseteq 1..group'
    BY <1>1, <1>2
  <2>2. \A d \in Consumers : consumer'[d].todo \cup consumer'[d].acks \subseteq 1..group'
    BY <1>1, <1>4, <2>1 DEF Delivered
  <2>3. /\ group' <= Len(stream') /\ born' \in Nat \cup {NoGroup} /\ born' <= group' /\ pel' \subseteq 1..group'
        /\ group' # NoGroup => born' # NoGroup
    BY <1>1, <1>2 DEF Delivered, NoGroup
  <2> QED BY <2>2, <2>3 DEF Delivered
<1>6. \A m : LettersKept(m)
  BY <1>1, LettersRest
<1>7. \A m \in Msgs : TurnKept(m)
  BY <1>1 DEF TurnKept
<1>8. \A j : InAcks(j)' => InAcks(j)
  BY <1>1, <1>4 DEF InAcks
<1>9. \A m \in Msgs : MarkerStands(m)'
  <2> SUFFICES ASSUME NEW m \in Msgs PROVE MarkerStands(m)'
    OBVIOUS
  <2>1. CASE m \in markers
    <3>1. ASSUME NEW d \in Consumers, Handles(d, m) PROVE m \in lost' \/ Handles(d, m)'
      BY <1>1, <1>4, <2>1, <3>1 DEF Handles
    <3> QED BY <1>1, <1>6, <1>7, <3>1, MarkerGoesOn DEF KeptInv
  <2>2. CASE m \notin markers
    BY <1>1, <2>2 DEF MarkerStands
  <2> QED BY <2>1, <2>2
<1>10. ASSUME NEW j \in 1..Len(stream), Waits(j) PROVE Waits(j)'
  <2>1. CASE j > group
    <3>1. ~InAcks(j)
      BY <1>2, <2>1 DEF InAcks, Delivered
    <3>2. j \in Nat /\ (j > group' \/ j \in (group + 1)..group')
      BY <1>2, <2>1
    <3> QED BY <1>8, <3>1, <3>2 DEF Rests, Waits
  <2>2. CASE j \in pel /\ ~InAcks(j)
    BY <1>8, <2>2 DEF Rests, Waits
  <2> QED BY <1>10, <2>1, <2>2 DEF Waits
<1>11. ASSUME NEW i \in (born' + 1)..group' PROVE EntryKept(i)'
  <2>1. CASE Finished(i)' /\ stream[i] \in Sendable
    <3>1. i \in (born + 1)..group /\ Finished(i)
      <4>1. CASE i \notin pel'
        BY <1>1, <1>2, <4>1 DEF Rests
      <4>2. CASE i \in pel'
        <5>1. InAcks(i)
          BY <1>8, <2>1, <4>2 DEF Finished
        <5>2. i <= group
          BY <1>2, <5>1 DEF InAcks, Delivered
        <5> QED BY <1>1, <1>2, <5>1, <5>2 DEF Finished
      <4> QED BY <4>1, <4>2
    <3>2. Kept(stream[i]) /\ stream[i] \in Msgs
      BY <2>1, <3>1 DEF KeptInv, EntryKept, Sendable
    <3>3. Kept(stream[i])'
      BY <1>1, <1>6, <1>7, <1>10, <3>2, KeptGoesOn
    <3> QED BY <1>1, <3>3 DEF EntryKept, Kept, Waits, InAcks, Unsent, IsBack, Item
  <2>2. CASE ~(Finished(i)' /\ stream[i] \in Sendable)
    BY <1>1, <2>2 DEF EntryKept
  <2> QED BY <2>1, <2>2
<1>12. KeptInv'
  BY <1>1, <1>9, <1>11 DEF KeptInv
<1>13. DeadInv' /\ RedriveInv'
  BY <1>1 DEF DeadInv, RedriveInv
<1> QED BY <1>3, <1>5, <1>12, <1>13

(* A consumer is done with the entry at hand, whose message is accounted   *)
(* for; all others are where they were.                                    *)
Ends(c, m0) ==
  /\ consumer[c].pc \in {"check", "run"} /\ m0 = Msg(c) /\ Finish(c)
  /\ UNCHANGED <<stream, group, born, pel, stale, markers, operator, lost>>
  /\ handled' \in [Msgs -> Nat] /\ \A m \in Msgs : handled[m] > 0 => handled'[m] > 0
  /\ \A m : LettersKept(m)

LEMMA EndKeeps ==
  ASSUME Known, DeadInv', RedriveInv', NEW c \in Consumers, NEW m0, Ends(c, m0),
         MarkerStands(m0)', m0 \in Sendable => Kept(m0)'
  PROVE  Known'
<1> USE DEF Known
<1>1. /\ consumer[c].pc \in {"check", "run"} /\ m0 = Msg(c) /\ Finish(c)
      /\ UNCHANGED <<stream, group, born, pel, stale, markers, operator, lost>>
      /\ \A m : LettersKept(m)
  BY DEF Ends
<1> PICK here, k : /\ here = Current(c)
                   /\ k = [pc |-> IF consumer[c].todo \ {here} = {} THEN "ack" ELSE "check",
                           todo |-> consumer[c].todo \ {here}, acks |-> consumer[c].acks \cup {here}, try |-> 0]
  OBVIOUS
<1>2. /\ StreamInv'
      /\ \A m : ~Handles(c, m)'
      /\ \A d \in Consumers : \A m : d # c => (Handles(d, m)' <=> Handles(d, m))
  BY <1>1, AfterEntry
<1>3. consumer' = [d \in Consumers |-> IF d = c THEN k ELSE consumer[d]]
  BY <1>1 DEF Finish, Becomes, StreamInv
<1>4. here \in consumer[c].todo /\ here \in 1..Len(stream) /\ stream[here] = m0 /\ m0 \in Msgs
  BY <1>1, HasAtHand DEF Msg
<1>5. k.todo \subseteq consumer[c].todo /\ k.acks = consumer[c].acks \cup {here}
  OBVIOUS
<1>6. Delivered'
  <2>1. \A d \in Consumers : consumer'[d].todo \cup consumer'[d].acks \subseteq 1..group
    BY <1>3, <1>4, <1>5 DEF Delivered
  <2> QED BY <1>1, <2>1 DEF Delivered
<1>7. \A j : InAcks(j)' => InAcks(j) \/ j = here
  BY <1>3, <1>5 DEF InAcks
<1>8. \A m \in Msgs : TurnKept(m)
  BY <1>1 DEF Ends, TurnKept
<1>9. ASSUME NEW m \in Msgs PROVE MarkerStands(m)'
  <2>1. CASE m = m0
    BY <2>1 DEF MarkerStands, Handles, Msg, Current, Stands, Redriven, Item
  <2>2. CASE m # m0
    <3>1. \A d \in Consumers : Handles(d, m) => Handles(d, m)'
      BY <1>1, <1>2, <2>2 DEF Handles
    <3> QED BY <1>1, <1>8, <3>1, MarkerGoesOn DEF KeptInv
  <2> QED BY <2>1, <2>2
<1>10. ASSUME NEW i \in (born' + 1)..group' PROVE EntryKept(i)'
  <2>1. CASE stream[i] # m0 /\ stream[i] \in Sendable /\ Finished(i)'
    <3> PICK m : m = stream[i]
      OBVIOUS
    <3>1. i \in (born + 1)..group /\ i # here /\ Finished(i)
      BY <1>1, <1>4, <1>7, <2>1 DEF Finished
    <3>2. Kept(m) /\ m \in Msgs
      BY <2>1, <3>1 DEF KeptInv, EntryKept, Sendable
    <3>3. \A j \in 1..Len(stream) : stream[j] = m /\ Waits(j) => Waits(j)'
      BY <1>1, <1>4, <1>7, <2>1 DEF Waits
    <3>4. Kept(m)'
      BY <1>1, <1>8, <3>2, <3>3, KeptGoesOn
    <3> QED BY <1>1, <3>4 DEF EntryKept, Kept, Waits, InAcks, Unsent, IsBack, Item
  <2>2. CASE stream[i] = m0
    BY <1>1, <2>2 DEF EntryKept, Kept, Waits, InAcks, Unsent, IsBack, Item
  <2>3. CASE ~(stream[i] \in Sendable /\ Finished(i)')
    BY <1>1, <2>3 DEF EntryKept
  <2> QED BY <2>1, <2>2, <2>3
<1>11. KeptInv'
  BY <1>1, <1>9, <1>10 DEF KeptInv, Ends
<1> QED BY <1>2, <1>6, <1>11

(* The consumer stays with the entry at hand, and its handler runs.        *)
StaysRunning(c, k) ==
  /\ consumer[c].pc \in {"check", "run"} /\ Becomes(c, k)
  /\ ConsumerOK(k)' /\ k.pc = "run" /\ k.todo = consumer[c].todo /\ k.acks = consumer[c].acks
  /\ UNCHANGED <<stream, group, born, pel, stale, dlq, buried, operator, handled, lost>>
  /\ markers' \in {markers, markers \cup {Msg(c)}}
LEMMA HandKeeps ==
  ASSUME Known, NEW c \in Consumers, NEW k, StaysRunning(c, k)
  PROVE  Known'
<1>0. /\ consumer[c].pc \in {"check", "run"} /\ Becomes(c, k)
      /\ ConsumerOK(k)' /\ k.pc = "run" /\ k.todo = consumer[c].todo /\ k.acks = consumer[c].acks
      /\ UNCHANGED <<stream, group, born, pel, stale, dlq, buried, operator, handled, lost>>
      /\ markers' \in {markers, markers \cup {Msg(c)}}
  BY DEF StaysRunning
<1> USE <1>0
<1> USE DEF Known
<1> PICK m0 : m0 = Msg(c)
  OBVIOUS
<1>1. StreamInv'
  BY LoopInOrder DEF StreamInv
<1>2. /\ consumer' = [d \in Consumers |-> IF d = c THEN k ELSE consumer[d]]
      /\ \A d \in Consumers : \A m : d # c => (Handles(d, m)' <=> Handles(d, m))
      /\ \A m : Handles(c, m)' <=> m = m0
  <2>1. /\ consumer' = [d \in Consumers |-> IF d = c THEN k ELSE consumer[d]]
        /\ \A d \in Consumers : \A m : d # c => (Handles(d, m)' <=> Handles(d, m))
        /\ \A m : Handles(c, m)' <=> Msg(c) = m
    BY OthersRun
  <2> QED BY <2>1
<1>3. Delivered'
  BY <1>2 DEF Delivered
<1>4. \A j : (InAcks(j)' <=> InAcks(j)) /\ (Waits(j)' <=> Waits(j)) /\ (Finished(j)' <=> Finished(j))
  BY <1>2 DEF InAcks, Waits, Finished
<1>5. \A m : LettersKept(m) /\ TurnKept(m)
  BY LettersRest DEF TurnKept
<1>6. ASSUME NEW m \in Msgs PROVE MarkerStands(m)'
  <2>1. CASE m = m0
    BY <1>2, <2>1 DEF MarkerStands
  <2>2. CASE m # m0
    <3>1. \A d \in Consumers : Handles(d, m) => Handles(d, m)' \/ d = c
      BY <1>2
    <3>2. ~Handles(c, m)
      BY <2>2 DEF Handles
    <3>3. m \in markers' => m \in markers
      BY <2>2
    <3> QED BY <1>5, <3>1, <3>2, <3>3, MarkerGoesOn DEF KeptInv
  <2> QED BY <2>1, <2>2
<1>7. ASSUME NEW i \in (born' + 1)..group' PROVE EntryKept(i)'
  <2>1. CASE Finished(i)' /\ stream[i] \in Sendable
    <3> PICK m : m = stream[i]
      OBVIOUS
    <3>1. Kept(m)
      BY <1>4, <2>1 DEF KeptInv, EntryKept
    <3>2. Kept(m)'
      BY <1>4, <1>5, <3>1, KeptGoesOn
    <3> QED BY <3>2 DEF EntryKept, Kept, Waits, InAcks, Unsent, IsBack, Item
  <2>2. CASE ~(Finished(i)' /\ stream[i] \in Sendable)
    BY <2>2 DEF EntryKept
  <2> QED BY <2>1, <2>2
<1>8. KeptInv'
  BY <1>6, <1>7 DEF KeptInv
<1>9. DeadInv' /\ RedriveInv'
  BY DEF DeadInv, RedriveInv
<1> QED BY <1>1, <1>3, <1>8, <1>9

(* A message is added to the stream.                                       *)
LEMMA AddKeeps ==
  ASSUME Known, NEW m0 \in Msgs, stream' = Append(stream, m0), DeadInv', RedriveInv',
         UNCHANGED <<group, born, pel, stale, consumer, markers, handled, lost>>,
         \A m \in Msgs : MarkerStands(m)',
         \A m \in Msgs : Kept(m) => Kept(m)'
  PROVE  Known'
<1> USE DEF Known
<1>1. StreamInv'
  BY StreamGrows
<1>2. /\ Len(stream') = Len(stream) + 1 /\ Len(stream) \in Nat /\ group \in Int /\ born \in Int
      /\ \A j \in 1..Len(stream) : stream'[j] = stream[j]
  BY DEF StreamInv, Delivered, NoGroup
<1>3. Delivered'
  BY <1>2 DEF Delivered
<1>4. \A j : (Finished(j)' <=> Finished(j))
  BY DEF InAcks, Finished
<1>5. ASSUME NEW i \in (born' + 1)..group' PROVE EntryKept(i)'
  <2>1. i \in 1..Len(stream) /\ stream'[i] = stream[i] /\ stream[i] \in Msgs
    BY <1>2 DEF Delivered, StreamInv, NoGroup
  <2>2. CASE Finished(i)' /\ stream[i] \in Sendable
    <3> PICK m : m = stream[i]
      OBVIOUS
    <3>1. Kept(m)
      BY <1>4, <2>2 DEF KeptInv, EntryKept
    <3>2. Kept(m)'
      BY <2>1, <3>1
    <3> QED BY <2>1, <3>2 DEF EntryKept, Kept, Waits, InAcks, Unsent, IsBack, Item
  <2>3. CASE ~(Finished(i)' /\ stream[i] \in Sendable)
    BY <2>1, <2>3 DEF EntryKept
  <2> QED BY <2>2, <2>3
<1> QED BY <1>1, <1>3, <1>5 DEF KeptInv

(* The new entry waits.                                                    *)
LEMMA NewWaits ==
  ASSUME Known, NEW m0 \in Msgs, stream' = Append(stream, m0),
         UNCHANGED <<group, pel, stale, consumer>>
  PROVE  /\ \A j \in 1..Len(stream) : \A m : stream[j] = m /\ Waits(j)
                 => j \in 1..Len(stream') /\ stream'[j] = m /\ Waits(j)'
         /\ Len(stream) + 1 \in 1..Len(stream') /\ stream'[Len(stream) + 1] = m0 /\ Waits(Len(stream) + 1)'
         /\ \A d \in Consumers : \A m : Handles(d, m) => Handles(d, m)'
<1> USE DEF Known
<1>1. /\ Len(stream') = Len(stream) + 1 /\ Len(stream) \in Nat /\ group \in Int /\ group <= Len(stream)
      /\ \A j \in 1..Len(stream) : stream'[j] = stream[j]
      /\ stream'[Len(stream) + 1] = m0
  BY DEF StreamInv, Delivered, NoGroup
<1>2. \A j : Waits(j)' <=> Waits(j)
  BY DEF Waits, InAcks
<1> PICK n : n = Len(stream) + 1
  OBVIOUS
<1>3. n \in 1..Len(stream') /\ stream'[n] = m0 /\ Waits(n)'
  BY <1>1, <1>2 DEF Waits
<1>4. ASSUME NEW d \in Consumers, NEW m, Handles(d, m) PROVE Handles(d, m)'
  <2>1. Msg(d)' = Msg(d)
    BY <1>4, StaysAtHand DEF Handles
  <2> QED BY <1>4, <2>1 DEF Handles
<1>5. Waits(Len(stream) + 1)'
  BY <1>1, <1>2 DEF Waits
<1> QED BY <1>1, <1>2, <1>3, <1>4, <1>5

(* Neither the stream nor what a consumer does changes.                    *)
LEMMA LetterStepKeeps ==
  ASSUME Known, UNCHANGED <<stream, group, born, pel, consumer, handled, lost>>, stale' \subseteq pel,
         DeadInv', RedriveInv',
         \A m \in Msgs : MarkerStands(m)',
         \A m \in Msgs : Kept(m) => Kept(m)'
  PROVE  Known'
<1> USE DEF Known
<1>1. StreamInv' /\ Delivered'
  BY DEF StreamInv, ConsumerOK, Delivered
<1>2. \A j : (Finished(j)' <=> Finished(j))
  BY DEF InAcks, Finished
<1>3. ASSUME NEW i \in (born' + 1)..group' PROVE EntryKept(i)'
  <2>1. CASE Finished(i)' /\ stream[i] \in Sendable
    <3> PICK m : m = stream[i]
      OBVIOUS
    <3>1. Kept(m) /\ m \in Msgs
      BY <1>2, <2>1 DEF KeptInv, EntryKept, Sendable
    <3>2. Kept(m)'
      BY <3>1
    <3> QED BY <3>2 DEF EntryKept, Kept, Waits, InAcks, Unsent, IsBack, Item
  <2>2. CASE ~(Finished(i)' /\ stream[i] \in Sendable)
    BY <2>2 DEF EntryKept
  <2> QED BY <2>1, <2>2
<1> QED BY <1>1, <1>3 DEF KeptInv

(* ... and the letters stand: enough to know of a step that leaves the     *)
(* markers alone.                                                          *)
LEMMA MessagesKept ==
  ASSUME Known, UNCHANGED <<stream, group, pel, consumer, handled, lost>>, NEW m \in Msgs, LettersKept(m),
         m \in markers' <=> m \in markers
  PROVE  MarkerStands(m)' /\ (Kept(m) => Kept(m)')
<1>1. TurnKept(m)
  BY DEF TurnKept
<1>2. \A d \in Consumers : Handles(d, m) => Handles(d, m)'
  BY DEF Handles, Msg, Current
<1>3. \A j : Waits(j) => Waits(j)'
  BY DEF Waits, InAcks
<1> QED BY <1>1, <1>2, <1>3, MarkerGoesOn, KeptGoesOn DEF Known, KeptInv

LEMMA SendKeeps ==
  ASSUME Known, NEW m0 \in Msgs, Send(m0)
  PROVE  Known'
<1>1. /\ stream' = Append(stream, m0)
      /\ UNCHANGED <<group, born, pel, stale, markers, dlq, buried, consumer, operator, handled, lost>>
  BY DEF Send
<1>2. \A m : LettersKept(m) /\ TurnKept(m)
  BY <1>1, LettersRest DEF TurnKept
<1>3. ASSUME NEW m \in Msgs PROVE MarkerStands(m)' /\ (Kept(m) => Kept(m)')
  <2>1. \A j \in 1..Len(stream) : stream[j] = m /\ Waits(j) => j \in 1..Len(stream') /\ stream'[j] = m /\ Waits(j)'
    BY <1>1, NewWaits
  <2>2. \A d \in Consumers : Handles(d, m) => Handles(d, m)'
    BY <1>1, NewWaits
  <2> QED BY <1>1, <1>2, <2>1, <2>2, MarkerGoesOn, KeptGoesOn DEF Known, KeptInv
<1>4. DeadInv' /\ RedriveInv'
  BY <1>1 DEF Known, DeadInv, RedriveInv
<1> QED BY <1>1, <1>3, <1>4, AddKeeps

(* The operator's steps on one dead letter, the only operator's.           *)
LEMMA OperatorAlone ==
  ASSUME \A p, q \in Operators : p = q, RedriveInv, NEW o \in Operators, NEW r,
         operator' = [operator EXCEPT ![o] = r]
  PROVE  /\ operator' = [p \in Operators |-> r]
         /\ \A e : Redriven(e) <=> operator[o].items # {} /\ operator[o].step > 1 /\ e = Item(o)
         /\ \A e : IsBack(e) <=> operator[o].items # {} /\ operator[o].step = 3 /\ e = Item(o)
         /\ \A e : (Redriven(e)' => r.step > 1) /\ (IsBack(e)' => r.step = 3)
         /\ r.items = operator[o].items => \A e : (Redriven(e)' => e = Item(o)) /\ (IsBack(e)' => e = Item(o))
<1>1. operator' = [p \in Operators |-> r]
  BY DEF RedriveInv
<1>2. \A p \in Operators : p = o
  OBVIOUS
<1>3. r.items = operator[o].items => \A p \in Operators : Item(p)' = Item(o)
  BY <1>1, <1>2 DEF Item
<1>4. \A p \in Operators : operator'[p] = r
  BY <1>1
<1>5. \A e : Redriven(e) <=> operator[o].items # {} /\ operator[o].step > 1 /\ e = Item(o)
  BY <1>2 DEF Redriven
<1>6. \A e : IsBack(e) <=> operator[o].items # {} /\ operator[o].step = 3 /\ e = Item(o)
  BY <1>2 DEF IsBack
<1>7. \A e : (Redriven(e)' => r.step > 1) /\ (IsBack(e)' => r.step = 3)
  BY <1>4 DEF Redriven, IsBack
<1>8. r.items = operator[o].items => \A e : (Redriven(e)' => e = Item(o)) /\ (IsBack(e)' => e = Item(o))
  BY <1>3, <1>4 DEF Redriven, IsBack
<1> QED BY <1>1, <1>5, <1>6, <1>7, <1>8

LEMMA RedriveStartKeeps ==
  ASSUME \A p, q \in Operators : p = q, Known, NEW o \in Operators, RedriveStart(o)
  PROVE  Known'
<1>1. /\ operator[o].items = {} /\ UNCHANGED <<redis, consumer, handled, lost>>
      /\ \E items \in SUBSET dlq : operator' = [operator EXCEPT ![o] = [step |-> 1, items |-> items]]
  BY DEF RedriveStart
<1>2. PICK items \in SUBSET dlq : operator' = [operator EXCEPT ![o] = [step |-> 1, items |-> items]]
  BY <1>1
<1> PICK r : r = [step |-> 1, items |-> items]
  OBVIOUS
<1>3. operator' = [p \in Operators |-> r] /\ \A e : ~Redriven(e)' /\ ~IsBack(e)'
  <2>1. ~(r.step > 1) /\ r.step # 3 /\ operator' = [operator EXCEPT ![o] = r]
    BY <1>2
  <2>2. RedriveInv
    BY DEF Known
  <2> QED BY <2>1, <2>2, OperatorAlone
<1>4. RedriveInv' /\ DeadInv'
  BY <1>1, <1>3 DEF RedriveInv, DeadInv, Known, redis
<1>5. \A m : LettersKept(m)
  BY <1>1, <1>3 DEF LettersKept, Stands, Unsent, redis
<1>6. UNCHANGED <<stream, group, born, pel, stale, markers, consumer, handled, lost>>
  BY <1>1 DEF redis
<1>7. \A m \in Msgs : MarkerStands(m)' /\ (Kept(m) => Kept(m)')
  BY <1>5, <1>6, MessagesKept
<1>8. stale' \subseteq pel
  BY <1>6 DEF Known, StreamInv
<1> QED BY <1>4, <1>6, <1>7, <1>8, LetterStepKeeps

LEMMA RedriveFailsKeeps ==
  ASSUME \A p, q \in Operators : p = q, Known, NEW o \in Operators, RedriveFails(o)
  PROVE  Known'
<1> PICK r : r = NextItem(o)
  OBVIOUS
<1>1. operator' = [operator EXCEPT ![o] = r] /\ UNCHANGED <<redis, consumer, handled, lost>>
  BY DEF RedriveFails
<1>2. r.step = 1 /\ ~(r.step > 1) /\ r.step # 3 /\ r.items \subseteq operator[o].items /\ r = [step |-> 1, items |-> r.items]
  BY DEF NextItem
<1>3. operator' = [p \in Operators |-> r] /\ \A e : ~Redriven(e)' /\ ~IsBack(e)'
  BY <1>1, <1>2, OperatorAlone DEF Known
<1>4. RedriveInv' /\ DeadInv'
  BY <1>1, <1>2, <1>3 DEF RedriveInv, DeadInv, Known, redis
<1>5. \A m : LettersKept(m)
  BY <1>1, <1>3 DEF LettersKept, Stands, Unsent, redis
<1>6. UNCHANGED <<stream, group, born, pel, stale, markers, consumer, handled, lost>>
  BY <1>1 DEF redis
<1>7. \A m \in Msgs : MarkerStands(m)' /\ (Kept(m) => Kept(m)')
  BY <1>5, <1>6, MessagesKept
<1>8. stale' \subseteq pel
  BY <1>6 DEF Known, StreamInv
<1> QED BY <1>4, <1>6, <1>7, <1>8, LetterStepKeeps

LEMMA RedriveStepKeeps ==
  ASSUME \A p, q \in Operators : p = q, Known, NEW o \in Operators, RedriveStep(o)
  PROVE  Known'
<1> USE DEF Known
<1> PICK e0, items, n : e0 = Item(o) /\ items = operator[o].items /\ n = operator[o].step
  OBVIOUS
<1>1. /\ items # {} /\ e0 \in items /\ e0 \in dlq /\ e0.msg \in Msgs /\ n \in 1..3
      /\ UNCHANGED <<group, born, pel, stale, buried, consumer, handled, lost>>
      /\ operator[o] = [step |-> n, items |-> items] /\ items \subseteq dlq
  BY ItemThere DEF RedriveStep, RedriveInv
<1>2. stale' \subseteq pel
  BY <1>1 DEF StreamInv
<1>3. CASE n = 1
  <2> PICK r : r = [step |-> 2, items |-> items]
    OBVIOUS
  <2>1. /\ markers' = markers \ {e0.msg} /\ UNCHANGED <<stream, dlq>>
        /\ operator' = [operator EXCEPT ![o] = r]
    <3>1. RedriveSteps[n] = "unmark"
      BY <1>3 DEF RedriveSteps
    <3>2. NextStep(o) = r
      BY <1>1, <1>3 DEF NextStep
    <3> QED BY <3>1, <3>2 DEF RedriveStep
  <2>2. operator' = [p \in Operators |-> r] /\ \A e : (Redriven(e)' => e = e0) /\ ~IsBack(e)'
    <3>1. r.step # 3 /\ r.items = operator[o].items /\ RedriveInv
      BY <1>1
    <3> QED BY <2>1, <3>1, OperatorAlone
  <2>3. RedriveInv' /\ DeadInv'
    BY <1>1, <2>1, <2>2 DEF RedriveInv, DeadInv
  <2>4. ASSUME NEW m \in Msgs PROVE MarkerStands(m)' /\ (Kept(m) => Kept(m)')
    <3>1. CASE m = e0.msg
      <4>1. Unsent(e0, m)' /\ m \notin markers'
        BY <1>1, <2>1, <2>2, <3>1 DEF Unsent
      <4> QED BY <4>1 DEF MarkerStands, Kept
    <3>2. CASE m # e0.msg
      <4>1. LettersKept(m)
        BY <2>1, <2>2, <3>2 DEF LettersKept, Stands, Unsent
      <4>2. m \in markers' <=> m \in markers
        BY <2>1, <3>2
      <4> QED BY <1>1, <2>1, <4>1, <4>2, MessagesKept
    <3> QED BY <3>1, <3>2
  <2> QED BY <1>1, <1>2, <2>1, <2>3, <2>4, LetterStepKeeps
<1>4. CASE n = 2
  <2> PICK r, m0 : r = [step |-> 3, items |-> items] /\ m0 = e0.msg
    OBVIOUS
  <2>1. /\ stream' = Append(stream, m0) /\ UNCHANGED <<markers, dlq>>
        /\ operator' = [operator EXCEPT ![o] = r]
    <3>1. RedriveSteps[n] = "publish"
      BY <1>4 DEF RedriveSteps
    <3>2. NextStep(o) = r
      BY <1>1, <1>4 DEF NextStep
    <3> QED BY <3>1, <3>2 DEF RedriveStep
  <2>2. /\ operator' = [p \in Operators |-> r]
        /\ \A e : (Redriven(e)' => e = e0) /\ (IsBack(e)' => e = e0)
        /\ Redriven(e0)
    <3>1. r.step = 3 /\ r.items = operator[o].items /\ RedriveInv /\ operator[o].items # {} /\ operator[o].step > 1
      BY <1>1, <1>4
    <3> QED BY ZenonT(40), <2>1, <3>1, OperatorAlone
  <2>3. RedriveInv' /\ DeadInv'
    BY <1>1, <2>1, <2>2 DEF RedriveInv, DeadInv
  <2>4. m0 \in Msgs /\ \A m : TurnKept(m)
    BY <1>1 DEF TurnKept
  <2>5. ASSUME NEW m \in Msgs PROVE \A e : Stands(e, m) => Stands(e, m)'
    BY <2>1, <2>2 DEF Stands
  <2>6. ASSUME NEW m \in Msgs PROVE MarkerStands(m)'
    <3>1. \A d \in Consumers : Handles(d, m) => Handles(d, m)'
      BY <1>1, <2>1, <2>4, NewWaits
    <3> QED BY <1>1, <2>1, <2>5, <3>1 DEF MarkerStands, KeptInv
  <2>7. ASSUME NEW m \in Msgs, Kept(m) PROVE Kept(m)'
    <3>1. CASE m = m0
      <4> PICK i : i = Len(stream) + 1
        OBVIOUS
      <4>1. i \in 1..Len(stream') /\ stream'[i] = m0
        BY <1>1, <2>1, <2>4, NewWaits
      <4>2. Waits(i)'
        <5>1. i > group
          BY <1>1 DEF Delivered, StreamInv, NoGroup
        <5> QED BY <1>1, <5>1 DEF Waits
      <4> QED BY <3>1, <4>1, <4>2 DEF Kept
    <3>2. CASE m # m0
      <4>1. LettersKept(m)
        BY <2>1, <2>2, <2>5, <3>2 DEF LettersKept, Unsent
      <4>2. \A j \in 1..Len(stream) : stream[j] = m /\ Waits(j) => j \in 1..Len(stream') /\ stream'[j] = m /\ Waits(j)'
        BY <1>1, <2>1, <2>4, NewWaits
      <4> QED BY <2>1, <2>4, <2>7, <4>1, <4>2, KeptGoesOn
    <3> QED BY <3>1, <3>2
  <2> QED BY <1>1, <2>1, <2>3, <2>4, <2>6, <2>7, AddKeeps
<1>5. CASE n = 3
  <2> PICK r : r = [step |-> 1, items |-> items \ {e0}]
    OBVIOUS
  <2>1. /\ dlq' = dlq \ {e0} /\ UNCHANGED <<markers, stream>>
        /\ operator' = [operator EXCEPT ![o] = r]
    <3>1. RedriveSteps[n] = "delete"
      BY <1>5 DEF RedriveSteps
    <3>2. NextItem(o) = r
      BY DEF NextItem
    <3> QED BY <3>1, <3>2 DEF RedriveStep
  <2>2. /\ operator' = [p \in Operators |-> r] /\ Redriven(e0) /\ IsBack(e0)
        /\ \A e : ~Redriven(e)' /\ ~IsBack(e)'
    <3>1. ~(r.step > 1) /\ r.step # 3 /\ RedriveInv /\ operator[o].items # {} /\ operator[o].step > 1 /\ operator[o].step = 3
      BY <1>1, <1>5
    <3> QED BY <2>1, <3>1, OperatorAlone
  <2>3. RedriveInv' /\ DeadInv'
    <3>1. items \ {e0} \subseteq dlq'
      BY <1>1, <2>1
    <3>2. r \in [step : 1..3, items : SUBSET dlq']
      BY <3>1
    <3>3. RedriveInv'
      BY <2>2, <3>2 DEF RedriveInv
    <3>4. DeadInv'
      BY <1>1, <2>1 DEF DeadInv
    <3> QED BY <3>3, <3>4
  <2>4. \A m : LettersKept(m)
    BY <2>1, <2>2 DEF LettersKept, Stands, Unsent
  <2>5. \A m \in Msgs : MarkerStands(m)' /\ (Kept(m) => Kept(m)')
    BY <1>1, <2>1, <2>4, MessagesKept
  <2> QED BY <1>1, <1>2, <2>1, <2>3, <2>5, LetterStepKeeps
<1> QED BY <1>1, <1>3, <1>4, <1>5
(* Entries that nobody has read yet are read in the order of the stream.   *)
LEMMA FirstOfRange ==
  ASSUME NEW lo \in Nat, NEW hi \in Nat, lo < hi, NEW n \in Nat \ {0}
  PROVE  \E k \in Nat : /\ FirstIds((lo + 1)..hi, n) = (lo + 1)..(lo + k) /\ lo + k <= hi
                        /\ Cardinality(FirstIds((lo + 1)..hi, n)) = k
<1>1. ASSUME NEW i \in (lo + 1)..hi PROVE Cardinality({j \in (lo + 1)..hi : j <= i}) = i - lo
  <2>1. {j \in (lo + 1)..hi : j <= i} = (lo + 1)..i
    OBVIOUS
  <2>2. Cardinality((lo + 1)..i) = IF lo + 1 > i THEN 0 ELSE i - (lo + 1) + 1
    BY FS_Interval
  <2>3. ~(lo + 1 > i) /\ i - (lo + 1) + 1 = i - lo
    OBVIOUS
  <2>4. Cardinality((lo + 1)..i) = i - lo
    BY <2>2, <2>3
  <2> QED BY <2>1, <2>4
<1>2. FirstIds((lo + 1)..hi, n) = {i \in (lo + 1)..hi : i - lo <= n}
  BY <1>1 DEF FirstIds
<1>6. hi - lo \in Nat \ {0}
  OBVIOUS
<1> PICK k \in Nat : k = IF lo + n <= hi THEN n ELSE hi - lo
  BY <1>6
<1>3. lo + k <= hi /\ k > 0
  <2>1. CASE lo + n <= hi
    BY <2>1
  <2>2. CASE ~(lo + n <= hi)
    BY <2>2
  <2> QED BY <2>1, <2>2
<1>5. {i \in (lo + 1)..hi : i - lo <= n} = (lo + 1)..(lo + k)
  <2>1. ASSUME NEW i \in (lo + 1)..hi PROVE i - lo <= n <=> i <= lo + k
    <3>1. CASE lo + n <= hi
      BY <3>1
    <3>2. CASE ~(lo + n <= hi)
      BY <3>2
    <3> QED BY <3>1, <3>2
  <2>2. \A i \in (lo + 1)..(lo + k) : i \in (lo + 1)..hi /\ i <= lo + k
    BY <1>3
  <2>3. \A i \in (lo + 1)..hi : i <= lo + k => i \in (lo + 1)..(lo + k)
    BY <1>3
  <2> QED BY <2>1, <2>2, <2>3
<1>4. Cardinality((lo + 1)..(lo + k)) = k
  <2>1. Cardinality((lo + 1)..(lo + k)) = IF lo + 1 > lo + k THEN 0 ELSE lo + k - (lo + 1) + 1
    BY FS_Interval
  <2> QED BY <1>3, <2>1
<1> QED BY <1>2, <1>3, <1>4, <1>5

(* The steps of the loop between two entries.                              *)
LEMMA LoopKeeps ==
  ASSUME Known, NEW c \in Consumers, Start(c) \/ Claim(c) \/ Read(c) \/ Ack(c) \/ Stop(c) \/ Crash(c)
  PROVE  Known'
<1> USE DEF Known
<1>0. /\ stale \subseteq pel /\ pel \subseteq 1..group /\ stream \in Seq(Msgs) /\ Len(stream) \in Nat
      /\ group \in Int /\ group <= Len(stream) /\ NoGroup = -1 /\ lost \subseteq Msgs
      /\ group # NoGroup => group \in Nat /\ born \in Nat
      /\ ConsumerOK(consumer[c])
  BY DEF StreamInv, Delivered, NoGroup, KeptInv
<1>1. ASSUME NEW pc \in {"down", "claim", "read"}, pc # "down" => group' # NoGroup
      PROVE  ConsumerOK(At(pc))' /\ At(pc).pc # "run" /\ At(pc).acks = {} /\ At(pc).todo = {}
  <2> PICK k : k = At(pc)
    OBVIOUS
  <2>1. k = [pc |-> pc, todo |-> {}, acks |-> {}, try |-> 0]
    BY LoopRests
  <2>2. ConsumerOK(k)'
    BY <1>1, <2>1 DEF ConsumerOK
  <2> QED BY <2>1, <2>2 DEF ConsumerOK
<1>2. ASSUME NEW ids, ids \subseteq 1..Len(stream), ids # {}, UNCHANGED stream, group' # NoGroup
      PROVE  ConsumerOK(Batch(ids))' /\ Batch(ids).pc # "run" /\ Batch(ids).acks = {} /\ Batch(ids).todo = ids
  <2> PICK k : k = Batch(ids)
    OBVIOUS
  <2>1. k = [pc |-> "check", todo |-> ids, acks |-> {}, try |-> 0]
    BY DEF Batch
  <2>2. ConsumerOK(k)'
    BY <1>2, <2>1 DEF ConsumerOK
  <2> QED BY <2>1, <2>2 DEF ConsumerOK
<1>3. \A i \in (born + 1)..group : i \notin pel => i <= group /\ Finished(i)
  BY <1>0 DEF Finished
<1> DEFINE Same == UNCHANGED <<stream, markers, dlq, buried, operator, handled, born>>
<1>4. ASSUME NEW k, Becomes(c, k), ConsumerOK(k)', k.pc # "run", k.acks = {}, k.todo \subseteq 1..group,
             Same, UNCHANGED <<group, pel>>, stale' \subseteq pel, group # NoGroup,
             lost \subseteq lost', lost' \subseteq Msgs,
             consumer[c].pc = "run" => Msg(c) \notin markers \/ Msg(c) \in lost'
      PROVE  Known'
  <2>1. /\ pel' \subseteq 1..group' /\ group <= group' /\ group' \in Int /\ group' <= Len(stream)
        /\ (group + 1)..group' = {}
        /\ \A i \in (born + 1)..group' : i \notin pel' => i <= group /\ Finished(i)
    BY <1>0, <1>3, <1>4
  <2>2. Rests(c, k)
    BY <1>0, <1>4, <2>1 DEF Rests
  <2> QED BY <1>4, <2>2, RestKeeps
<1>5. CASE Start(c) /\ group # NoGroup
  <2>1. /\ consumer[c].pc = "down" /\ Becomes(c, At("claim")) /\ Same /\ UNCHANGED <<group, pel, stale, lost>>
    BY <1>5 DEF Start
  <2> QED BY <1>0, <1>1, <1>4, <1>5, <2>1
<1>6. CASE Start(c) /\ group = NoGroup
  <2>1. /\ consumer[c].pc = "down" /\ Becomes(c, At("claim"))
        /\ UNCHANGED <<stream, pel, stale, markers, dlq, buried, operator, handled, lost>>
        /\ group' = Len(stream) /\ born' = Len(stream)
    BY <1>6 DEF Start
  <2> PICK k : k = At("claim")
    OBVIOUS
  <2>2. ConsumerOK(k)' /\ k.pc # "run" /\ k.acks = {} /\ k.todo = {} /\ Becomes(c, k)
    BY <1>0, <1>1, <2>1
  <2>3. StreamInv'
    BY <1>0, <1>6, <2>1, <2>2, LoopInOrder DEF StreamInv
  <2>4. consumer' = [d \in Consumers |-> IF d = c THEN k ELSE consumer[d]]
    BY <2>2 DEF Becomes, StreamInv
  <2>5. 1..group = {}
    BY <1>0, <1>6
  <2>6. Delivered'
    <3>1. \A d \in Consumers : consumer'[d].todo \cup consumer'[d].acks = {}
      BY <2>2, <2>4, <2>5 DEF Delivered
    <3> QED BY <1>0, <2>1, <2>5, <3>1 DEF Delivered
  <2>7. \A m \in Msgs : MarkerStands(m)'
    <3>1. \A d \in Consumers : \A m : d # c => (Handles(d, m)' <=> Handles(d, m))
      BY <2>1, <2>2, OthersRun
    <3>2. \A d \in Consumers : \A m : Handles(d, m) => Handles(d, m)'
      BY <2>1, <3>1 DEF Handles
    <3>3. \A m : LettersKept(m) /\ TurnKept(m)
      BY <2>1, LettersRest DEF TurnKept
    <3> QED BY <2>1, <3>2, <3>3, MarkerGoesOn DEF KeptInv
  <2>8. (born' + 1)..group' = {}
    BY <1>0, <2>1
  <2>9. KeptInv'
    BY <2>1, <2>7, <2>8 DEF KeptInv
  <2> QED BY <2>1, <2>3, <2>6, <2>9 DEF DeadInv, RedriveInv
<1>7. CASE Claim(c)
  <2>1. /\ consumer[c].pc = "claim" /\ Same /\ UNCHANGED <<pel, group, lost>> /\ stale' \subseteq pel /\ group # NoGroup
        /\ Becomes(c, At("read")) \/ \E ids \in SUBSET stale : ids # {} /\ Becomes(c, Batch(ids))
    BY <1>0, <1>7 DEF Claim, FirstIds, ConsumerOK
  <2>2. CASE Becomes(c, At("read"))
    BY <1>0, <1>1, <1>4, <2>1, <2>2
  <2>3. ASSUME NEW ids \in SUBSET stale, ids # {}, Becomes(c, Batch(ids)) PROVE Known'
    <3>1. ids \subseteq 1..group /\ ids \subseteq 1..Len(stream)
      BY <1>0
    <3> QED BY <1>0, <1>2, <1>4, <2>1, <2>3, <3>1
  <2> QED BY <2>1, <2>2, <2>3
<1>8. CASE Read(c)
  <2> PICK ids : ids = FirstIds(Undelivered, BatchCount)
    OBVIOUS
  <2>1. /\ consumer[c].pc = "read" /\ Same /\ UNCHANGED <<stale, lost>> /\ Becomes(c, Batch(ids)) /\ pel' = pel \cup ids
        /\ group' = group + Cardinality(ids) /\ group < Len(stream) /\ group # NoGroup
    BY <1>0, <1>8 DEF Read, ConsumerOK
  <2>2. PICK n \in Nat : ids = (group + 1)..(group + n) /\ group + n <= Len(stream) /\ Cardinality(ids) = n
    <3>1. group \in Nat /\ Len(stream) \in Nat /\ group < Len(stream) /\ BatchCount \in Nat \ {0}
      BY <1>0, <2>1, ConsumerAssumption
    <3>2. \E n \in Nat : /\ FirstIds((group + 1)..Len(stream), BatchCount) = (group + 1)..(group + n)
                         /\ group + n <= Len(stream)
                         /\ Cardinality(FirstIds((group + 1)..Len(stream), BatchCount)) = n
      <4>1. PICK lo, hi : lo = group /\ hi = Len(stream)
        OBVIOUS
      <4>2. lo \in Nat /\ hi \in Nat /\ lo < hi
        BY <3>1, <4>1
      <4>3. \E k \in Nat : /\ FirstIds((lo + 1)..hi, BatchCount) = (lo + 1)..(lo + k) /\ lo + k <= hi
                           /\ Cardinality(FirstIds((lo + 1)..hi, BatchCount)) = k
        BY <3>1, <4>2, FirstOfRange
      <4> QED BY <4>1, <4>3
    <3> QED BY <3>2 DEF Undelivered
  <2>3. ids # {}
    BY <1>0, <2>1, FirstOfSome, ConsumerAssumption DEF Undelivered
  <2>4. /\ group' = group + n /\ group' \in Nat /\ group' # NoGroup /\ ids = (group + 1)..group'
        /\ ids \subseteq 1..group' /\ ids \subseteq 1..Len(stream) /\ group <= group' /\ group' <= Len(stream)
    BY <1>0, <2>1, <2>2
  <2>5. pel' \subseteq 1..group' /\ stale' \subseteq pel'
    <3>1. pel \subseteq 1..group /\ group \in Nat /\ stale \subseteq pel
      BY <1>0, <2>1
    <3>2. 1..group \subseteq 1..group'
      BY <2>4, <3>1
    <3>3. pel' = pel \cup ids /\ stale' = stale /\ ids \subseteq 1..group'
      BY <2>1, <2>4
    <3> QED BY <3>1, <3>2, <3>3, Zenon
  <2>6. ASSUME NEW i \in (born + 1)..group', i \notin pel' PROVE i <= group /\ Finished(i)
    <3>1. i \notin ids /\ i \notin pel
      BY <2>1, <2>6
    <3>2. i <= group
      BY <1>0, <2>1, <2>4, <3>1
    <3> QED BY <3>1, <3>2 DEF Finished
  <2>7. Rests(c, Batch(ids))
    <3> PICK k : k = Batch(ids)
      OBVIOUS
    <3>1. Becomes(c, k) /\ ConsumerOK(k)' /\ k.pc # "run" /\ k.acks = {} /\ k.todo \subseteq 1..group'
      BY <1>2, <2>1, <2>3, <2>4
    <3>2. Rests(c, k)
      BY <1>0, <2>1, <2>4, <2>5, <2>6, <3>1 DEF Rests
    <3> QED BY <3>2
  <2> QED BY <2>1, <2>7, RestKeeps
<1>9. CASE Ack(c)
  <2> PICK k : k = At("read")
    OBVIOUS
  <2>1. /\ consumer[c].pc = "ack" /\ Same /\ UNCHANGED <<group, lost>> /\ Becomes(c, k) /\ group # NoGroup
        /\ \/ pel' = pel \ consumer[c].acks /\ stale' = stale \ consumer[c].acks
           \/ UNCHANGED <<pel, stale>>
    BY <1>0, <1>9 DEF Ack, ConsumerOK
  <2>2. stale' \subseteq pel' /\ pel' \subseteq 1..group'
    BY <1>0, <2>1
  <2>3. \A i \in (born + 1)..group' : i \notin pel' => i <= group /\ Finished(i)
    BY <1>3, <2>1 DEF Finished, InAcks
  <2>4. (group + 1)..group' = {} /\ group <= group' /\ group' \in Int /\ group' <= Len(stream)
    BY <1>0, <2>1
  <2>5. \A j \in pel : ~InAcks(j) => j \in pel'
    BY <2>1 DEF InAcks
  <2>6. ConsumerOK(k)' /\ k.pc # "run" /\ k.acks = {} /\ k.todo \subseteq 1..group'
    BY <1>0, <1>1, <2>1
  <2>7. Rests(c, k)
    BY <1>0, <2>1, <2>2, <2>3, <2>4, <2>5, <2>6 DEF Rests
  <2> QED BY <2>1, <2>7, RestKeeps
<1>10. CASE Stop(c) \/ Crash(c)
  <2>1. /\ consumer[c].pc # "down" /\ Same /\ UNCHANGED <<group, pel, stale>> /\ Becomes(c, At("down"))
        /\ lost \subseteq lost'
        /\ consumer[c].pc = "run" => Msg(c) \notin markers \/ Msg(c) \in lost'
    BY <1>10 DEF Stop, Crash, redis, At, Down
  <2>2. lost' \subseteq Msgs /\ group # NoGroup
    BY <1>0, <1>10, HasAtHand DEF Stop, Crash, ConsumerOK
  <2> QED BY <1>0, <1>1, <1>4, <2>1, <2>2
<1> QED BY <1>5, <1>6, <1>7, <1>8, <1>9, <1>10

(* The steps on the entry at hand.  No dead letter fails to be written.    *)
LEMMA EntryKeeps ==
  ASSUME "dlq" \notin Faults, Known, NEW c \in Consumers,
         Reject(c) \/ SkipDuplicate(c) \/ Admit(c) \/ HandlerSucceeds(c) \/ HandlerFails(c)
  PROVE  Known'
<1> USE DEF Known
<1> PICK m0 : m0 = Msg(c)
  OBVIOUS
<1>0. consumer[c].pc \in {"check", "run"} /\ m0 \in Msgs /\ ConsumerOK(consumer[c])
  BY HasAtHand DEF Reject, SkipDuplicate, Admit, HandlerSucceeds, HandlerFails, StreamInv
<1>1. ASSUME consumer[c].pc = "check", Finish(c), UNCHANGED <<stream, group, born, pel, stale, markers, operator, lost, handled>>,
             \A m : LettersKept(m)
      PROVE  MarkerStands(m0)' /\ Ends(c, m0)
  <2>1. \A d \in Consumers : \A m : Handles(d, m) => Handles(d, m)'
    BY <1>1, AfterEntry DEF Handles
  <2>2. TurnKept(m0) /\ LettersKept(m0) /\ MarkerStands(m0)
    BY <1>0, <1>1 DEF TurnKept, KeptInv
  <2>3. m0 \in markers' => m0 \in markers
    BY <1>1
  <2>4. MarkerStands(m0)'
    BY <2>1, <2>2, <2>3, MarkerGoesOn
  <2> QED BY <1>0, <1>1, <2>4 DEF Ends, KeptInv
<1>2. CASE SkipDuplicate(c)
  <2>1. /\ consumer[c].pc = "check" /\ Finish(c) /\ m0 \in markers /\ UNCHANGED <<dlq, buried, operator>>
        /\ UNCHANGED <<stream, group, born, pel, stale, markers, operator, lost, handled>>
    BY <1>2 DEF SkipDuplicate, redis, IsDuplicate
  <2>2. MarkerStands(m0)' /\ Ends(c, m0)
    BY <1>1, <2>1, LettersRest
  <2>3. Kept(m0)'
    BY <2>1 DEF Kept
  <2>4. DeadInv' /\ RedriveInv'
    BY <2>1 DEF DeadInv, RedriveInv
  <2> QED BY <2>2, <2>3, <2>4, EndKeeps
<1>3. CASE Reject(c)
  <2>1. /\ consumer[c].pc = "check" /\ Finish(c)
        /\ UNCHANGED <<stream, group, born, pel, stale, markers, operator, lost, handled>>
    BY <1>3 DEF Reject
  <2>2. CASE m0 \in Broken
    <3>1. UNCHANGED <<dlq, buried>>
      BY <1>3, <2>2 DEF Reject
    <3>2. MarkerStands(m0)' /\ Ends(c, m0)
      BY <1>1, <2>1, <3>1, LettersRest
    <3>3. DeadInv' /\ RedriveInv'
      BY <2>1, <3>1 DEF DeadInv, RedriveInv
    <3> QED BY <2>2, <3>2, <3>3, EndKeeps DEF Sendable
  <2>3. CASE m0 \notin Broken
    <3> PICK e0 : e0 = [id |-> buried, msg |-> m0, reason |-> "invalid_schema"]
      OBVIOUS
    <3>1. m0 \in Invalid /\ dlq' = dlq \cup {e0} /\ buried' = buried + 1
      BY <1>3, <2>3 DEF Reject, Bury, Fault
    <3>2. DeadInv' /\ RedriveInv' /\ (\A m : LettersKept(m)) /\ Unsent(e0, m0)'
      BY <1>0, <2>1, <3>1, LetterStands
    <3>3. MarkerStands(m0)' /\ Ends(c, m0)
      BY <1>1, <2>1, <3>2
    <3>4. Kept(m0)'
      BY <3>2 DEF Kept
    <3> QED BY <3>2, <3>3, <3>4, EndKeeps
  <2> QED BY <2>2, <2>3
<1>4. CASE Admit(c)
  <2> PICK k : k = [consumer[c] EXCEPT !.pc = "run", !.try = 1]
    OBVIOUS
  <2>1. /\ Becomes(c, k) /\ markers' \in {markers, markers \cup {m0}}
        /\ UNCHANGED <<stream, group, born, pel, stale, dlq, buried, operator, handled, lost>>
    BY <1>4 DEF Admit
  <2>2. k.pc = "run" /\ k.todo = consumer[c].todo /\ k.acks = consumer[c].acks /\ ConsumerOK(k)'
    BY <1>0, <2>1 DEF ConsumerOK
  <2>3. StaysRunning(c, k)
    BY <1>0, <2>1, <2>2 DEF StaysRunning
  <2> QED BY <2>3, HandKeeps
<1>5. CASE HandlerSucceeds(c)
  <2>1. /\ consumer[c].pc = "run" /\ Finish(c) /\ handled' = [handled EXCEPT ![m0] = @ + 1]
        /\ UNCHANGED <<stream, group, born, pel, stale, markers, dlq, buried, operator, lost>>
    BY <1>5 DEF HandlerSucceeds, redis
  <2>2. handled' \in [Msgs -> Nat] /\ handled'[m0] > 0 /\ \A m \in Msgs : handled[m] > 0 => handled'[m] > 0
    BY <1>0, <2>1 DEF KeptInv
  <2>3. Ends(c, m0) /\ MarkerStands(m0)' /\ Kept(m0)'
    BY <1>0, <2>1, <2>2, LettersRest DEF Ends, MarkerStands, Kept
  <2>4. DeadInv' /\ RedriveInv'
    BY <2>1 DEF DeadInv, RedriveInv
  <2> QED BY <2>3, <2>4, EndKeeps
<1>6. CASE HandlerFails(c) /\ consumer[c].try < MaxDeliveries
  <2> PICK k : k = [consumer[c] EXCEPT !.try = @ + 1]
    OBVIOUS
  <2>1. /\ consumer[c].pc = "run" /\ Becomes(c, k) /\ markers' \in {markers, markers \cup {m0}}
        /\ UNCHANGED <<stream, group, born, pel, stale, dlq, buried, operator, handled, lost>>
    BY <1>6 DEF HandlerFails
  <2>2. k.pc = "run" /\ k.todo = consumer[c].todo /\ k.acks = consumer[c].acks /\ ConsumerOK(k)'
    BY <1>0, <2>1 DEF ConsumerOK
  <2>3. StaysRunning(c, k)
    BY <1>0, <2>1, <2>2 DEF StaysRunning
  <2> QED BY <2>3, HandKeeps
<1>7. CASE HandlerFails(c) /\ ~(consumer[c].try < MaxDeliveries)
  <2> PICK e0 : e0 = [id |-> buried, msg |-> m0, reason |-> "handler_failed"]
    OBVIOUS
  <2>1. /\ Finish(c) /\ dlq' = dlq \cup {e0} /\ buried' = buried + 1
        /\ UNCHANGED <<stream, group, born, pel, stale, markers, operator, lost, handled>>
    BY <1>7 DEF HandlerFails, Bury, Fault
  <2>2. DeadInv' /\ RedriveInv' /\ (\A m : LettersKept(m)) /\ Unsent(e0, m0)' /\ Stands(e0, m0)'
    BY <1>0, <2>1, LetterStands
  <2>3. Ends(c, m0) /\ MarkerStands(m0)' /\ Kept(m0)'
    BY <1>0, <2>1, <2>2 DEF Ends, MarkerStands, Kept, KeptInv
  <2> QED BY <2>2, <2>3, EndKeeps
<1> QED BY <1>2, <1>3, <1>4, <1>5, <1>6, <1>7

\* The invariant holds for any messages, consumers and batches, and whatever
\* stops, crashes, or fails of the other commands.  One operator works on the
\* dead letters, and no write to them fails (base-consumer.ts: routeToDlq logs
\* such a failure and acknowledges the entry).
THEOREM KeptInvariant ==
  ASSUME "dlq" \notin Faults, \A p, q \in Operators : p = q
  PROVE  Spec => []Known
<1>1. Init => Known
  <2> SUFFICES ASSUME Init PROVE Known
    OBVIOUS
  <2>1. StreamInv /\ DeadInv /\ RedriveInv
    BY DEF Init, StreamInv, DeadInv, RedriveInv, ConsumerOK, Down, NoGroup
  <2>2. Delivered
    BY DEF Init, Delivered, Down, NoGroup
  <2>3. KeptInv
    BY DEF Init, KeptInv, MarkerStands, NoGroup
  <2> QED BY <2>1, <2>2, <2>3 DEF Known
<1>2. Known /\ [Next]_vars => Known'
  <2> SUFFICES ASSUME Known, [Next]_vars PROVE Known'
    OBVIOUS
  <2>1. ASSUME NEW i \in pel, GoStale(i) PROVE Known'
    <3>1. /\ UNCHANGED <<stream, group, born, pel, consumer, handled, lost, markers, dlq, buried, operator>>
          /\ stale' = stale \cup {i}
      BY <2>1 DEF GoStale
    <3>2. \A m \in Msgs : MarkerStands(m)' /\ (Kept(m) => Kept(m)')
      BY <3>1, LettersRest, MessagesKept
    <3>3. stale' \subseteq pel /\ DeadInv' /\ RedriveInv'
      BY <3>1 DEF Known, StreamInv, DeadInv, RedriveInv
    <3> QED BY <3>1, <3>2, <3>3, LetterStepKeeps
  <2>2. CASE UNCHANGED vars
    <3>1. UNCHANGED <<stream, group, born, pel, consumer, handled, lost, markers, dlq, buried, operator, stale>>
      BY <2>2 DEF vars, redis
    <3>2. \A m \in Msgs : MarkerStands(m)' /\ (Kept(m) => Kept(m)')
      BY <3>1, LettersRest, MessagesKept
    <3>3. stale' \subseteq pel /\ DeadInv' /\ RedriveInv'
      BY <3>1 DEF Known, StreamInv, DeadInv, RedriveInv
    <3> QED BY <3>1, <3>2, <3>3, LetterStepKeeps
  <2>3. ASSUME NEW o \in Operators, RedriveStart(o) \/ RedriveStep(o) \/ RedriveFails(o) PROVE Known'
    BY <2>3, RedriveStartKeeps, RedriveStepKeeps, RedriveFailsKeeps
  <2>4. ASSUME NEW m \in Msgs, Send(m) PROVE Known'
    BY <2>4, SendKeeps
  <2>5. ASSUME NEW c \in Consumers, Start(c) \/ ConsumerStep(c) \/ Stop(c) \/ Crash(c) PROVE Known'
    BY <2>5, LoopKeeps, EntryKeeps DEF ConsumerStep, Handle
  <2> QED BY <2>1, <2>2, <2>3, <2>4, <2>5 DEF Next
<1> QED BY <1>1, <1>2, PTL DEF Spec

\* A message the group has received is never forgotten, under the same two
\* assumptions (base-consumer.ts: dispatchWithRetry, routeToDlq, ackAll; dlq.ts:
\* the order of a redrive).
THEOREM NothingForgotten ==
  ASSUME "dlq" \notin Faults, \A p, q \in Operators : p = q
  PROVE  Spec => []NeverForgotten
<1>1. Known => NeverForgotten
  <2> SUFFICES ASSUME Known, NEW m \in Sendable, group # NoGroup,
                      NEW i \in (born + 1)..group, stream[i] = m, i \notin pel
               PROVE  AccountedFor(m) \/ InHand(m) \/ Deliverable(m)
    BY DEF NeverForgotten
  <2>1. Kept(m) /\ MarkerStands(m)
    BY DEF Known, KeptInv, EntryKept, Finished, Sendable
  <2>2. CASE m \in markers \/ handled[m] > 0 \/ m \in lost \/ \E e : Unsent(e, m)
    BY <2>1, <2>2 DEF MarkerStands, AccountedFor, Settled, InHand, Handles, Stands, Unsent
  <2>3. CASE m \notin markers /\ \E j \in 1..Len(stream) : stream[j] = m /\ Waits(j)
    BY <2>3 DEF Deliverable, Waits
  <2> QED BY <2>1, <2>2, <2>3 DEF Kept
<1> QED BY <1>1, KeptInvariant, PTL

------------------------------------------------------------------------------
(* Events of changed files.  Between two reads the hand is empty, so what a  *)
(* read marks is what it hands over, and only the loop takes it from there:  *)
(* all that is at hand came from one read.                                   *)

Fates == {"unread", "expired", "passed over", "read", "requested", "buried", "dropped", "lost"}
EventRecords == [kind : EventKinds, fate : Fates]
IsFlow(st) == st = [x \in {"entries", "group"} |-> st[x]] /\ st.entries \in Seq(Nat) /\ st.group \in Nat
BatchesHold ==
  /\ \A b \in batches : b \subseteq Numbers
  /\ AtHand # {} => \E b \in batches : AtHand \subseteq b
EntriesKnown ==
  \A s \in Flows : \A x : IsIn(x, eventStreams[s].entries) \/ IsIn(x, hand[s]) => x \in Numbers
HearInv ==
  /\ hearingFaults \in Nat
  /\ fates \in Seq(EventRecords)
  /\ eventStreams = [s \in Flows |-> eventStreams[s]] /\ \A s \in Flows : IsFlow(eventStreams[s])
  /\ listener \in [at : {"top", "groups", "read", "hand"}, round : SUBSET Flows]
  /\ hand \in [Flows -> Seq(Nat)]
  /\ listener.at # "hand" => hand = None
  /\ watching \subseteq Flows
  /\ EntriesKnown
  /\ BatchesHold
  /\ ReadIsSettled

\* What a step writes into entries of the log leaves the log one.
LEMMA SameLength ==
  ASSUME NEW S, NEW s \in Seq(S), NEW f, f = [i \in DOMAIN s |-> f[i]], \A i \in DOMAIN s : f[i] \in S
  PROVE  f \in Seq(S) /\ DOMAIN f = DOMAIN s
<1>1. DOMAIN s = 1..Len(s) /\ Len(s) \in Nat
  OBVIOUS
<1>2. f \in [1..Len(s) -> S]
  BY <1>1
<1> QED BY <1>1, <1>2
LEMMA EventSettled ==
  ASSUME NEW r \in EventRecords, NEW fate \in Fates
  PROVE  /\ [r EXCEPT !.fate = fate] \in EventRecords
         /\ [r EXCEPT !.fate = fate].fate = fate /\ [r EXCEPT !.fate = fate].kind = r.kind
BY DEF EventRecords
Marks(E, fate) ==
  fates' = [e \in Numbers |-> IF e \in E THEN [fates[e] EXCEPT !.fate = fate] ELSE fates[e]]
AreMarked(E, fate) ==
  /\ fates' \in Seq(EventRecords) /\ Numbers' = Numbers
  /\ \A e \in Numbers : fates'[e].kind = fates[e].kind
  /\ \A e \in Numbers : fates'[e].fate = IF e \in E THEN fate ELSE fates[e].fate
LEMMA EventsSettled ==
  ASSUME fates \in Seq(EventRecords), NEW E, NEW fate \in Fates, Marks(E, fate)
  PROVE  AreMarked(E, fate)
<1>1. \A e \in Numbers : fates[e] \in EventRecords
  BY DEF Numbers
<1>2. \A e \in Numbers : /\ fates'[e] \in EventRecords /\ fates'[e].kind = fates[e].kind
                         /\ fates'[e].fate = IF e \in E THEN fate ELSE fates[e].fate
  BY <1>1, EventSettled DEF Marks
<1>3. fates' = [e \in DOMAIN fates |-> fates'[e]]
  BY DEF Numbers, Marks
<1> PICK f : f = fates'
  OBVIOUS
<1>4. f \in Seq(EventRecords) /\ DOMAIN f = DOMAIN fates
  BY <1>2, <1>3, SameLength DEF Numbers
<1> QED BY <1>2, <1>4 DEF Numbers, AreMarked

\* What the steps do to a stream.
LEMMA FlowMoves ==
  ASSUME NEW st, IsFlow(st), NEW n \in Nat
  PROVE  /\ IsFlow([st EXCEPT !.group = n]) /\ [st EXCEPT !.group = n].entries = st.entries
         /\ IsFlow([st EXCEPT !.entries = Append(st.entries, n)])
<1>1. st.entries \in Seq(Nat) /\ Append(st.entries, n) \in Seq(Nat)
  BY DEF IsFlow
<1>2. IsFlow([st EXCEPT !.group = n]) /\ [st EXCEPT !.group = n].entries = st.entries
  <2> PICK v : v = [st EXCEPT !.group = n]
    OBVIOUS
  <2>1. v = [x \in {"entries", "group"} |-> v[x]] /\ v.entries = st.entries /\ v.group = n
    BY DEF IsFlow
  <2> QED BY <1>1, <2>1 DEF IsFlow
<1>3. IsFlow([st EXCEPT !.entries = Append(st.entries, n)])
  <2> PICK w : w = Append(st.entries, n)
    OBVIOUS
  <2> PICK v : v = [st EXCEPT !.entries = w]
    OBVIOUS
  <2>1. v = [x \in {"entries", "group"} |-> v[x]] /\ v.entries = w /\ v.group = st.group
    BY DEF IsFlow
  <2> QED BY <1>1, <2>1 DEF IsFlow
<1> QED BY <1>2, <1>3
LEMMA FlowBegins == IsFlow([entries |-> << >>, group |-> NoEventGroup])
<1>1. << >> \in Seq(Nat) /\ NoEventGroup \in Nat
  BY HearAssumption DEF NoEventGroup
<1> QED BY <1>1 DEF IsFlow

\* One read hands over numbers.
LEMMA PartOfNumbers ==
  ASSUME NEW list \in Seq(Nat), NEW from \in Nat, NEW upTo \in Nat, upTo <= Len(list)
  PROVE  SubSeq(list, from + 1, upTo) \in Seq(Nat)
<1>1. ASSUME NEW i \in (from + 1)..upTo PROVE list[i] \in Nat
  <2>1. i \in 1..Len(list)
    OBVIOUS
  <2> QED BY <2>1
<1> QED BY <1>1
LEMMA ReadNumbers ==
  ASSUME NEW s \in Flows, IsFlow(eventStreams[s])
  PROVE  NextEntries(s) \in Seq(Nat)
<1> PICK st : st = eventStreams[s]
  OBVIOUS
<1>1. st.entries \in Seq(Nat) /\ st.group \in Nat /\ ReadCount \in Nat
  BY HearAssumption DEF IsFlow
<1> PICK upTo : upTo = IF st.group + ReadCount < Len(st.entries) THEN st.group + ReadCount ELSE Len(st.entries)
  OBVIOUS
<1>2. upTo \in Nat /\ upTo <= Len(st.entries)
  BY <1>1
<1>3. SubSeq(st.entries, st.group + 1, upTo) \in Seq(Nat)
  BY <1>1, <1>2, PartOfNumbers
<1> QED BY <1>3 DEF NextEntries

LEMMA PartIsIn ==
  ASSUME NEW list \in Seq(Nat), NEW from \in Nat, NEW upTo \in Nat, upTo <= Len(list),
         NEW x, IsIn(x, SubSeq(list, from + 1, upTo))
  PROVE  IsIn(x, list)
<1>1. Len(SubSeq(list, from + 1, upTo)) = IF from + 1 <= upTo THEN upTo - from ELSE 0
  OBVIOUS
<1>2. DOMAIN SubSeq(list, from + 1, upTo) = 1..Len(SubSeq(list, from + 1, upTo))
  BY PartOfNumbers
<1>3. PICK i \in DOMAIN SubSeq(list, from + 1, upTo) : SubSeq(list, from + 1, upTo)[i] = x
  BY DEF IsIn
<1>4. i \in 1..upTo - from
  BY <1>1, <1>2
<1>5. from + i \in DOMAIN list /\ x = list[from + i]
  BY <1>3, <1>4
<1> QED BY <1>5 DEF IsIn
LEMMA ReadFromStream ==
  ASSUME NEW s \in Flows, IsFlow(eventStreams[s]), NEW x, IsIn(x, NextEntries(s))
  PROVE  IsIn(x, eventStreams[s].entries)
<1> PICK st : st = eventStreams[s]
  OBVIOUS
<1>1. st.entries \in Seq(Nat) /\ st.group \in Nat /\ ReadCount \in Nat
  BY HearAssumption DEF IsFlow
<1> PICK upTo : upTo = IF st.group + ReadCount < Len(st.entries) THEN st.group + ReadCount ELSE Len(st.entries)
  OBVIOUS
<1>2. upTo \in Nat /\ upTo <= Len(st.entries)
  BY <1>1
<1>3. IsIn(x, SubSeq(st.entries, st.group + 1, upTo))
  BY DEF NextEntries
<1> QED BY <1>1, <1>2, <1>3, PartIsIn

\* An event after another of the hand is still in it.
LEMMA TailKeeps ==
  ASSUME NEW list \in Seq(Nat), list # << >>, NEW x, IsIn(x, list), x # Head(list)
  PROVE  IsIn(x, Tail(list))
<1>1. PICK i \in 1..Len(list) : list[i] = x
  BY DEF IsIn
<1>2. i # 1 /\ i - 1 \in 1..Len(Tail(list)) /\ Tail(list)[i - 1] = x
  BY <1>1
<1>3. DOMAIN Tail(list) = 1..Len(Tail(list))
  OBVIOUS
<1> QED BY <1>2, <1>3 DEF IsIn

LEMMA SettledOne ==
  ASSUME fates \in Seq(EventRecords), NEW e, NEW fate \in Fates, Settle(e, fate)
  PROVE  /\ fates' \in Seq(EventRecords) /\ Numbers' = Numbers
         /\ \A x \in Numbers : (x # e => fates'[x].fate = fates[x].fate) /\ (x = e => fates'[x].fate = fate)
         /\ \A x \in Numbers : fates'[x].kind = fates[x].kind
<1>1. Marks({e}, fate)
  BY DEF Numbers, Settle, Marks
<1>2. AreMarked({e}, fate)
  BY <1>1, EventsSettled
<1> QED BY <1>2 DEF AreMarked

\* An event that a null in its batch may have cost stays excused, and what is
\* still at hand stays covered by its batch.
Excused(e) == \E b \in batches : e \in b /\ \E n \in b : fates[n].kind = "null"
SameKinds == Numbers \subseteq Numbers' /\ \A n \in Numbers : fates'[n].kind = fates[n].kind
LEMMA ExcusedStays ==
  ASSUME BatchesHold, SameKinds, batches \subseteq batches', NEW e, Excused(e)
  PROVE  Excused(e)'
BY DEF BatchesHold, SameKinds, Excused
LEMMA BatchesStay ==
  ASSUME BatchesHold, SameKinds, batches' = batches, AtHand' \subseteq AtHand
  PROVE  BatchesHold'
BY DEF BatchesHold, SameKinds
LEMMA OneRead ==
  ASSUME BatchesHold, NEW e \in AtHand, fates[e].kind = "null"
  PROVE  \A x \in AtHand : Excused(x)
BY DEF BatchesHold, Excused

LEMMA HearStart == HearInit => HearInv
<1> SUFFICES ASSUME HearInit PROVE HearInv
  OBVIOUS
<1>1. fates \in Seq(EventRecords) /\ Numbers = {} /\ hand \in [Flows -> Seq(Nat)]
  BY DEF HearInit, None, Numbers
<1>2. \A s \in Flows : IsFlow(eventStreams[s])
  BY FlowBegins DEF HearInit
<1>3. BatchesHold
  BY <1>1 DEF HearInit, BatchesHold, AtHand
<1>4. EntriesKnown
  BY DEF HearInit, EntriesKnown, IsIn, None
<1> QED BY <1>1, <1>2, <1>3, <1>4 DEF HearInit, HearInv, ReadIsSettled

LEMMA HearStep == HearInv /\ [HearNext]_hearVars => HearInv'
<1> SUFFICES ASSUME HearInv, [HearNext]_hearVars PROVE HearInv'
  OBVIOUS
<1> USE DEF HearInv
<1>1. CASE UNCHANGED hearVars
  BY <1>1 DEF hearVars, ReadIsSettled, EntriesKnown, BatchesHold, AtHand, Numbers, IsIn, IsFlow, None
<1>2. CASE BeginRound
  BY <1>2 DEF BeginRound, ReadIsSettled, EntriesKnown, BatchesHold, AtHand, Numbers, IsIn, IsFlow, None
<1>3. CASE EnsureGroups
  <2>0. PICK made \in SUBSET listener.round :
        /\ (UNCHANGED hearingFaults) \/ HearingFault
        /\ eventStreams' = [s \in Flows |->
            IF s \in made THEN [eventStreams[s] EXCEPT !.group = Len(eventStreams[s].entries)] ELSE eventStreams[s]]
        /\ fates' = [e \in Numbers |->
            IF fates[e].fate = "unread" /\ \E s \in made : IsIn(e, eventStreams[s].entries)
            THEN [fates[e] EXCEPT !.fate = "passed over"] ELSE fates[e]]
    BY <1>3 DEF EnsureGroups
  <2>1. UNCHANGED <<hand, watching, batches>> /\ listener.at = "groups" /\ listener' = [listener EXCEPT !.at = "read"]
    BY <1>3 DEF EnsureGroups
  <2>2. fates' \in Seq(EventRecords) /\ Numbers' = Numbers /\ SameKinds
        /\ \A e \in Numbers : fates'[e].fate = "read" => fates[e].fate = "read"
    <3> PICK E : E = {e \in Numbers : fates[e].fate = "unread" /\ \E s \in made : IsIn(e, eventStreams[s].entries)}
      OBVIOUS
    <3>1. Marks(E, "passed over")
      BY <2>0 DEF Marks
    <3>2. "passed over" \in Fates
      BY DEF Fates
    <3>3. AreMarked(E, "passed over")
      BY <3>1, <3>2, EventsSettled
    <3> QED BY <3>3 DEF AreMarked, SameKinds
  <2>3. eventStreams' = [s \in Flows |-> eventStreams'[s]] /\ \A s \in Flows : IsFlow(eventStreams[s])'
    <3>1. \A s \in Flows : Len(eventStreams[s].entries) \in Nat
      BY DEF IsFlow
    <3>2. \A s \in Flows : IsFlow(eventStreams'[s])
      BY <2>0, <3>1, FlowMoves
    <3> QED BY <2>0, <3>2
  <2>4. hearingFaults' \in Nat /\ (hearingFaults' = 0 => hearingFaults = 0)
    <3>1. hearingFaults' = hearingFaults \/ hearingFaults' = hearingFaults + 1
      BY <2>0 DEF HearingFault
    <3> QED BY <3>1
  <2>5. AtHand' = AtHand
    BY <2>1, <2>2 DEF AtHand, IsIn
  <2>6. BatchesHold'
    BY <2>1, <2>2, <2>5, BatchesStay
  <2>7. ReadIsSettled'
    BY <2>1, <2>2, <2>4, <2>5, ExcusedStays DEF ReadIsSettled, Excused
  <2>8. EntriesKnown'
    <3>1. \A s \in Flows : Len(eventStreams[s].entries) \in Nat
      BY DEF IsFlow
    <3>2. \A s \in Flows : eventStreams'[s].entries = eventStreams[s].entries
      BY <2>0, <3>1, FlowMoves
    <3> QED BY <2>1, <2>2, <3>2 DEF EntriesKnown, IsIn
  <2> QED BY <2>1, <2>2, <2>3, <2>4, <2>6, <2>7, <2>8 DEF None
<1>4. CASE ReadRound
  <2>1. /\ hand = None /\ UNCHANGED watching
        /\ listener' = [at |-> IF hand' = None THEN "top" ELSE "hand", round |-> {}]
        /\ hearingFaults' \in Nat /\ (hearingFaults' = 0 => hearingFaults = 0)
    BY <1>4 DEF ReadRound, HearingFault
  <2>2. CASE UNCHANGED <<hand, eventStreams, fates, batches>>
    BY <2>1, <2>2 DEF ReadIsSettled, EntriesKnown, BatchesHold, AtHand, Numbers, IsIn, IsFlow, None
  <2>3. CASE ~UNCHANGED <<hand, eventStreams, fates, batches>>
    <3>1. /\ hand' = [s \in Flows |-> IF s \in listener.round THEN NextEntries(s) ELSE << >>]
          /\ fates' = [e \in Numbers |->
             IF \E s \in Flows : IsIn(e, hand'[s]) THEN [fates[e] EXCEPT !.fate = "read"] ELSE fates[e]]
          /\ eventStreams' = [s \in Flows |-> [eventStreams[s] EXCEPT !.group = @ + Len(hand'[s])]]
          /\ batches' = batches \cup ({AtHand'} \ {{}})
      BY <1>4, <2>3 DEF ReadRound
    <3>2. hand' \in [Flows -> Seq(Nat)]
      BY <3>1, ReadNumbers
    <3>3. fates' \in Seq(EventRecords) /\ Numbers' = Numbers /\ SameKinds
      <4> PICK E : E = {e \in Numbers : \E s \in Flows : IsIn(e, hand'[s])}
        OBVIOUS
      <4>1. Marks(E, "read")
        BY <3>1 DEF Marks
      <4>2. AreMarked(E, "read")
        BY <4>1, EventsSettled DEF Fates
      <4> QED BY <4>2 DEF AreMarked, SameKinds
    <3>4. eventStreams' = [s \in Flows |-> eventStreams'[s]] /\ \A s \in Flows : IsFlow(eventStreams[s])'
      <4>1. \A s \in Flows : eventStreams[s].group + Len(hand'[s]) \in Nat
        BY <3>2 DEF IsFlow
      <4>2. \A s \in Flows : IsFlow(eventStreams'[s])
        BY <3>1, <4>1, FlowMoves
      <4> QED BY <3>1, <4>2
    <3>5. ASSUME hearingFaults' = 0, NEW e \in Numbers', (fates[e].fate)' = "read"
          PROVE  e \in AtHand' \/ Excused(e)'
      <4>1. CASE \E s \in Flows : IsIn(e, hand'[s])
        BY <3>5, <4>1 DEF AtHand, IsIn
      <4>2. CASE ~\E s \in Flows : IsIn(e, hand'[s])
        <5>1. fates[e].fate = "read" /\ e \in Numbers /\ hearingFaults = 0
          BY <2>1, <3>1, <3>3, <3>5, <4>2
        <5>2. e \notin AtHand
          BY <2>1 DEF AtHand, None, IsIn
        <5>3. Excused(e)
          BY <5>1, <5>2 DEF ReadIsSettled, Excused
        <5>4. batches \subseteq batches'
          BY <3>1
        <5> QED BY <3>3, <5>3, <5>4, ExcusedStays
      <4> QED BY <4>1, <4>2
    <3>6. ReadIsSettled'
      BY <3>5 DEF ReadIsSettled, Excused
    <3>7. BatchesHold'
      <4>1. AtHand' \subseteq Numbers'
        BY DEF AtHand
      <4> QED BY <3>1, <3>3, <4>1 DEF BatchesHold
    <3>8. EntriesKnown'
      <4>0. \A s \in Flows : eventStreams[s].group + Len(hand'[s]) \in Nat
        BY <3>2 DEF IsFlow
      <4>1. \A s \in Flows : eventStreams'[s].entries = eventStreams[s].entries
        BY <3>1, <4>0, FlowMoves
      <4>2. ASSUME NEW s \in Flows, NEW x, IsIn(x, hand'[s]) PROVE x \in Numbers
        <5>1. CASE s \in listener.round
          BY <3>1, <4>2, <5>1, ReadFromStream DEF EntriesKnown
        <5>2. CASE s \notin listener.round
          BY <3>1, <4>2, <5>2 DEF IsIn
        <5> QED BY <5>1, <5>2
      <4> QED BY <3>3, <4>1, <4>2 DEF EntriesKnown, IsIn
    <3> QED BY <2>1, <3>2, <3>3, <3>4, <3>6, <3>7, <3>8 DEF None
  <2> QED BY <2>2, <2>3
<1>5. ASSUME NEW s \in Flows, HandleEvent(s) PROVE HearInv'
  <2> PICK e : e = Head(hand[s])
    OBVIOUS
  <2>1. /\ listener.at = "hand" /\ hand[s] # << >> /\ UNCHANGED <<watching, eventStreams, batches>>
        /\ \/ Settle(e, Outcome(fates[e].kind)) /\ Continue(Taken(s)) /\ UNCHANGED hearingFaults
           \/ Settle(e, "lost") /\ Continue(Taken(s)) /\ HearingFault
           \/ Settle(e, Outcome(fates[e].kind)) /\ Continue(None) /\ HearingFault
    BY <1>5 DEF HandleEvent
  <2>2. PICK fate \in {"requested", "buried", "dropped", "lost"} : Settle(e, fate)
    BY <2>1 DEF Outcome
  <2>3. /\ fates' \in Seq(EventRecords) /\ Numbers' = Numbers
        /\ \A x \in Numbers : (x # e => fates'[x].fate = fates[x].fate) /\ (x = e => fates'[x].fate = fate)
        /\ SameKinds
    <3>1. fates \in Seq(EventRecords) /\ fate \in Fates /\ Settle(e, fate)
      BY <2>2 DEF Fates
    <3> QED BY <3>1, SettledOne DEF SameKinds
  <2>4. PICK rest \in {Taken(s), None} : /\ Continue(rest)
                                         /\ (rest = Taken(s) /\ UNCHANGED hearingFaults) \/ HearingFault
    BY <2>1
  <2>5. hand[s] \in Seq(Nat) /\ Tail(hand[s]) \in Seq(Nat) /\ << >> \in Seq(Nat)
    BY <2>1
  <2>6. rest \in [Flows -> Seq(Nat)]
    BY <2>4, <2>5 DEF Taken, None
  <2>7. hearingFaults' \in Nat /\ (hearingFaults' = 0 => hearingFaults = 0 /\ rest = Taken(s))
    BY <2>4 DEF HearingFault
  <2>8. /\ hand' = rest
        /\ listener' \in [at : {"top", "groups", "read", "hand"}, round : SUBSET Flows]
        /\ listener'.at # "hand" => rest = None
    BY <2>1, <2>4 DEF Continue
  <2>9. \A x, t : t \in Flows /\ IsIn(x, hand'[t]) => IsIn(x, hand[t])
    <3>1. ASSUME NEW x, IsIn(x, Tail(hand[s])) PROVE IsIn(x, hand[s])
      <4> PICK list \in Seq(Nat) : list = hand[s] /\ list # << >>
        BY <2>1, <2>5
      <4>1. PICK i \in DOMAIN Tail(list) : Tail(list)[i] = x
        BY <3>1 DEF IsIn
      <4>2. i + 1 \in DOMAIN list /\ list[i + 1] = x
        BY <4>1
      <4> QED BY <4>2 DEF IsIn
    <3>2. \A x, t : t \in Flows => ~IsIn(x, None[t])
      BY DEF None, IsIn
    <3>3. CASE hand' = None
      BY <3>2, <3>3
    <3>4. CASE hand' = [hand EXCEPT ![s] = Tail(@)]
      BY <3>1, <3>4
    <3> QED BY <2>4, <2>8, <3>3, <3>4 DEF Taken
  <2>10. AtHand' \subseteq AtHand
    BY <2>3, <2>9 DEF AtHand, IsIn
  <2>11. BatchesHold'
    BY <2>1, <2>3, <2>10, BatchesStay
  <2>12. ASSUME hearingFaults' = 0, NEW x \in Numbers', (fates[x].fate)' = "read"
         PROVE  x \in AtHand' \/ Excused(x)'
    <3>1. x # e /\ fates[x].fate = "read" /\ x \in Numbers
      BY <2>2, <2>3, <2>12
    <3>2. x \in AtHand \/ Excused(x)
      BY <2>7, <2>12, <3>1 DEF ReadIsSettled, Excused
    <3>3. hand' = Taken(s)
      BY <2>7, <2>8, <2>12
    <3>4. CASE fates[e].kind # "null"
      <4>1. ASSUME NEW t \in Flows, IsIn(x, hand[t]) PROVE IsIn(x, hand'[t])
        <5>1. hand' = [hand EXCEPT ![s] = Tail(hand[s])]
          BY <3>3, <3>4 DEF Taken
        <5>2. CASE t = s
          BY <2>1, <2>5, <3>1, <4>1, <5>1, <5>2, TailKeeps
        <5>3. CASE t # s
          BY <4>1, <5>1, <5>3
        <5> QED BY <5>2, <5>3
      <4>2. x \in AtHand => x \in AtHand'
        BY <2>3, <4>1 DEF AtHand, IsIn
      <4> QED BY <2>1, <2>3, <3>2, <4>2, ExcusedStays
    <3>5. CASE fates[e].kind = "null"
      <4>1. Excused(x)
        <5>1. CASE x \in AtHand
          <6>1. e \in Numbers => e \in AtHand
            <7> PICK list \in Seq(Nat) : list = hand[s] /\ list # << >>
              BY <2>1, <2>5
            <7>1. 1 \in DOMAIN list /\ list[1] = e
              OBVIOUS
            <7> QED BY <7>1 DEF AtHand, IsIn
          <6>2. e \in Numbers
            <7> PICK list \in Seq(Nat) : list = hand[s] /\ list # << >>
              BY <2>1, <2>5
            <7>1. 1 \in DOMAIN list /\ list[1] = e
              OBVIOUS
            <7>2. IsIn(e, hand[s])
              BY <7>1 DEF IsIn
            <7> QED BY <7>2 DEF EntriesKnown
          <6> QED BY <3>5, <5>1, <6>1, <6>2, OneRead
        <5> QED BY <3>2, <5>1
      <4> QED BY <2>1, <2>3, <4>1, ExcusedStays
    <3> QED BY <3>4, <3>5
  <2>13. ReadIsSettled'
    BY <2>12 DEF ReadIsSettled, Excused
  <2>14. EntriesKnown'
    BY <2>1, <2>3, <2>9 DEF EntriesKnown, IsIn
  <2> QED BY <2>1, <2>3, <2>6, <2>7, <2>8, <2>11, <2>13, <2>14 DEF None, IsFlow
<1>6. ASSUME NEW s \in Flows, WatchSession(s) \/ UnwatchSession(s) PROVE HearInv'
  <2>1. UNCHANGED <<eventStreams, fates, listener, hand, batches, hearingFaults>> /\ watching' \subseteq Flows
    BY <1>6 DEF WatchSession, UnwatchSession
  <2> QED BY <2>1 DEF ReadIsSettled, EntriesKnown, BatchesHold, AtHand, Numbers, IsIn, IsFlow, None
<1>7. ASSUME NEW s \in Flows, StreamExpires(s) PROVE HearInv'
  <2>1. /\ fates' = [e \in Numbers |->
                 IF fates[e].fate = "unread" /\ IsIn(e, eventStreams[s].entries)
                 THEN [fates[e] EXCEPT !.fate = "expired"] ELSE fates[e]]
        /\ eventStreams' = [eventStreams EXCEPT ![s] = [entries |-> << >>, group |-> NoEventGroup]]
        /\ UNCHANGED <<watching, listener, hand, batches, hearingFaults>>
    BY <1>7 DEF StreamExpires
  <2>2. fates' \in Seq(EventRecords) /\ Numbers' = Numbers /\ SameKinds
        /\ \A e \in Numbers : fates'[e].fate = "read" => fates[e].fate = "read"
    <3> PICK E : E = {e \in Numbers : fates[e].fate = "unread" /\ IsIn(e, eventStreams[s].entries)}
      OBVIOUS
    <3>1. Marks(E, "expired")
      BY <2>1 DEF Marks
    <3>2. "expired" \in Fates
      BY DEF Fates
    <3>3. AreMarked(E, "expired")
      BY <3>1, <3>2, EventsSettled
    <3> QED BY <3>3 DEF AreMarked, SameKinds
  <2>3. eventStreams' = [t \in Flows |-> eventStreams'[t]] /\ \A t \in Flows : IsFlow(eventStreams[t])'
    <3>1. \A t \in Flows : IsFlow(eventStreams'[t])
      BY <2>1, FlowBegins
    <3> QED BY <2>1, <3>1
  <2>4. AtHand' = AtHand
    BY <2>1, <2>2 DEF AtHand, IsIn
  <2>5. BatchesHold'
    BY <2>1, <2>2, <2>4, BatchesStay
  <2>6. ReadIsSettled'
    BY <2>1, <2>2, <2>4, ExcusedStays DEF ReadIsSettled, Excused
  <2>7. EntriesKnown'
    <3>1. \A t \in Flows : \A x : IsIn(x, eventStreams'[t].entries) => IsIn(x, eventStreams[t].entries)
      BY <2>1 DEF IsIn, IsFlow
    <3> QED BY <2>1, <2>2, <3>1 DEF EntriesKnown
  <2> QED BY <2>1, <2>2, <2>3, <2>5, <2>6, <2>7 DEF None
<1>8. ASSUME NEW s \in Flows, NEW kind \in EventKinds, PublishEvent(s, kind) PROVE HearInv'
  <2>1. /\ fates' = Append(fates, [kind |-> kind, fate |-> "unread"])
        /\ eventStreams' = [eventStreams EXCEPT ![s].entries = Append(@, Len(fates) + 1)]
        /\ UNCHANGED <<watching, listener, hand, batches, hearingFaults>>
    BY <1>8 DEF PublishEvent
  <2>2. fates' \in Seq(EventRecords) /\ SameKinds /\ Len(fates) + 1 \in Numbers'
        /\ \A e \in Numbers' : fates'[e].fate = "read" => e \in Numbers /\ fates[e].fate = "read"
    <3> PICK r : r = [kind |-> kind, fate |-> "unread"]
      OBVIOUS
    <3>1. r \in EventRecords /\ r.fate = "unread"
      BY DEF EventRecords, Fates
    <3>2. fates' = Append(fates, r)
      BY <2>1
    <3>3. /\ fates' \in Seq(EventRecords) /\ Len(fates) \in Nat
          /\ Numbers' = 1..Len(fates) + 1 /\ Numbers = 1..Len(fates)
          /\ fates'[Len(fates) + 1] = r /\ \A e \in 1..Len(fates) : fates'[e] = fates[e]
      BY <3>1, <3>2 DEF Numbers
    <3> QED BY <3>1, <3>3 DEF SameKinds
  <2>3. eventStreams' = [t \in Flows |-> eventStreams'[t]] /\ \A t \in Flows : IsFlow(eventStreams[t])'
    <3>1. Len(fates) + 1 \in Nat
      OBVIOUS
    <3>2. eventStreams' = [eventStreams EXCEPT ![s] = [eventStreams[s] EXCEPT !.entries = Append(eventStreams[s].entries, Len(fates) + 1)]]
      BY <2>1
    <3>3. \A t \in Flows : IsFlow(eventStreams'[t])
      BY <3>1, <3>2, FlowMoves
    <3> QED BY <2>1, <3>3
  <2>4. AtHand' = AtHand
    BY <2>1, <2>2 DEF AtHand, EntriesKnown, SameKinds, IsIn
  <2>5. BatchesHold'
    BY <2>1, <2>2, <2>4, BatchesStay
  <2>6. ReadIsSettled'
    BY <2>1, <2>2, <2>4, ExcusedStays DEF ReadIsSettled, Excused
  <2>7. EntriesKnown'
    <3>1. ASSUME NEW t \in Flows, NEW x, IsIn(x, eventStreams'[t].entries) PROVE x \in Numbers'
      <4> PICK list \in Seq(Nat) : list = eventStreams[s].entries
        BY DEF IsFlow
      <4> PICK n \in Nat : n = Len(fates) + 1
        OBVIOUS
      <4>1. t # s => eventStreams'[t].entries = eventStreams[t].entries
        BY <2>1
      <4>2. eventStreams'[s].entries = Append(list, n)
        BY <2>1 DEF IsFlow
      <4>3. IsIn(x, Append(list, n)) => IsIn(x, list) \/ x = n
        <5>1. /\ Len(Append(list, n)) = Len(list) + 1 /\ Append(list, n)[Len(list) + 1] = n
              /\ \A i \in 1..Len(list) : Append(list, n)[i] = list[i]
              /\ DOMAIN Append(list, n) = 1..Len(list) + 1 /\ DOMAIN list = 1..Len(list) /\ Len(list) \in Nat
          OBVIOUS
        <5> QED BY <5>1 DEF IsIn
      <4> QED BY <2>2, <3>1, <4>1, <4>2, <4>3 DEF EntriesKnown, SameKinds
    <3> QED BY <2>1, <2>2, <3>1 DEF EntriesKnown, SameKinds, IsIn
  <2> QED BY <2>1, <2>2, <2>3, <2>5, <2>6, <2>7 DEF None
<1> QED BY <1>1, <1>2, <1>3, <1>4, <1>5, <1>6, <1>7, <1>8 DEF HearNext

\* Whatever the sessions, the streams and the agent do between two steps of the
\* loop, an event it read is settled or still at hand, unless a command failed or
\* the data of an event of the same read was null: an entry that is no JSON or of
\* another type takes none of its neighbours with it, and one that is null none
\* but those (watcher-event-consumer.ts: the loop over what XREADGROUP returned).
THEOREM ReadGetsSettled == HearSpec => []ReadIsSettled
<1>1. HearInv => ReadIsSettled
  BY DEF HearInv
<1> QED BY <1>1, HearStart, HearStep, PTL DEF HearSpec
=============================================================================
