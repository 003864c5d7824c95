------------------------------ MODULE AgentWork ------------------------------
(***************************************************************************)
(* What an agent does with the requests of one session: the skeleton that  *)
(* all agents share (xzawedShared/src/streams/collaboration.ts), and       *)
(* around it the work of the Planner, the Designer, the Developer, the     *)
(* Builder and the Tester, each a process of its own.                      *)
(*                                                                         *)
(* The consumer hands over one request after the other and repeats one     *)
(* whose handler throws (StreamConsumer).  The model of the language, the  *)
(* commands and the file system are external.  Of an answer of the         *)
(* language model only its class is kept, of a path whether it lies in the *)
(* workspace, of a command whether it is allowed and how it ends.          *)
(* Progress, artifacts and knowledge that go with an answer are left out.  *)
(***************************************************************************)
EXTENDS Integers, Sequences, FiniteSets

CONSTANTS
  Requests,     \* requests of the session, in the order of the stream
  Paths,        \* files of the workspace
  Outside,      \* paths that validatePath refuses
  Plans,        \* what the Developer's model proposes: sequences of changes
  MaxTries,     \* in-process tries of a handler
  MaxWorkFaults \* bound on failing publishes, failing writes and crashes

Contents == {"old", "new"}
Changes == [path : Paths \cup Outside, op : {"write", "delete"}]

ASSUME WorkAssumption ==
  /\ Requests \subseteq Nat /\ Paths \cap Outside = {} /\ Plans \subseteq Seq(Changes)
  /\ MaxTries \in Nat \ {0} /\ MaxWorkFaults \in Nat

VARIABLES
  role,      \* which agent this is
  waiting,   \* requests in the stream
  job,       \* what the agent is doing
  children,  \* the commands it started, running or not
  replies,   \* replies[q]: what was published for q
  dropped,   \* requests that ended in the dead letters, with a crash or as an abort
  files,     \* the workspace, what of it is half written, and temporary files
  workFaults

workVars == <<role, waiting, job, children, replies, dropped, files, workFaults>>

-----------------------------------------------------------------------------
Thinkers == {"planner", "designer"}
Runners == {"builder", "tester"}
Roles == Thinkers \cup Runners \cup {"developer"}
Stages == {"install", "run"}
Terminal == {"complete", "failed", "error", "query", "info"}

NoJob == [at |-> "idle"]
\* The command of stage s in a try of a request.
Child(q, t, s) == <<q, t, s>>
ChildIds == Requests \X (1..MaxTries) \X Stages
Unborn == [life |-> "none", code |-> "none", killed |-> FALSE, timer |-> "off", sigkill |-> FALSE]
Reply(q, what, t) == replies' = [replies EXCEPT ![q] = Append(@, [what |-> what, try |-> t])]

WorkTypeOK ==
  /\ role \in Roles /\ waiting \subseteq Requests /\ dropped \subseteq Requests
  /\ job.at \in {"idle", "check", "query", "think", "install", "run", "apply", "rename",
                 "reply", "error"}
  /\ job # NoJob => job.req \in Requests /\ job.try \in 1..MaxTries
  /\ children \in [ChildIds ->
       [life : {"none", "running", "ended"}, code : {"none", "zero", "other"},
        killed : BOOLEAN, timer : {"off", "armed", "fired"}, sigkill : BOOLEAN]]
  /\ replies \in [Requests -> Seq([what : Terminal, try : 1..MaxTries])]
  /\ files \in [Paths -> Contents \cup {"absent", "half"}]
  /\ workFaults \in 0..MaxWorkFaults

WorkInit ==
  /\ role \in Roles /\ waiting = Requests /\ job = NoJob
  /\ children = [c \in ChildIds |-> Unborn]
  /\ replies = [q \in Requests |-> <<>>] /\ dropped = {}
  /\ files = [p \in Paths |-> "old"] /\ workFaults = 0

WorkFault == workFaults < MaxWorkFaults /\ workFaults' = workFaults + 1
Become(j) == job' = j
JobAt(pc) == [job EXCEPT !.at = pc]
Fresh(q, t, pc) ==
  [at |-> pc, kind |-> pc, req |-> q, try |-> t, say |-> "error", plan |-> <<>>, left |-> <<>>]
Command == Child(job.req, job.try, job.at)

-----------------------------------------------------------------------------
(* The shared skeleton: handle of createCollaborativeHandler.              *)

IsNext(q) == q \in waiting /\ \A r \in waiting : q <= r

\* An abort ends here; a question of another agent is answered by the model,
\* and anything else is the agent's own work.
TakeRequest(q) ==
  /\ job = NoJob /\ IsNext(q) /\ waiting' = waiting \ {q}
  /\ \/ dropped' = dropped \cup {q} /\ UNCHANGED job
     \/ \E pc \in {"query", IF role \in Thinkers \cup {"developer"} THEN "think" ELSE "check"} :
          Become(Fresh(q, 1, pc)) /\ UNCHANGED dropped
  /\ UNCHANGED <<role, children, replies, files, workFaults>>

\* answerQuery: the model answers, or the call fails or takes too long.
QueryFails == job' = JobAt("error") /\ dropped' = dropped
AnswerQuery ==
  /\ job.at = "query"
  /\ \/ Become([JobAt("reply") EXCEPT !.say = "complete"]) /\ UNCHANGED dropped
     \/ QueryFails
  /\ UNCHANGED <<role, waiting, children, replies, files, workFaults>>

\* The handler has thrown: the consumer tries again, and gives up in the end.
Again ==
  IF job.try < MaxTries
  THEN Become(Fresh(job.req, job.try + 1, job.kind)) /\ UNCHANGED dropped
  ELSE Become(NoJob) /\ dropped' = dropped \cup {job.req}

\* publishResult, publishAgentQuery, publishQueryAnswer.  A publish that throws
\* may have reached the stream; what follows is an error reply of the same try.
PublishReply ==
  /\ job.at = "reply"
  /\ \/ Reply(job.req, job.say, job.try) /\ Become(NoJob) /\ UNCHANGED workFaults
     \/ WorkFault /\ Become(JobAt("error")) /\ UNCHANGED replies
     \/ WorkFault /\ Become(JobAt("error")) /\ Reply(job.req, job.say, job.try)
  /\ UNCHANGED <<role, waiting, children, dropped, files>>

\* publishError, whose failure the handler passes on.
PublishError ==
  /\ job.at = "error"
  /\ \/ /\ Reply(job.req, "error", job.try) /\ Become(NoJob)
        /\ UNCHANGED <<dropped, workFaults>>
     \/ WorkFault /\ Again /\ UNCHANGED replies
  /\ UNCHANGED <<role, waiting, children, files>>

-----------------------------------------------------------------------------
(* Planner, Designer and Developer: one call of the model.                 *)

\* What the text of an answer holds: no JSON object, one that does not parse,
\* a question to another agent, one to the user, or an object that satisfies
\* the agent's schema or not.
Texts == {"prose", "broken", "query", "clarify", "valid", "invalid"}

\* Planner: what cannot be read becomes a plan of one generic step.
PlannerSays(text) ==
  CASE text = "query" -> "query"
    [] text = "clarify" -> "info"
    [] OTHER -> "complete"

\* Designer: what cannot be read becomes a stub, marked as such, so that the
\* channel of the Manager that judges designs (Verdicts) refuses it.
DesignerSays(text) ==
  CASE text = "query" -> "query"
    [] text = "valid" -> "complete"
    [] OTHER -> "failed"

Think ==
  /\ job.at = "think" /\ role \in Thinkers
  /\ \/ \E text \in Texts :
          Become([JobAt("reply") EXCEPT
                    !.say = IF role = "planner" THEN PlannerSays(text) ELSE DesignerSays(text)])
     \/ Become(JobAt("error"))
  /\ UNCHANGED <<role, waiting, children, replies, dropped, files, workFaults>>

\* Developer: what cannot be read becomes no change at all.
Propose ==
  /\ job.at = "think" /\ role = "developer"
  /\ \/ \E plan \in Plans \cup {<<>>} :
          Become([JobAt("apply") EXCEPT !.plan = plan, !.left = plan])
     \/ Become(JobAt("error"))
  /\ UNCHANGED <<role, waiting, children, replies, dropped, files, workFaults>>

\* The change at hand, and the changes after it.
Change == Head(job.left)
NextChange == [JobAt("apply") EXCEPT !.left = Tail(@)]

\* validatePath refuses the path; what was applied before it stays.
RefuseChange ==
  /\ job.at = "apply" /\ job.left # <<>> /\ Change.path \in Outside
  /\ Become(JobAt("error"))
  /\ UNCHANGED <<role, waiting, children, replies, dropped, files, workFaults>>

\* applyChange, delete: the file becomes a backup.
DeleteFile ==
  /\ job.at = "apply" /\ job.left # <<>> /\ Change.op = "delete" /\ Change.path \in Paths
  /\ IF files[Change.path] = "absent"
     THEN Become(JobAt("error")) /\ UNCHANGED files
     ELSE Become(NextChange) /\ files' = [files EXCEPT ![Change.path] = "absent"]
  /\ UNCHANGED <<role, waiting, children, replies, dropped, workFaults>>

\* applyChange, create and modify: a temporary file is written and renamed.
WriteInPlace(p) == files' = [files EXCEPT ![p] = "half"]  \* mutant
WriteAside(p) == files' = files
WriteFile ==
  /\ job.at = "apply" /\ job.left # <<>> /\ Change.op = "write" /\ Change.path \in Paths
  /\ WriteAside(Change.path) /\ Become(JobAt("rename"))
  /\ UNCHANGED <<role, waiting, children, replies, dropped, workFaults>>

RenameFile ==
  /\ job.at = "rename"
  /\ \/ files' = [files EXCEPT ![Change.path] = "new"] /\ Become(NextChange) /\ UNCHANGED workFaults
     \/ WorkFault /\ Become(JobAt("error")) /\ UNCHANGED files
  /\ UNCHANGED <<role, waiting, children, replies, dropped>>

Applied ==
  /\ job.at = "apply" /\ job.left = <<>>
  /\ Become([JobAt("reply") EXCEPT !.say = "complete"])
  /\ UNCHANGED <<role, waiting, children, replies, dropped, files, workFaults>>

-----------------------------------------------------------------------------
(* Builder and Tester: commands.                                           *)

\* Paths and commands are refused; the Builder may have to install the
\* dependencies first.
Check ==
  /\ job.at = "check"
  /\ \E pc \in {"error", "run"} \cup (IF role = "builder" THEN {"install"} ELSE {}) : Become(JobAt(pc))
  /\ UNCHANGED <<role, waiting, children, replies, dropped, files, workFaults>>

\* exec: spawn, or the error event of a binary that is not there.
Spawn ==
  /\ job.at \in Stages /\ children[Command].life = "none"
  /\ \/ children' = [children EXCEPT ![Command].life = "running"] /\ UNCHANGED job
     \/ Become(JobAt("error")) /\ UNCHANGED children
  /\ UNCHANGED <<role, waiting, replies, dropped, files, workFaults>>

\* What the exit of the awaited command means: a failed installation is an
\* error, a failed build or test run an answer.
AfterInstallUnchecked(code) == JobAt("run")  \* mutant
AfterInstall(code) == IF code = "zero" THEN JobAt("run") ELSE JobAt("error")
AfterRun(code) == [JobAt("reply") EXCEPT !.say = IF code = "zero" THEN "complete" ELSE "failed"]

Awaited(c) == job.at \in Stages /\ c = Command

\* The close event.  The promise of a command that has timed out was settled.
Exit(c) ==
  /\ children[c].life = "running"
  /\ \E code \in {"zero", "other"} :
       /\ children' = [children EXCEPT ![c].life = "ended", ![c].code = code,
                                       ![c].timer = IF @ = "armed" THEN "off" ELSE @]
       /\ IF Awaited(c)
          THEN Become(IF job.at = "install" THEN AfterInstall(code) ELSE AfterRun(code))
          ELSE UNCHANGED job
  /\ UNCHANGED <<role, waiting, replies, dropped, files, workFaults>>

\* The timer of the command: SIGTERM, which it may ignore, a second timer, and
\* the error.  From here on proc.killed is true.
TimesOut ==
  /\ job.at \in Stages /\ children[Command].life = "running"
  /\ children' = [children EXCEPT ![Command].killed = TRUE, ![Command].timer = "armed"]
  /\ Become(JobAt("error"))
  /\ UNCHANGED <<role, waiting, replies, dropped, files, workFaults>>

\* The second timer.  The Builder kills; the Tester only what is not "killed".
BuilderKillsUnlessKilled(c) == ~children[c].killed  \* mutant
BuilderKills(c) == TRUE
TesterKills(c) == ~children[c].killed
KillTimer(c) ==
  /\ children[c].timer = "armed"
  /\ children' = [children EXCEPT
       ![c].timer = "fired",
       ![c].sigkill = IF role = "builder" THEN BuilderKills(c) ELSE TesterKills(c)]
  /\ UNCHANGED <<role, waiting, job, replies, dropped, files, workFaults>>

\* The agent dies: its commands go on, its timers do not, and the request will
\* be skipped when it is delivered again.
WorkCrash ==
  /\ job # NoJob /\ WorkFault
  /\ Become(NoJob) /\ dropped' = dropped \cup {job.req}
  /\ children' = [c \in ChildIds |-> [children[c] EXCEPT !.timer = "off"]]
  /\ UNCHANGED <<role, waiting, replies, files>>

-----------------------------------------------------------------------------
WorkNext ==
  \/ \E q \in Requests : TakeRequest(q)
  \/ AnswerQuery \/ PublishReply \/ PublishError
  \/ Think \/ Propose \/ RefuseChange \/ DeleteFile \/ WriteFile \/ RenameFile \/ Applied
  \/ Check \/ Spawn \/ TimesOut \/ WorkCrash
  \/ \E c \in ChildIds : Exit(c) \/ KillTimer(c)

\* Timers fire, and a process that got SIGKILL ends.
WorkFairness ==
  \A c \in ChildIds : WF_workVars(KillTimer(c)) /\ WF_workVars(children[c].sigkill /\ Exit(c))

WorkSpec == WorkInit /\ [][WorkNext]_workVars /\ WorkFairness

-----------------------------------------------------------------------------
(* Properties.                                                             *)

Says(q, what) == \E i \in DOMAIN replies[q] : replies[q][i].what = what

\* Whoever answers with success has run the command of that try to its end with
\* exit code zero, and the installation before it, if there was one; a late exit
\* after a timeout does not count (executor.ts: settle, finish).
SuccessRan ==
  role \in Runners =>
    \A q \in Requests : \A i \in DOMAIN replies[q] :
      LET t == replies[q][i].try
          ran == children[Child(q, t, "run")]
          installed == children[Child(q, t, "install")] IN
      replies[q][i].what = "complete" /\ ran.life # "none" =>
        /\ ran.life = "ended" /\ ran.code = "zero" /\ ~ran.killed
        /\ installed.life = "none" \/ installed.code = "zero"

\* No crash and no failed write leaves half a file behind (fileio.ts: "Atomic
\* write"), and who is about to answer has applied every change: of the changes
\* of a file the last one counts.
FileAfter(plan, p) ==
  LET own == {i \in DOMAIN plan : plan[i].path = p}
      last == CHOOSE i \in own : \A j \in own : j <= i IN
  IF plan[last].op = "write" THEN "new" ELSE "absent"
FilesAreWhole ==
  /\ \A p \in Paths : files[p] # "half"
  /\ job.at = "reply" /\ role = "developer" /\ job.plan # <<>> =>
       \A i \in DOMAIN job.plan : files[job.plan[i].path] = FileAfter(job.plan, job.plan[i].path)

\* Every request that was taken is being worked on, was answered, or was given
\* up where a person can see it; whatever fails on the way, somebody waits for
\* the answer (collaboration.ts: "예외는 모두 error로 발행한다").
RequestsAnswered ==
  \A q \in Requests \ (waiting \cup dropped) :
    (job # NoJob /\ job.req = q) \/ \E what \in Terminal : Says(q, what)

\* Once the second timer has fired, a command of the Builder has ended or has
\* been killed for good.
KillIsFinal ==
  role = "builder" =>
    \A c \in ChildIds : children[c].timer = "fired" =>
      children[c].life = "ended" \/ children[c].sigkill

\* A test run that has timed out does not outlive the second timer for ever
\* (executor.test.ts: "5초 후에도 프로세스가 살아있으면 SIGKILL로 강제 종료한다").
TestRunsEnd ==
  \A c \in ChildIds :
    (role = "tester" /\ children[c].timer = "armed")
      ~> (children[c].life = "ended" \/ children[c].timer = "off")
=============================================================================
