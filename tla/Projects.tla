------------------------------- MODULE Projects -------------------------------
(***************************************************************************)
(* The projects of a user in the Orchestrator: their rows, the directories *)
(* their repositories are cloned into, and a session that is linked to one *)
(* of them.  The model registers and switches projects through a call of   *)
(* the Manager, answered over a pair of streams by one consumer; people    *)
(* and scripts use HTTP requests, which run side by side.  Clones of a     *)
(* registration run on after its answer.                                   *)
(*                                                                         *)
(* One user and one session.  Tokens, descriptions and the synchronisation *)
(* of a directory with its branch are data.                                *)
(***************************************************************************)
EXTENDS Naturals, Sequences, FiniteSets

CONSTANTS
  Projects,       \* the ids the database hands out
  Titles,         \* names of projects
  SlugOf,         \* the slug of a name, or "" when none of its letters can be kept
  MaxCalls,       \* how many calls the Manager makes for the session
  Requests,       \* HTTP requests, each with a connection of its own
  Gateway,        \* the consumer that serves the calls
  ProjectFaults,  \* what may go wrong: "query", "exit", "timeout"
  MaxProjectFaults

ASSUME GatewayIsNoRequest == Gateway \notin Requests

None == "none"

VARIABLES
  rows,        \* the row of a project, if there is one: title, slug, path of its workspace
  born,        \* the ids in the order of their creation
  session,     \* the row of the session: the project it is linked to, or none
  files,       \* the directory of a project: "absent", "partial" or the "whole" repository
  jobs,        \* what the gateway and each request is doing
  clones,      \* running clones, by the project and by who waits for them
  rpcCalls,       \* the calls of the Manager
  beside,      \* history: the calls whose requests stood unanswered during a call
  toGateway,   \* the stream of requests of which the group has read nothing yet
  replies,     \* the stream of answers
  up,          \* whether the process of the Orchestrator runs
  projectFaults

projectVars ==
  <<rows, born, session, files, jobs, clones, rpcCalls, beside, toGateway, replies, up,
    projectFaults>>

Calls == 1..MaxCalls   \* by their beginning
Handlers == Requests \cup {Gateway}
NoProject == [title |-> None, slug |-> None, path |-> None]
Idle == [op |-> "idle"]

\* The path of a row is a directory of the user ("local"), which is there and
\* is the user's own business, or the one its clone goes to, named after the id.

\* What a registration or a new workspace asks for, and what is wrong with it:
\* the directory or address, which is checked, or the branch.
Inputs ==
  [kind : {"local"}, fault : {"ok", "path"}] \cup [kind : {"github"}, fault : {"ok", "branch"}]

\* A session is started for a project.
First == CHOOSE p \in Projects : TRUE
ProjectsInit ==
  /\ rows = [[p \in Projects |-> NoProject] EXCEPT
               ![First] = [title |-> "first", slug |-> "first", path |-> None]]
  /\ born = <<First>>
  /\ session = First
  /\ files = [p \in Projects |-> "absent"]
  /\ jobs = [h \in Handlers |-> Idle]
  /\ clones = {}
  /\ rpcCalls = [c \in Calls |-> [op |-> None, stage |-> "unmade", tip |-> 0, got |-> None]]
  /\ beside = [c \in Calls |-> {}]
  /\ toGateway = << >> /\ replies = << >>
  /\ up = TRUE
  /\ projectFaults = 0

MayFail(kind) == kind \in ProjectFaults /\ projectFaults < MaxProjectFaults
Fails(kind) == MayFail(kind) /\ projectFaults' = projectFaults + 1
HasRow(p) == rows[p] # NoProject

---------------------------------------------------------------------------
(* The rows *)

\* The unique index is over the slug, which a rename leaves alone; a name of
\* which no letter can be kept gets a random one.
Clashes(title) ==
  SlugOf[title] # "" /\ \E p \in Projects : HasRow(p) /\ rows[p].slug = SlugOf[title]
NextId == CHOOSE p \in Projects : \A i \in DOMAIN born : born[i] # p
HasNextId == Len(born) < Cardinality(Projects)
Insert(title) ==
  /\ rows' = [rows EXCEPT ![NextId] =
                [title |-> title, slug |-> SlugOf[title], path |-> None]]
  /\ born' = Append(born, NextId)

\* updateWorkspace: nothing happens when the row is gone.
SetWorkspace(p, path) == rows' = IF HasRow(p) THEN [rows EXCEPT ![p].path = path] ELSE rows

\* Rows of sessions refer to their project: the link cannot be set to one that
\* is gone, and goes with it.
LinkSession(p) == session' = IF session = None THEN None ELSE p
CanLink(p) == HasRow(p) \/ session = None

\* The newest of the user's projects with that name.  (find over a list that is
\* ordered by creation, the newest first.)
Named(title) ==
  {i \in DOMAIN born : HasRow(born[i]) /\ (rows[born[i]].title = title
                                          \/ rows[born[i]].slug = title)}
Newest(is) == born[CHOOSE i \in is : \A j \in is : j <= i]

---------------------------------------------------------------------------
(* Answers.  A request gets its status; a call gets a message on the stream   *)
(* of its session, which does not say which call it answers.                  *)

\* leaves: the project a registration has made that ends with an error.
Answered(project) == [op |-> "answered", leaves |-> project]
Answer(h, type) ==
  LET leaves == IF type = "project_error" /\ jobs[h].op = "register" THEN jobs[h].project ELSE None IN
  IF h = Gateway
  THEN /\ replies' = Append(replies, [type |-> type, call |-> jobs[h].call, leaves |-> leaves])
       /\ jobs' = [jobs EXCEPT ![h] = Idle]
  ELSE jobs' = [jobs EXCEPT ![h] = Answered(leaves)] /\ UNCHANGED replies
Refuse(h) == Answer(h, "project_error")
Goto(h, stage) == jobs' = [jobs EXCEPT ![h].stage = stage]
At(h, op, stage) == jobs[h].op = op /\ jobs[h].stage = stage

\* A query of a handler fails, which ends it.
QueryFailsOf(h) ==
  /\ up
  /\ jobs[h].op \in {"register", "switch", "workspace"}
  /\ jobs[h].stage # "cloning"
  /\ Fails("query")
  /\ Refuse(h)
  /\ UNCHANGED <<rows, born, session, files, clones, rpcCalls, beside, toGateway, up>>

---------------------------------------------------------------------------
(* Registration, by the tool over the gateway or by the internal route        *)

StagesCreateFirst == <<"create", "checks", "update", "link">>  \* mutant
\* What a registration does, in this order: everything is checked before there
\* is a row.
Stages == <<"checks", "create", "update", "link">>
After(stage) == Stages[1 + (CHOOSE i \in DOMAIN Stages : Stages[i] = stage)]
Job(op, input, title, call) ==
  [op |-> op, stage |-> IF op = "register" THEN Stages[1] ELSE "find", input |-> input, title |-> title, project |-> None, call |-> call]

\* The gateway takes the next request; an invalid branch name is no concern of
\* its checks.
GatewayTakes ==
  /\ up /\ jobs[Gateway] = Idle /\ toGateway # << >>
  /\ LET r == Head(toGateway) IN
       jobs' = [jobs EXCEPT ![Gateway] = Job(r.op, r.input, r.title, r.call)]
  /\ toGateway' = Tail(toGateway)
  /\ UNCHANGED <<rows, born, session, files, clones, rpcCalls, beside, replies, up,
                 projectFaults>>

RequestRegister(h) ==
  /\ up /\ jobs[h] = Idle
  /\ \E input \in Inputs, title \in Titles :
       jobs' = [jobs EXCEPT ![h] = Job("register", input, title, None)]
  /\ UNCHANGED <<rows, born, session, files, clones, rpcCalls, beside, toGateway, replies, up,
                 projectFaults>>

\* The checks: the session, the branch (for a route), the path with its
\* directory or the address.
Acceptable(h, input) == input.fault = "ok" \/ (input.fault = "branch" /\ h = Gateway)

CheckRegistration(h) ==
  /\ up /\ At(h, "register", "checks")
  /\ IF session # None /\ Acceptable(h, jobs[h].input)
     THEN Goto(h, After("checks")) /\ UNCHANGED replies
     ELSE Refuse(h)
  /\ UNCHANGED <<rows, born, session, files, clones, rpcCalls, beside, toGateway, up,
                 projectFaults>>

\* The row; a slug that is taken is a conflict.  The clone is started and not
\* awaited; one with an invalid branch fails before it touches anything.
CreateRow(h) ==
  /\ up /\ At(h, "register", "create")
  /\ IF Clashes(jobs[h].title)
     THEN Refuse(h) /\ UNCHANGED <<rows, born, clones>>
     ELSE /\ HasNextId
          /\ Insert(jobs[h].title)
          /\ clones' =
               IF jobs[h].input.kind = "local" THEN clones
               ELSE clones \cup {[project |-> NextId, for |-> None, input |-> jobs[h].input,
                                  stage |-> IF jobs[h].input.fault = "ok" THEN "start" ELSE "reset"]}
          /\ jobs' = [jobs EXCEPT ![h].stage = After("create"), ![h].project = NextId]
          /\ UNCHANGED replies
  /\ UNCHANGED <<session, files, rpcCalls, beside, toGateway, up, projectFaults>>

UpdateRow(h) ==
  /\ up /\ At(h, "register", "update")
  /\ LET job == jobs[h]
         path == IF job.input.kind = "local" THEN "local" ELSE job.project IN
       SetWorkspace(job.project, path)
  /\ Goto(h, After("update"))
  /\ UNCHANGED <<born, session, files, clones, rpcCalls, beside, toGateway, replies, up,
                 projectFaults>>

LinkRegistered(h) ==
  /\ up /\ At(h, "register", "link")
  /\ IF CanLink(jobs[h].project)
     THEN LinkSession(jobs[h].project) /\ Answer(h, "register")
     ELSE Refuse(h) /\ UNCHANGED session
  /\ UNCHANGED <<rows, born, files, clones, rpcCalls, beside, toGateway, up, projectFaults>>

---------------------------------------------------------------------------
(* Switching, by the tool or the internal route                               *)

RequestSwitch(h) ==
  /\ up /\ jobs[h] = Idle
  /\ \E title \in Titles : jobs' = [jobs EXCEPT ![h] = Job("switch", None, title, None)]
  /\ UNCHANGED <<rows, born, session, files, clones, rpcCalls, beside, toGateway, replies, up,
                 projectFaults>>

FindProject(h) ==
  /\ up /\ At(h, "switch", "find")
  /\ IF session # None /\ Named(jobs[h].title) # {}
     THEN /\ jobs' = [jobs EXCEPT ![h].stage = "link",
                                  ![h].project = Newest(Named(jobs[h].title))]
          /\ UNCHANGED replies
     ELSE Refuse(h)
  /\ UNCHANGED <<rows, born, session, files, clones, rpcCalls, beside, toGateway, up,
                 projectFaults>>

LinkSwitched(h) ==
  /\ up /\ At(h, "switch", "link")
  /\ IF CanLink(jobs[h].project)
     THEN LinkSession(jobs[h].project) /\ Answer(h, "switch")
     ELSE Refuse(h) /\ UNCHANGED session
  /\ UNCHANGED <<rows, born, files, clones, rpcCalls, beside, toGateway, up, projectFaults>>

---------------------------------------------------------------------------
(* A clone.  git makes its directory, unless there is one with files, and     *)
(* removes what it made when it fails; the server then removes the path.      *)

Goes(g, stage) == clones' = (clones \ {g}) \cup {[g EXCEPT !.stage = stage]}
GitBegins(g) ==
  /\ up /\ g.stage = "start"
  /\ IF files[g.project] # "absent" THEN Goes(g, "clean") /\ UNCHANGED files
     ELSE Goes(g, "copying") /\ files' = [files EXCEPT ![g.project] = "partial"]
  /\ UNCHANGED <<rows, born, session, jobs, rpcCalls, beside, toGateway, replies, up,
                 projectFaults>>

GitEnds(g) ==
  /\ up /\ g.stage = "copying"
  /\ \/ /\ files[g.project] = "partial"
        /\ files' = [files EXCEPT ![g.project] = "whole"] /\ Goes(g, "done")
     \/ Goes(g, "clean") /\ UNCHANGED files
  /\ UNCHANGED <<rows, born, session, jobs, rpcCalls, beside, toGateway, replies, up,
                 projectFaults>>

\* rm -r of the path, whatever is there by now.
CleanUp(g) ==
  /\ up /\ g.stage = "clean"
  /\ files' = [files EXCEPT ![g.project] = "absent"]
  /\ Goes(g, IF g.for = None THEN "reset" ELSE "failed")
  /\ UNCHANGED <<rows, born, session, jobs, rpcCalls, beside, toGateway, replies, up,
                 projectFaults>>

\* What follows a clone nobody waits for: nothing, or a row without a path,
\* unless that query fails, which is only logged.
BackgroundEnds(g) ==
  /\ up /\ g.for = None
  /\ \/ g.stage = "done" /\ UNCHANGED <<rows, projectFaults>>
     \/ g.stage = "reset" /\ SetWorkspace(g.project, None) /\ UNCHANGED projectFaults
     \/ g.stage = "reset" /\ Fails("query") /\ UNCHANGED rows
  /\ clones' = clones \ {g}
  /\ UNCHANGED <<born, session, files, jobs, rpcCalls, beside, toGateway, replies, up>>

---------------------------------------------------------------------------
(* The routes of a person                                                     *)

CreateProject(h) ==
  /\ up /\ jobs[h] = Idle /\ HasNextId
  /\ \E title \in Titles :
       IF Clashes(title) THEN UNCHANGED <<rows, born>> ELSE Insert(title)
  /\ jobs' = [jobs EXCEPT ![h] = Answered(None)]
  /\ UNCHANGED <<session, files, clones, rpcCalls, beside, toGateway, replies, up, projectFaults>>

\* A rename; the row is read before it is written, and the write of one that
\* has gone in between is an error without effect.
RenameProject(h) ==
  /\ up /\ jobs[h] = Idle
  /\ \E p \in Projects, title \in Titles :
       HasRow(p) /\ rows' = [rows EXCEPT ![p].title = title]
  /\ UNCHANGED <<born, session, files, jobs, clones, rpcCalls, beside, toGateway, replies, up,
                 projectFaults>>

\* Nothing is done about the directory or about a clone that runs.
DeleteProject(h) ==
  /\ up /\ jobs[h] = Idle
  /\ \E p \in Projects :
       /\ HasRow(p)
       /\ rows' = [rows EXCEPT ![p] = NoProject]
       /\ session' = IF session = p THEN None ELSE session
  /\ UNCHANGED <<born, files, jobs, clones, rpcCalls, beside, toGateway, replies, up,
                 projectFaults>>

\* A new workspace for a project: none, a directory, or a clone to wait for.
RequestWorkspace(h) ==
  /\ up /\ jobs[h] = Idle
  /\ \E p \in Projects, input \in Inputs \cup {[kind |-> None, fault |-> "ok"]} :
       /\ HasRow(p) /\ input.fault = "ok"
       /\ jobs' = [jobs EXCEPT ![h] =
                     [Job("workspace", input, None, None) EXCEPT
                        !.stage = IF input.kind = "github" THEN "cloning" ELSE "update",
                        !.project = p]]
       /\ clones' = IF input.kind = "github"
                    THEN clones \cup {[project |-> p, for |-> h, input |-> input, stage |-> "start"]}
                    ELSE clones
  /\ UNCHANGED <<rows, born, session, files, rpcCalls, beside, toGateway, replies, up,
                 projectFaults>>

WorkspaceCloned(h) ==
  /\ up /\ At(h, "workspace", "cloning")
  /\ \E g \in clones :
       /\ g.for = h /\ g.stage \in {"done", "failed"}
       /\ clones' = clones \ {g}
       /\ IF g.stage = "done" THEN Goto(h, "update") /\ UNCHANGED replies ELSE Refuse(h)
  /\ UNCHANGED <<rows, born, session, files, rpcCalls, beside, toGateway, up, projectFaults>>

UpdateWorkspace(h) ==
  /\ up /\ At(h, "workspace", "update")
  /\ LET job == jobs[h]
         path == CASE job.input.kind = "local" -> "local"
                   [] job.input.kind = "github" -> job.project
                   [] OTHER -> None IN
       SetWorkspace(job.project, path)
  /\ Answer(h, IF HasRow(jobs[h].project) THEN "workspace" ELSE "project_error")
  /\ UNCHANGED <<born, session, files, clones, rpcCalls, beside, toGateway, up, projectFaults>>

---------------------------------------------------------------------------
(* The Manager                                                                *)

\* Runs of the Manager are detached from the loop that starts them, and a call
\* takes no lock: calls of the same session overlap.
Outstanding ==
  {toGateway[i].call : i \in DOMAIN toGateway}
  \cup (IF jobs[Gateway] = Idle THEN {} ELSE {jobs[Gateway].call})
UnderWay(c) == rpcCalls[c].stage \in {"made", "waiting"}

\* The tip of the answers is read, and then the request is published.
TipOfNothing == 0  \* mutant
Tip == Len(replies)
MakeCall(c) ==
  /\ rpcCalls[c].stage = "unmade" /\ \A d \in 1..c - 1 : rpcCalls[d].stage # "unmade"
  /\ rpcCalls' = [rpcCalls EXCEPT ![c].stage = "made", ![c].tip = Tip]
  /\ beside' = [beside EXCEPT ![c] = Outstanding]
  /\ UNCHANGED <<rows, born, session, files, jobs, clones, toGateway, replies, up, projectFaults>>

ToolInputs ==
  [op : {"register"}, title : Titles, input : Inputs]
  \cup [op : {"switch"}, title : Titles, input : {None}]
Request(c) ==
  /\ rpcCalls[c].stage = "made"
  /\ \E t \in ToolInputs :
       /\ toGateway' = Append(toGateway, [op |-> t.op, input |-> t.input, title |-> t.title, call |-> c])
       /\ rpcCalls' = [rpcCalls EXCEPT ![c].op = t.op, ![c].stage = "waiting"]
  /\ beside' = [d \in Calls |-> IF d # c /\ UnderWay(d) THEN beside[d] \cup {c} ELSE beside[d]]
  /\ UNCHANGED <<rows, born, session, files, jobs, clones, replies, up, projectFaults>>

\* The next answer after the tip, whichever call it is for: one of the right
\* type or an error ends the call, another is passed over.
Receive(c) ==
  /\ rpcCalls[c].stage = "waiting" /\ rpcCalls[c].tip < Len(replies)
  /\ LET reply == replies[rpcCalls[c].tip + 1] IN
       rpcCalls' = [rpcCalls EXCEPT ![c].tip = @ + 1,
                   ![c].stage = IF reply.type \in {rpcCalls[c].op, "project_error"} THEN "ended" ELSE "waiting",
                   ![c].got = IF reply.type \in {rpcCalls[c].op, "project_error"} THEN reply.call ELSE None]
  /\ UNCHANGED <<rows, born, session, files, jobs, clones, beside, toGateway, replies, up,
                 projectFaults>>

\* Nothing came for thirty seconds.
CallTimesOut(c) ==
  /\ rpcCalls[c].stage = "waiting"
  /\ Fails("timeout")
  /\ rpcCalls' = [rpcCalls EXCEPT ![c].stage = "timed out"]
  /\ UNCHANGED <<rows, born, session, files, jobs, clones, beside, toGateway, replies, up>>

\* Agents write where the session's project is: also where a clone has not
\* begun, since directories are made on the way.
Work ==
  /\ session \in Projects /\ HasRow(session) /\ rows[session].path = session
  /\ files[session] = "absent"
  /\ files' = [files EXCEPT ![session] = "partial"]
  /\ UNCHANGED <<rows, born, session, jobs, clones, rpcCalls, beside, toGateway, replies, up,
                 projectFaults>>

\* The process of the Orchestrator exits, with the clones it started, and is
\* started again.  The group's pending entry is never claimed; unread ones are
\* read on.
Exit ==
  /\ up /\ Fails("exit")
  /\ up' = FALSE
  /\ jobs' = [h \in Handlers |-> IF jobs[h].op = "answered" THEN jobs[h] ELSE Idle]
  /\ clones' = {}
  /\ UNCHANGED <<rows, born, session, files, rpcCalls, beside, toGateway, replies>>
Restart ==
  /\ ~up /\ up' = TRUE
  /\ UNCHANGED <<rows, born, session, files, jobs, clones, rpcCalls, beside, toGateway, replies,
                 projectFaults>>

RequestStep(h) ==
  \/ RequestRegister(h) \/ RequestSwitch(h) \/ RequestWorkspace(h) \/ CreateProject(h)
  \/ RenameProject(h) \/ DeleteProject(h)
  \/ WorkspaceCloned(h) \/ UpdateWorkspace(h)
HandlerStep(h) ==
  \/ CheckRegistration(h) \/ CreateRow(h) \/ UpdateRow(h) \/ LinkRegistered(h)
  \/ FindProject(h) \/ LinkSwitched(h) \/ QueryFailsOf(h)
ProjectsNext ==
  \/ GatewayTakes \/ Work \/ Exit \/ Restart
  \/ \E h \in Requests : RequestStep(h)
  \/ \E h \in Handlers : HandlerStep(h)
  \/ \E g \in clones : GitBegins(g) \/ GitEnds(g) \/ CleanUp(g) \/ BackgroundEnds(g)
  \/ \E c \in Calls : MakeCall(c) \/ Request(c) \/ Receive(c) \/ CallTimesOut(c)

---------------------------------------------------------------------------
(* Properties *)

ProjectsTypeOK ==
  /\ \A p \in Projects : rows[p].path \in {None, "local", p}
  /\ \A p \in Projects : files[p] \in {"absent", "partial", "whole"}
  /\ session \in Projects \cup {None}
  /\ projectFaults \in 0..MaxProjectFaults

\* No message says which request it answers.  The answer that ends a call is all
\* the same the one to its own request, or to one that stood unanswered while the
\* call was under way: never one that was answered before, however calls overlap,
\* time out or are lost with the process.  A call that no other one overlaps and
\* that finds nothing unanswered gets its own.
AnswersAreOwn ==
  \A c \in Calls :
    rpcCalls[c].stage = "ended" => rpcCalls[c].got = c \/ rpcCalls[c].got \in beside[c]

\* A registration that is refused leaves no project behind, unless a query
\* failed on the way: one without workspace or session would be an orphan that
\* holds its name.
LeftBehind ==
  {replies[i].leaves : i \in DOMAIN replies}
  \cup {jobs[h].leaves : h \in {h \in Handlers : jobs[h].op = "answered"}}
NoOrphans == projectFaults = 0 => \A p \in LeftBehind \ {None} : ~HasRow(p)

\* The removal after a failed clone takes what that clone has left, never a
\* complete repository.  (A second clone into the workspace of a project fails
\* because it is there, and removes it with all its work: stated for the
\* README, the code does not have it.)
WholeIsKept ==
  [][\A p \in Projects : files[p] = "whole" => files'[p] = "whole"]_projectVars

ProjectsSpec == ProjectsInit /\ [][ProjectsNext]_projectVars
=============================================================================
