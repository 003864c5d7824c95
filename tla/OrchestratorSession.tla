------------------------ MODULE OrchestratorSession ------------------------
(***************************************************************************)
(* One session of the Orchestrator's server: the routes that create it and *)
(* take messages (api/sessions.route.ts), the sockets of its clients       *)
(* (ws/session.ws.ts, useSessionWs.ts of the application), the loop that   *)
(* reads the Manager's answers (streams/consumer.ts) and the tasks         *)
(* (tasks/task.store.ts).  The Manager is external: it answers a task that *)
(* was forwarded to it with messages of any kind.                          *)
(*                                                                         *)
(* With a database the session and its messages are rows, and every access *)
(* to them is an await; without one they are maps, and what lies between   *)
(* two accesses is not interrupted.                                        *)
(***************************************************************************)
EXTENDS Integers, Sequences, FiniteSets

CONSTANTS
  Turns,        \* messages that users post
  MaxSockets,   \* bound on connections of the clients
  MaxMessages,  \* bound on messages of the Manager
  MaxBreaks     \* bound on failing queries and commands

ASSUME SessionAssumption ==
  /\ IsFiniteSet(Turns)
  /\ MaxSockets \in Nat /\ MaxMessages \in Nat /\ MaxBreaks \in Nat

VARIABLES
  database,    \* whether there is a database
  row,         \* the session in its store
  alive,       \* its entries in sessionConsumers and sessionCleanup
  announced,   \* the Manager was told of the session (publishSessionGateway)
  sockets,     \* sockets[s]: a connection, in the order in which clients open them
  current,     \* wsSessions: the socket of the session, 0 for none
  grace,       \* pendingCleanups: the timer of the teardown is set
  turns,       \* turns[t]: a posted message, its mode and where its handler is
  processing,  \* the session is in processingSessionIds
  tasks,       \* TaskStore: the turns whose tasks are kept
  forwarded,   \* a task was published to the Manager
  stream,      \* manager:to-orchestrator: kinds of messages not yet read
  posted,      \* ghost: the Manager's messages so far (bounded by MaxMessages)
  loop,        \* StreamConsumer.start
  running,     \* StreamConsumer.running
  batch,       \* messages that the loop has read
  early,       \* ghost: stop() came before start had set running
  over,        \* ghost: turns whose handlers had ended at the teardown
  breaks       \* failures so far (bounded by MaxBreaks)

store == <<database, row, alive, announced>>
clients == <<sockets, current, grace>>
work == <<turns, processing, tasks, forwarded>>
consumer == <<loop, running, batch>>
sessionVars == <<store, clients, work, consumer, stream, posted, early, over, breaks>>

\* status_update, info_request and knowledge_changed only go to the client; a
\* task_complete or an error is the last word about a task.
Kinds == {"update", "last"}
Sockets == 1..MaxSockets
AtWork == {"working", "answered", "forwarding"}

SessionTypeOK ==
  /\ database \in BOOLEAN /\ alive \in BOOLEAN /\ announced \in BOOLEAN
  /\ row \in {"none", "live", "deleting", "deleted"}
  /\ sockets \in [Sockets -> {"new", "connecting", "cut", "open", "closed", "refused"}]
  /\ current \in 0..MaxSockets /\ (current # 0 => sockets[current] \in {"open", "closed"})
  /\ grace \in BOOLEAN
  /\ turns \in [Turns -> [pc : {"idle", "storing", "ended"} \cup AtWork, mode : {"chat", "build"}]]
  /\ processing \in BOOLEAN /\ tasks \subseteq Turns /\ forwarded \in BOOLEAN
  /\ stream \in Seq(Kinds) /\ batch \in Seq(Kinds) /\ posted \in 0..MaxMessages
  /\ loop \in {"none", "opening", "reading", "handling", "ended"} /\ running \in BOOLEAN
  /\ (batch # <<>>) <=> (loop = "handling")
  /\ early \in BOOLEAN /\ over \subseteq Turns /\ breaks \in 0..MaxBreaks

SessionInit ==
  /\ database \in BOOLEAN /\ row = "none" /\ alive = FALSE /\ announced = FALSE
  /\ sockets = [s \in Sockets |-> "new"] /\ current = 0 /\ grace = FALSE
  /\ turns = [t \in Turns |-> [pc |-> "idle", mode |-> "chat"]]
  /\ processing = FALSE /\ tasks = {} /\ forwarded = FALSE
  /\ stream = <<>> /\ posted = 0 /\ loop = "none" /\ running = FALSE /\ batch = <<>>
  /\ early = FALSE /\ over = {} /\ breaks = 0

Breaks == breaks < MaxBreaks /\ breaks' = breaks + 1
Found == row \in {"live", "deleting"}
Working == {t \in Turns : turns[t].pc \in AtWork}
Ended == {t \in Turns : turns[t].pc = "ended"}

-----------------------------------------------------------------------------
(* Beginning and end of a session.                                         *)

\* POST /sessions: the announcement and the loop are not waited for.
CreateSession ==
  /\ row = "none" /\ row' = "live" /\ alive' = TRUE /\ loop' = "opening"
  /\ \/ announced' = TRUE /\ UNCHANGED breaks
     \/ announced' = FALSE /\ Breaks
  /\ UNCHANGED <<database, clients, work, running, batch, stream, posted, early, over>>

\* taskStore.deleteBySessionId
TasksLeft == {}

\* teardownSession, and cleanupSession without its socket: nothing happens to a
\* session that was torn down before.
TearDown ==
  /\ alive' = FALSE /\ running' = FALSE
  /\ early' = (early \/ (alive /\ loop = "opening"))
  /\ row' = IF ~alive THEN row ELSE IF database THEN "deleting" ELSE "deleted"
  /\ tasks' = IF alive THEN TasksLeft ELSE tasks
  /\ over' = IF alive THEN Ended ELSE over

\* store.delete, whose failure is ignored.
DeleteRow ==
  /\ row = "deleting"
  /\ \/ row' = "deleted" /\ UNCHANGED breaks
     \/ row' = "live" /\ Breaks
  /\ UNCHANGED <<database, alive, announced, clients, work, consumer, stream, posted, early, over>>

-----------------------------------------------------------------------------
(* The sockets.                                                            *)

\* A socket that was cut during the lookup is closed, which nobody notices.
Register(s) ==
  /\ sockets' = [sockets EXCEPT ![s] = IF @ = "cut" THEN "closed" ELSE "open"]
  /\ current' = s /\ grace' = FALSE

\* findById; a client whose session is gone is told so, and tries again.
Connect(s) ==
  /\ row # "none" /\ sockets[s] = "new" /\ \A r \in 1..s - 1 : sockets[r] # "new"
  /\ \/ /\ database /\ Found
        /\ sockets' = [sockets EXCEPT ![s] = "connecting"] /\ UNCHANGED <<current, grace>>
     \/ ~database /\ Found /\ Register(s)
     \/ ~Found /\ sockets' = [sockets EXCEPT ![s] = "refused"] /\ UNCHANGED <<current, grace>>
  /\ UNCHANGED <<store, work, consumer, stream, posted, early, over, breaks>>

\* The row was found, by which time the session may have been torn down, the
\* socket be cut, or one that came later be registered; or the query fails.
Connected(s) ==
  /\ sockets[s] \in {"connecting", "cut"}
  /\ \/ Register(s) /\ UNCHANGED breaks
     \/ sockets' = [sockets EXCEPT ![s] = "refused"] /\ UNCHANGED <<current, grace>> /\ Breaks
  /\ UNCHANGED <<store, work, consumer, stream, posted, early, over>>

\* The socket closes during the lookup, when nothing listens for it yet.
Cut(s) ==
  /\ sockets[s] = "connecting" /\ sockets' = [sockets EXCEPT ![s] = "cut"]
  /\ UNCHANGED <<store, current, grace, work, consumer, stream, posted, early, over, breaks>>

StaleTakenForCurrent(s) == current # 0  \* mutant
\* The close of a socket that another one has replaced is ignored.
IsCurrent(s) == current = s

ClosedUntimed(s) == UNCHANGED grace  \* mutant
StartGrace(s) == grace' = TRUE

Close(s) ==
  /\ sockets[s] = "open" /\ sockets' = [sockets EXCEPT ![s] = "closed"]
  /\ IF IsCurrent(s) THEN current' = 0 /\ StartGrace(s) ELSE UNCHANGED <<current, grace>>
  /\ UNCHANGED <<store, work, consumer, stream, posted, early, over, breaks>>

GraceEnds ==
  /\ grace /\ grace' = FALSE
  /\ IF current = 0 THEN TearDown ELSE UNCHANGED <<row, alive, tasks, running, early, over>>
  /\ UNCHANGED <<database, announced, sockets, current, turns, processing, forwarded, loop, batch,
                 stream, posted, breaks>>

-----------------------------------------------------------------------------
(* Messages of the users.                                                  *)

GoesOn(t, pc) == turns' = [turns EXCEPT ![t].pc = pc]

\* The guard against concurrent processing.
Passes == ~processing

\* POST /sessions/:id/messages, up to its first await.
Post(t, mode) ==
  /\ turns[t].pc = "idle" /\ Found /\ Passes
  /\ turns' = [turns EXCEPT ![t] = [pc |-> IF database THEN "storing" ELSE "working", mode |-> mode]]
  /\ processing' = IF database THEN processing ELSE TRUE
  /\ UNCHANGED <<store, clients, tasks, forwarded, consumer, stream, posted, early, over, breaks>>

\* msgRepo.create and findBySession; only then is the session marked.
Stored(t) ==
  /\ turns[t].pc = "storing"
  /\ \/ GoesOn(t, "working") /\ processing' = TRUE /\ UNCHANGED breaks
     \/ GoesOn(t, "ended") /\ UNCHANGED processing /\ Breaks
  /\ UNCHANGED <<store, clients, tasks, forwarded, consumer, stream, posted, early, over>>

MarkStays(t) == UNCHANGED processing  \* mutant
\* The finally of the handler: the mark goes whoever set it.
Unmark(t) == processing' = FALSE

\* The runner reports an error, or something throws.
TurnFails(t) ==
  /\ turns[t].pc \in AtWork /\ GoesOn(t, "ended") /\ Unmark(t)
  /\ IF turns[t].pc = "working" /\ turns[t].mode = "chat" THEN UNCHANGED breaks ELSE Breaks
  /\ UNCHANGED <<store, clients, tasks, forwarded, consumer, stream, posted, early, over>>

\* processRunnerChunks of a chat; in a build nothing is run.
RunnerAnswers(t) ==
  /\ turns[t].pc = "working" /\ turns[t].mode = "chat" /\ GoesOn(t, "answered")
  /\ UNCHANGED <<store, clients, processing, tasks, forwarded, consumer, stream, posted, early,
                 over, breaks>>

\* saveAssistantMessage, structureIntent and taskStore.create of a chat,
\* buildUserContext and taskStore.create of a build.
CreateTask(t) ==
  /\ turns[t].pc = (IF turns[t].mode = "chat" THEN "answered" ELSE "working")
  /\ GoesOn(t, "forwarding") /\ tasks' = tasks \cup {t}
  /\ UNCHANGED <<store, clients, processing, forwarded, consumer, stream, posted, early, over,
                 breaks>>

\* publishTaskToManager and publishDecomposeToManager: a failure is an error of
\* a build, and is passed over in a chat.
Forward(t) ==
  /\ turns[t].pc = "forwarding" /\ GoesOn(t, "ended") /\ Unmark(t)
  /\ \/ forwarded' = TRUE /\ UNCHANGED breaks
     \/ UNCHANGED forwarded /\ Breaks
  /\ UNCHANGED <<store, clients, tasks, consumer, stream, posted, early, over>>

-----------------------------------------------------------------------------
(* Messages of the Manager.                                                *)

ManagerSends(kind) ==
  /\ announced /\ forwarded /\ posted < MaxMessages
  /\ posted' = posted + 1 /\ stream' = Append(stream, kind)
  /\ UNCHANGED <<store, clients, work, consumer, early, over, breaks>>

\* ensureGroup begins a group at the end of the stream; what was sent before is
\* not delivered.  running is set even when stop() has been called meanwhile.
LoopReady ==
  /\ loop = "opening" /\ loop' = "reading" /\ running' = TRUE /\ stream' = <<>>
  /\ UNCHANGED <<store, clients, work, batch, posted, early, over, breaks>>

LoopFails ==
  /\ loop = "opening" /\ loop' = "ended" /\ Breaks
  /\ UNCHANGED <<store, clients, work, running, batch, stream, posted, early, over>>

\* xreadgroup: also a read that was blocked when stop() came may return entries.
LoopReads ==
  /\ loop = "reading" /\ stream # <<>>
  /\ loop' = "handling" /\ batch' = stream /\ stream' = <<>>
  /\ UNCHANGED <<store, clients, work, running, posted, early, over, breaks>>

LoopStops ==
  /\ loop = "reading" /\ ~running /\ loop' = "ended"
  /\ UNCHANGED <<store, clients, work, running, batch, stream, posted, early, over, breaks>>

\* handleReadError: a lost group is created again, at the end of the stream.
GroupLost ==
  /\ loop = "reading" /\ running /\ stream' = <<>> /\ Breaks
  /\ UNCHANGED <<store, clients, work, consumer, posted, early, over>>

\* handleConsumerMessage and the ack.  Without a socket a message is dropped,
\* whatever it says; the last word about a task ends the session.
LoopHandles ==
  /\ loop = "handling"
  /\ batch' = Tail(batch)
  /\ IF current # 0 /\ Head(batch) = "last"
     THEN TearDown /\ current' = 0
     ELSE UNCHANGED <<row, alive, tasks, running, early, over, current>>
  /\ loop' = IF batch' # <<>> THEN "handling" ELSE IF running' THEN "reading" ELSE "ended"
  /\ UNCHANGED <<database, announced, sockets, grace, turns, processing, forwarded, stream, posted,
                 breaks>>

Loop == LoopReady \/ LoopReads \/ LoopStops \/ LoopHandles

SessionNext ==
  \/ CreateSession \/ DeleteRow \/ GraceEnds
  \/ \E s \in Sockets : Connect(s) \/ Connected(s) \/ Cut(s) \/ Close(s)
  \/ \E t \in Turns :
       \/ \E mode \in {"chat", "build"} : Post(t, mode)
       \/ Stored(t) \/ TurnFails(t) \/ RunnerAnswers(t) \/ CreateTask(t) \/ Forward(t)
  \/ \E kind \in Kinds : ManagerSends(kind)
  \/ Loop \/ LoopFails \/ GroupLost

\* The timer fires, the loop loops, and a query returns.  Nobody has to connect,
\* to post or to answer.
SessionFairness ==
  /\ WF_sessionVars(GraceEnds) /\ WF_sessionVars(Loop)
  /\ \A s \in Sockets : WF_sessionVars(Connected(s))

SessionSpec == SessionInit /\ [][SessionNext]_sessionVars /\ SessionFairness

-----------------------------------------------------------------------------
(* Properties.                                                             *)

\* A session works on one message at a time ("Guard against concurrent message
\* processing for the same session", sessions.route.ts).
OneTurnAtATime == Cardinality(Working) <= 1

\* What the process keeps in memory for a session does not outlive its use.
\* The mark goes with the handler that set it, or the user would be locked out
\* of the session; without a database it is exact: set as long as a message is
\* worked on, and that is one message (sessions.route.ts).  And the tasks go
\* when the session is torn down, whichever of the two ways: one that is there
\* afterwards was entered by a handler that had not ended by then and was not
\* stopped (sessions.route.ts, session.ws.ts).
MarkIsHeld ==
  /\ processing => Working # {}
  /\ ~database => (processing <=> Working # {}) /\ OneTurnAtATime
  /\ (row # "none" /\ ~alive) => tasks \cap over = {}

\* However connections, their lookups and closes and the timer overlap: as long
\* as the socket that registered last is open, the session does not lose it and
\* is not torn down, but for the Manager's last word (session.ws.ts).  The one
\* that registers last takes the place of the others, also of one that a client
\* opened after it: the order is that of the lookups' ends.
OpenIsKept ==
  [][(/\ current # 0 /\ sockets'[current] = "open"
      /\ current' = 0 \/ (alive /\ ~alive'))
       => loop = "handling" /\ Head(batch) = "last"]_sessionVars

\* The registered socket was cut before its close was listened for: nothing
\* sets the timer until a client comes back.
Unheard == current # 0 /\ sockets[current] = "closed"

\* When the last connection of a session has closed, the session is torn down
\* and its loop ends, unless a client comes back first, or the loop had not yet
\* begun: start sets running after stop has cleared it (streams/consumer.ts).
\* Left out is a session whose last socket to register was cut (Unheard), which
\* the code keeps for good.
AbandonedIsReaped ==
  (alive /\ ~Unheard /\ (\E s \in Sockets : sockets[s] = "closed")
         /\ \A s \in Sockets : sockets[s] \notin {"open", "connecting", "cut"})
    ~> \/ ~alive /\ (loop = "ended" \/ early)
       \/ \E s \in Sockets : sockets[s] \in {"open", "connecting", "cut"}
=============================================================================
