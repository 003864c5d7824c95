------------------------------ MODULE AgentRpc ------------------------------
(***************************************************************************)
(* The request/reply protocol between the Manager and one kind of agent:   *)
(* RedisAgentHandler (xzawedManager/.../tools/redis-agent-handler.ts)      *)
(* announces a session on the gateway stream, sends requests on the        *)
(* session's request stream and reads the session's response stream from   *)
(* the tip it saw before sending; the agent's SessionDispatcher            *)
(* (xzawedShared/src/streams/session-dispatcher.ts) opens and closes one   *)
(* consumer per session.  Responses carry no correlation id.               *)
(*                                                                         *)
(* A run is a task of the Manager that calls the agent for its session and *)
(* releases the session when it ends; an abort releases it while the run   *)
(* goes on.  An aborted or finished session may be opened again.           *)
(*                                                                         *)
(* Not modelled: the hour-long TTL that a release puts on the streams (a   *)
(* call lasts two minutes at most), markers and retries of a consumer      *)
(* (StreamConsumer), responses that are not an answer.                     *)
(***************************************************************************)
EXTENDS Integers, Sequences, FiniteSets

CONSTANTS
  Sessions,
  Runs,        \* tasks of the Manager
  Aborters,    \* abort messages in progress
  Ids,         \* bound: consumer objects alive in the agent at a time
  MaxActive,   \* MAX_ACTIVE_CONSUMERS
  MaxCalls,    \* bound on calls
  MaxAborts,   \* bound on aborts
  MaxTimeouts, \* bound on calls that reach their deadline
  RpcFaults,      \* the kinds of faults that happen
  MaxRpcFaults    \* bound on their number

\* late: the Manager may be up before the agent first is.
RpcFaultKinds == {"late", "crash", "start", "call", "work", "end"}

NoId == "none"

ASSUME RpcAssumption ==
  /\ Runs \cap Aborters = {} /\ NoId \notin Ids
  /\ MaxActive \in Nat \ {0}
  /\ {MaxCalls, MaxAborts, MaxTimeouts, MaxRpcFaults} \subseteq Nat
  /\ RpcFaults \subseteq RpcFaultKinds /\ (RpcFaults # {} => MaxRpcFaults > 0)

VARIABLES
  memo,       \* _notifiedSessions
  task,       \* task[t]: what a run or an abort is doing
  gateway,    \* manager:to-{agent}:sessions, entries not yet handled
  requests,   \* requests[s]: calls on the request stream, undelivered
  stranded,   \* stranded[s]: delivered to a consumer that died before them
  responses,  \* responses[s]: the response stream, as the calls answered
  agent,      \* new: its gateway group does not exist yet; up; down
  active,     \* activeConsumers, NoId where there is none
  opened,     \* opened[i]: a consumer object, Gone once start() is over
  disturbed,  \* history: sessions with an abandoned or an overlapping call
  mixed,      \* history: sessions where a call got another call's answer
  count       \* calls, aborts, timeouts and faults so far

manager == <<memo, task>>
streams == <<gateway, requests, stranded, responses>>
process == <<agent, active, opened>>
history == <<disturbed, mixed>>
rpcVars == <<manager, streams, process, history, count>>

-----------------------------------------------------------------------------
Tasks == Runs \cup Aborters
Off == [at |-> "off", sess |-> NoId, req |-> 0, tip |-> 0]
Gone == [at |-> "gone", sess |-> NoId, stop |-> FALSE, todo |-> {}]
Opened(s) == [at |-> "starting", sess |-> s, stop |-> FALSE, todo |-> {}]
Calling == {"notify", "tip", "send", "wait"}
Entry(kind, s) == [kind |-> kind, sess |-> s]

Live == {i \in Ids : opened[i] # Gone}
InCall(s) == {t \in Runs : task[t].sess = s /\ task[t].at \in Calling}
First(S) == CHOOSE n \in S : \A m \in S : n <= m

RpcTypeOK ==
  /\ memo \subseteq Sessions
  /\ \A t \in Tasks :
       /\ task[t].at \in {"off", "idle", "release", "end", "forget"} \cup Calling
       /\ task[t].sess \in Sessions \cup {NoId}
       /\ task[t].at = "off" <=> task[t] = Off
       /\ task[t].req \in 0..count.calls
       /\ task[t].at = "wait" => task[t].tip \in 0..Len(responses[task[t].sess])
  /\ gateway \in Seq([kind : {"start", "end"}, sess : Sessions])
  /\ {requests, stranded} \subseteq [Sessions -> SUBSET (1..count.calls)]
  /\ responses \in [Sessions -> Seq(1..count.calls)]
  /\ agent \in {"new", "up", "down"}
  /\ active \in [Sessions -> Ids \cup {NoId}]
  /\ \A i \in Ids :
       /\ opened[i].at \in {"gone", "starting", "reading", "working", "leaving"}
       /\ opened[i].at = "working" <=> opened[i].todo # {}
       /\ opened[i].at # "gone" => agent = "up"
  /\ disturbed \subseteq Sessions /\ mixed \subseteq Sessions
  /\ count \in [calls : 0..MaxCalls, aborts : 0..MaxAborts,
                timeouts : 0..MaxTimeouts, faults : 0..MaxRpcFaults]

NoneYet == [calls |-> 0, aborts |-> 0, timeouts |-> 0, faults |-> 0]

RpcInit ==
  /\ memo = {} /\ task = [t \in Tasks |-> Off]
  /\ gateway = <<>> /\ responses = [s \in Sessions |-> <<>>]
  /\ requests = [s \in Sessions |-> {}] /\ stranded = [s \in Sessions |-> {}]
  /\ active = [s \in Sessions |-> NoId] /\ opened = [i \in Ids |-> Gone]
  /\ disturbed = {} /\ mixed = {}
  /\ \/ agent = "up" /\ count = NoneYet
     \/ "late" \in RpcFaults /\ agent = "new" /\ count = [NoneYet EXCEPT !.faults = 1]

RpcFault(kind) ==
  /\ kind \in RpcFaults /\ count.faults < MaxRpcFaults
  /\ count' = [count EXCEPT !.faults = @ + 1]

-----------------------------------------------------------------------------
(* The Manager: executeRpc. *)

StartRun(r, s) ==
  /\ task[r] = Off
  /\ task' = [task EXCEPT ![r] = [Off EXCEPT !.at = "idle", !.sess = s]]
  /\ UNCHANGED <<memo, streams, process, history, count>>

\* A call: only a session that is not in the memo is announced.
Begin(r) ==
  /\ task[r].at = "idle" /\ count.calls < MaxCalls
  /\ count' = [count EXCEPT !.calls = @ + 1]
  /\ task' = [task EXCEPT ![r].at = IF task[r].sess \in memo THEN "tip" ELSE "notify",
                          ![r].req = count.calls + 1]
  /\ disturbed' = IF InCall(task[r].sess) = {} THEN disturbed
                  ELSE disturbed \cup {task[r].sess}
  /\ UNCHANGED <<memo, streams, process, mixed>>

\* ensureSessionStream, notifyGateway, then the memo.
Notify(r) ==
  /\ task[r].at = "notify"
  /\ gateway' = Append(gateway, Entry("start", task[r].sess))
  /\ memo' = memo \cup {task[r].sess}
  /\ task' = [task EXCEPT ![r].at = "tip"]
  /\ UNCHANGED <<requests, stranded, responses, process, history, count>>

TipAtZero(r) ==                                                        \* mutant
  /\ task[r].at = "tip"
  /\ task' = [task EXCEPT ![r].at = "send", ![r].tip = 0]
  /\ UNCHANGED <<memo, streams, process, history, count>>
Tip(r) ==
  /\ task[r].at = "tip"
  /\ task' = [task EXCEPT ![r].at = "send", ![r].tip = Len(responses[task[r].sess])]
  /\ UNCHANGED <<memo, streams, process, history, count>>

\* publishRequest
SendRequest(r) ==
  /\ task[r].at = "send"
  /\ requests' = [requests EXCEPT ![task[r].sess] = @ \cup {task[r].req}]
  /\ task' = [task EXCEPT ![r].at = "wait"]
  /\ UNCHANGED <<memo, gateway, stranded, responses, process, history, count>>

\* The first response after the tip is taken for the answer.
Answered(r) ==
  LET s == task[r].sess IN
  /\ task[r].at = "wait" /\ task[r].tip < Len(responses[s])
  /\ mixed' = IF responses[s][task[r].tip + 1] = task[r].req THEN mixed ELSE mixed \cup {s}
  /\ task' = [task EXCEPT ![r].at = "idle"]
  /\ UNCHANGED <<memo, streams, process, disturbed, count>>

\* The deadline: the next call announces the session again.
Timeout(r) ==
  /\ task[r].at = "wait" /\ count.timeouts < MaxTimeouts
  /\ count' = [count EXCEPT !.timeouts = @ + 1]
  /\ memo' = memo \ {task[r].sess}
  /\ disturbed' = disturbed \cup {task[r].sess}
  /\ task' = [task EXCEPT ![r].at = "idle"]
  /\ UNCHANGED <<streams, process, mixed>>

\* A command of the call is refused: the call throws, the memo stays.
CallFails(r) ==
  /\ task[r].at \in Calling /\ RpcFault("call")
  /\ disturbed' = IF task[r].at = "wait" THEN disturbed \cup {task[r].sess} ELSE disturbed
  /\ task' = [task EXCEPT ![r].at = "idle"]
  /\ UNCHANGED <<memo, streams, process, mixed>>

\* The run is over: cleanupSession releases the session.
FinishRun(r) ==
  /\ r \in Runs /\ task[r].at = "idle"
  /\ task' = [task EXCEPT ![r].at = "release"]
  /\ UNCHANGED <<memo, streams, process, history, count>>

\* An abort message releases the session while a run is at it.
Abort(a, s) ==
  /\ task[a] = Off /\ count.aborts < MaxAborts
  /\ \E r \in Runs : task[r].sess = s
  /\ count' = [count EXCEPT !.aborts = @ + 1]
  /\ task' = [task EXCEPT ![a] = [Off EXCEPT !.at = "release", !.sess = s]]
  /\ UNCHANGED <<memo, streams, process, history>>

\* releaseSession publishes the end before it forgets the session.
ReleaseOrder == [release |-> "end", end |-> "forget", forget |-> "off"]
GoOn(t) == IF ReleaseOrder[task[t].at] = "off" THEN Off
           ELSE [task[t] EXCEPT !.at = ReleaseOrder[@]]

\* There is nothing to release for a session that is not in the memo.
Release(t) ==
  /\ task[t].at = "release"
  /\ task' = [task EXCEPT ![t] = IF task[t].sess \in memo THEN GoOn(t) ELSE Off]
  /\ UNCHANGED <<memo, streams, process, history, count>>

\* endGateway, whose failure is only logged.
EndGateway(t) ==
  /\ task[t].at = "end"
  /\ \/ gateway' = Append(gateway, Entry("end", task[t].sess)) /\ UNCHANGED count
     \/ RpcFault("end") /\ UNCHANGED gateway
  /\ task' = [task EXCEPT ![t] = GoOn(t)]
  /\ UNCHANGED <<memo, requests, stranded, responses, process, history>>

Forget(t) ==
  /\ task[t].at = "forget"
  /\ memo' = memo \ {task[t].sess}
  /\ task' = [task EXCEPT ![t] = GoOn(t)]
  /\ UNCHANGED <<streams, process, history, count>>

-----------------------------------------------------------------------------
(* The agent. *)

\* start() creates the gateway group at "$" the first time: what was
\* announced before is lost.
Boot ==
  /\ agent # "up" /\ agent' = "up"
  /\ gateway' = IF agent = "new" THEN <<>> ELSE gateway
  /\ UNCHANGED <<manager, requests, stranded, responses, active, opened, history, count>>

\* The process ends, by a signal or a crash: gateway entries it had read are
\* lost, as is the request a consumer was at (its marker is set).
AgentCrash ==
  /\ agent = "up" /\ RpcFault("crash")
  /\ agent' = "down"
  /\ \E n \in 0..Len(gateway) : gateway' = SubSeq(gateway, n + 1, Len(gateway))
  /\ stranded' = [s \in Sessions |-> stranded[s] \cup
       UNION {opened[i].todo \ {First(opened[i].todo)} :
                i \in {j \in Live : opened[j].sess = s /\ opened[j].todo # {}}}]
  /\ active' = [s \in Sessions |-> NoId] /\ opened' = [i \in Ids |-> Gone]
  /\ UNCHANGED <<manager, requests, responses, history>>

\* handleSessionEntry: not for a session with a consumer, nor above the cap,
\* which counts the consumers that are still stopping.
IsFull == Cardinality(Live) >= MaxActive

HandleStart ==
  LET s == Head(gateway).sess IN
  /\ agent = "up" /\ gateway # <<>> /\ Head(gateway).kind = "start"
  /\ gateway' = Tail(gateway)
  /\ IF active[s] # NoId \/ IsFull
     THEN UNCHANGED <<active, opened>>
     ELSE \E i \in Ids \ Live :
            /\ active' = [active EXCEPT ![s] = i]
            /\ opened' = [opened EXCEPT ![i] = Opened(s)]
  /\ UNCHANGED <<manager, requests, stranded, responses, agent, history, count>>

\* endSession: the entry goes at once, the consumer when its loop ends.
HandleEnd ==
  LET s == Head(gateway).sess IN
  /\ agent = "up" /\ gateway # <<>> /\ Head(gateway).kind = "end"
  /\ gateway' = Tail(gateway)
  /\ active' = [active EXCEPT ![s] = NoId]
  /\ opened' = IF active[s] = NoId THEN opened
                 ELSE [opened EXCEPT ![active[s]].stop = TRUE]
  /\ UNCHANGED <<manager, requests, stranded, responses, agent, history, count>>

\* The finally of handleSessionEntry: only an entry that is still the
\* consumer's own is removed.
ClosedWhateverIsActive(i) == [active EXCEPT ![opened[i].sess] = NoId]  \* mutant
Closed(i) == [s \in Sessions |-> IF active[s] = i THEN NoId ELSE active[s]]

Close(i) ==
  /\ active' = Closed(i)
  /\ opened' = [opened EXCEPT ![i] = Gone]

StartEnds(i) ==
  /\ opened[i].at = "starting"
  /\ IF opened[i].stop THEN UNCHANGED count ELSE RpcFault("start")
  /\ Close(i)
  /\ UNCHANGED <<manager, streams, agent, history>>

\* The group exists; requests that a dead consumer left unmarked are claimed,
\* if they are older than any call still waits.
Ready(i) ==
  LET s == opened[i].sess
      old == {n \in stranded[s] : \A t \in InCall(s) : task[t].req # n} IN
  /\ opened[i].at = "starting" /\ ~opened[i].stop
  /\ \E claimed \in {{}, old} :
       /\ opened' = [opened EXCEPT ![i].at = IF claimed = {} THEN "reading" ELSE "working",
                                       ![i].todo = claimed]
       /\ stranded' = [stranded EXCEPT ![s] = @ \ claimed]
  /\ UNCHANGED <<manager, gateway, requests, responses, agent, active, history, count>>

\* One XREADGROUP; the one a stopping consumer is blocked in may still answer.
Take(i) ==
  LET s == opened[i].sess IN
  /\ opened[i].at = "reading" /\ requests[s] # {}
  /\ requests' = [requests EXCEPT ![s] = {}]
  /\ opened' = [opened EXCEPT ![i].at = "working", ![i].todo = requests[s]]
  /\ UNCHANGED <<manager, gateway, stranded, responses, agent, active, history, count>>

\* The handler is done with a request: it publishes the answer, unless it
\* failed to the end.
Work(i) ==
  LET s == opened[i].sess
      n == First(opened[i].todo) IN
  /\ opened[i].at = "working" /\ ~opened[i].stop
  /\ \/ responses' = [responses EXCEPT ![s] = Append(@, n)] /\ UNCHANGED count
     \/ RpcFault("work") /\ UNCHANGED responses
  /\ opened' = [opened EXCEPT ![i].todo = @ \ {n},
                                  ![i].at = IF opened[i].todo = {n} THEN "reading" ELSE "working"]
  /\ UNCHANGED <<manager, gateway, requests, stranded, agent, active, history>>

\* A stopped consumer's connection is closed: what it was given stays
\* unacknowledged, and unmarked but for a request it had begun.
GiveBack(i) ==
  LET s == opened[i].sess
      todo == opened[i].todo IN
  /\ opened[i].at = "working" /\ opened[i].stop
  /\ \E left \in {todo, todo \ {First(todo)}} :
       stranded' = [stranded EXCEPT ![s] = @ \cup left]
  /\ opened' = [opened EXCEPT ![i].at = "leaving", ![i].todo = {}]
  /\ UNCHANGED <<manager, gateway, requests, responses, agent, active, history, count>>

\* The read loop ends.
LoopEnds(i) ==
  /\ opened[i].at \in {"reading", "leaving"} /\ opened[i].stop
  /\ Close(i)
  /\ UNCHANGED <<manager, streams, agent, history, count>>

-----------------------------------------------------------------------------
CallStep(r) == Notify(r) \/ Tip(r) \/ SendRequest(r) \/ Answered(r)
ReleaseStep(t) == Release(t) \/ EndGateway(t) \/ Forget(t)
OpenedStep(i) ==
  StartEnds(i) \/ Ready(i) \/ Take(i) \/ Work(i) \/ GiveBack(i) \/ LoopEnds(i)

RpcNext ==
  \/ \E r \in Runs :
       \/ \E s \in Sessions : StartRun(r, s)
       \/ Begin(r) \/ CallStep(r) \/ Timeout(r) \/ CallFails(r) \/ FinishRun(r)
  \/ \E a \in Aborters, s \in Sessions : Abort(a, s)
  \/ \E t \in Tasks : ReleaseStep(t)
  \/ Boot \/ AgentCrash \/ HandleStart \/ HandleEnd
  \/ \E i \in Ids : OpenedStep(i)

RpcSpec == RpcInit /\ [][RpcNext]_rpcVars

-----------------------------------------------------------------------------
\* However ends and reopenings overlap with consumers that are still winding
\* down, a consumer that was not told to stop is the one the dispatcher knows
\* for its session (session-dispatcher.ts, the identity check).
OneConsumerPerSession ==
  \A i \in Live : ~opened[i].stop => active[opened[i].sess] = i

\* A call gets another call's answer only in a session where a call was given
\* up or two calls were in flight at once: the tip taken before sending keeps
\* all earlier answers out (redis-agent-handler.ts executeRpc).
MixedOnlyIfDisturbed == mixed \subseteq disturbed
=============================================================================
