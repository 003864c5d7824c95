--------------------------- MODULE ManagedSession ---------------------------
(***************************************************************************)
(* One session of the Manager (xzawedManager/packages/server/src): its     *)
(* start (api/sessions.route.ts, streams/session-gateway.ts), the consumer *)
(* of its stream (streams/consumer.ts), the runs of its task and decompose *)
(* requests, the store's entry with the waiter for an answer               *)
(* (sessions/session.store.ts), the event log (db/event-store.ts) and the  *)
(* clean-up that several parties perform.                                  *)
(*                                                                         *)
(* Everything runs in one process: a handler is cut where it awaits, and   *)
(* an append to the event log is such a point.  A start that passes makes  *)
(* a new incarnation of the session: a consumer object and a store entry.  *)
(* What a run does between two questions is left open, and so are the      *)
(* messages that arrive: a consumer that was told to stop still works      *)
(* through the batch it has read.                                          *)
(***************************************************************************)
EXTENDS Integers, FiniteSets

CONSTANTS
  MaxIncs,      \* bound on starts of the session
  MaxRuns,      \* bound on task and decompose requests
  MaxAsks,      \* bound on questions per run (the code: MANAGER_MAX_ITERATIONS)
  Faults,       \* the kinds of faults that happen
  MaxFaults     \* bound on their number

FaultKinds == {"append", "group", "crash"}

ASSUME SessionAssumption ==
  /\ {MaxIncs, MaxRuns} \subseteq Nat \ {0}
  /\ {MaxAsks, MaxFaults} \subseteq Nat
  /\ Faults \subseteq FaultKinds

Incs == 1..MaxIncs
Runs == Incs \X (1..MaxRuns)
Loops == Incs \X {0}
Actors == Runs \cup Loops
Loop(k) == <<k, 0>>
Nobody == <<0, 0>>

VARIABLES
  active,    \* activeConsumers: the incarnation registered, or None
  stored,    \* SessionStore.sessions: the incarnation whose entry it holds
  entry,     \* that entry: its state and the run that waits for an answer
  start,     \* start[k]: startManagedSession
  stopped,   \* incarnations whose consumer was told to stop
  actor,     \* actor[a]: what the consumer <<k, 0>> or the run <<k, i>> does
  promise,   \* promise[r]: the answer run r waits for
  cancelled, \* runs whose abort signal has fired
  silent,    \* runs that ended without a word to the requester
  asked,     \* asked[r]: questions so far
  aborted,   \* incarnations that a person aborted, by message or at a gate
  ttl,       \* the keys of the session's streams are set to expire
  watched,   \* the events of the session's watcher are consumed
  last,      \* manager_events: the last event of the session
  faults

runs == <<promise, cancelled, silent, asked>>
vars == <<active, stored, entry, start, stopped, actor, runs, aborted, ttl, watched, last,
          faults>>

-----------------------------------------------------------------------------
None == 0
Restored == MaxIncs + 1   \* the entry that a replay of the log made

States == {"idle", "running", "waiting_info"}
Events == States \cup {"created", "deleted"}

NewEntry(state) == [state |-> state, waiter |-> Nobody]

\* own: the entry whose abort signal a run holds; to: the run an append in
\* progress will wake; acks: a message is acknowledged when the handler ends.
Absent == [pc |-> "none", own |-> None, to |-> Nobody, acks |-> FALSE]
Steps == {"ready", "reading", "resolving", "prepare", "decompose", "work", "asking",
          "waiting", "aborting", "failing", "deleting", "releasing"}
Ended == {"none", "done"}

TypeOK ==
  /\ active \in {None} \cup Incs
  /\ stored \in {None, Restored} \cup Incs
  /\ entry \in [state : States, waiter : Runs \cup {Nobody}]
  /\ start \in [Incs -> {"none", "append", "open", "failed"}]
  /\ stopped \subseteq Incs /\ aborted \subseteq Incs
  /\ actor \in [Actors -> [pc : Ended \cup Steps, own : {None, Restored} \cup Incs,
                           to : Runs \cup {Nobody}, acks : BOOLEAN]]
  /\ promise \in [Runs -> {"none", "pending", "answered", "aborted", "deleted"}]
  /\ cancelled \subseteq Runs /\ silent \subseteq Runs
  /\ asked \in [Runs -> 0..MaxAsks]
  /\ ttl \in BOOLEAN /\ watched \in BOOLEAN
  /\ last \in Events \cup {"none"}
  /\ faults \in 0..MaxFaults

Init ==
  /\ active = None /\ stored = None /\ entry = NewEntry("idle")
  /\ start = [k \in Incs |-> "none"]
  /\ stopped = {} /\ aborted = {} /\ cancelled = {} /\ silent = {}
  /\ actor = [a \in Actors |-> Absent]
  /\ promise = [r \in Runs |-> "none"]
  /\ asked = [r \in Runs |-> 0]
  /\ ttl = FALSE /\ watched = FALSE /\ last = "none" /\ faults = 0

Fault(kind) == kind \in Faults /\ faults < MaxFaults /\ faults' = faults + 1

At(a, pc) == actor' = [actor EXCEPT ![a].pc = pc]

\* appendSessionEvent: one transaction, which may fail.
Commit(event) == last' = event /\ UNCHANGED faults
Lost == Fault("append") /\ UNCHANGED last

-----------------------------------------------------------------------------
(* startManagedSession, called by the HTTP route and the gateway.  For an  *)
(* active session it returns at once; the runs of an earlier incarnation   *)
(* and their clean-up are not waited for.                                  *)

Startable(k) ==
  /\ start[k] = "none" /\ (k > 1 => start[k - 1] # "none")
  /\ active = None

StartBegin(k) ==
  /\ Startable(k) /\ stored = None
  /\ start' = [start EXCEPT ![k] = "append"]
  /\ stored' = k /\ entry' = NewEntry("idle")
  /\ UNCHANGED <<active, stopped, actor, runs, aborted, ttl, watched, last, faults>>

\* create finds an entry and throws: the gateway's message is a dead letter.
StartRefused(k) ==
  /\ Startable(k) /\ stored # None
  /\ start' = [start EXCEPT ![k] = "failed"]
  /\ UNCHANGED <<active, stored, entry, stopped, actor, runs, aborted, ttl, watched, last,
                 faults>>

\* The entry is recorded: the consumer is made, registered and started, and
\* what an earlier end did to the streams is undone (the PERSIST is sent on
\* the connection a later EXPIRE takes, so they keep their order).
KeepExpiry == UNCHANGED ttl  \* mutant
Persist == ttl' = FALSE
StartRegister(k) ==
  /\ start[k] = "append" /\ Commit("created")
  /\ start' = [start EXCEPT ![k] = "open"]
  /\ Persist
  /\ active' = k /\ watched' = TRUE
  /\ At(Loop(k), "ready")
  /\ UNCHANGED <<stored, entry, stopped, runs, aborted>>

StartFails(k) ==
  /\ start[k] = "append" /\ Lost
  /\ start' = [start EXCEPT ![k] = "failed"]
  /\ stored' = None /\ entry' = NewEntry("idle")
  /\ UNCHANGED <<active, stopped, actor, runs, aborted, ttl, watched>>

-----------------------------------------------------------------------------
(* SessionStore: the synchronous part of its operations.                   *)

\* delete: a waiter is rejected and the entry is gone; returns the promises.
RejectWaiter(reason) ==
  promise' = IF entry.waiter = Nobody THEN promise
             ELSE [promise EXCEPT ![entry.waiter] = reason]

DropEntry == RejectWaiter("deleted") /\ stored' = None /\ entry' = NewEntry("idle")

\* abort: the signal fires, and the waiter is taken off to be rejected once
\* the transition is recorded.
AbortEntryForgets(a) ==  \* mutant
  /\ cancelled' = cancelled \cup {r \in Runs : actor[r].own = stored /\ actor[r].own # None}
  /\ entry' = NewEntry("idle")
  /\ actor' = [actor EXCEPT ![a].pc = "aborting", ![a].acks = a[2] = 0]
AbortEntry(a) ==
  /\ cancelled' = cancelled \cup {r \in Runs : actor[r].own = stored /\ actor[r].own # None}
  /\ entry' = NewEntry("idle")
  /\ actor' = [actor EXCEPT ![a].pc = "aborting", ![a].to = entry.waiter, ![a].acks = a[2] = 0]

-----------------------------------------------------------------------------
(* The clean-up: the consumer stops and leaves the registry, whichever     *)
(* consumer is registered; the entry is deleted, the agents are released,  *)
(* the stream keys expire.                                                 *)

Unregister == active' = None
CleanUp(a) ==
  /\ stopped' = stopped \cup {a[1]}
  /\ Unregister /\ watched' = FALSE
  /\ DropEntry
  /\ At(a, IF stored = None THEN "releasing" ELSE "deleting")

\* SessionDeleted is recorded, or not: the rest follows all the same.
CleanDelete(a) ==
  /\ actor[a].pc = "deleting"
  /\ Commit("deleted") \/ Lost
  /\ At(a, "releasing")
  /\ UNCHANGED <<active, stored, entry, start, stopped, runs, aborted, ttl, watched>>

\* releaseAll and expireSessionStreams end the clean-up.  One that a handler
\* awaits gives way to the rest of the batch.
ExpireNothing == UNCHANGED ttl  \* mutant
Expire == ttl' = TRUE
CleanRelease(a) ==
  /\ actor[a].pc = "releasing"
  /\ Expire
  /\ actor' = [actor EXCEPT ![a] = IF a[2] = 0 /\ @.acks THEN [Absent EXCEPT !.pc = "reading"]
                                   ELSE [Absent EXCEPT !.pc = "done"]]
  /\ cancelled' = cancelled \ {a}
  /\ promise' = [r \in Runs |-> IF r = a THEN "none" ELSE promise[r]]
  /\ UNCHANGED <<active, stored, entry, start, stopped, silent, asked, aborted, watched, last,
                 faults>>

-----------------------------------------------------------------------------
(* StreamConsumer and its handler. *)

LoopReady(k) ==
  /\ actor[Loop(k)].pc = "ready"
  /\ At(Loop(k), "reading")
  /\ UNCHANGED <<active, stored, entry, start, stopped, runs, aborted, ttl, watched, last,
                 faults>>

\* start rejects: the group cannot be made, or made again after NOGROUP.
LoopCrash(k) ==
  /\ actor[Loop(k)].pc \in {"ready", "reading"} /\ k \notin stopped
  /\ Fault("group")
  /\ CleanUp(Loop(k))
  /\ UNCHANGED <<start, cancelled, silent, asked, aborted, ttl, last>>

LoopEnds(k) ==
  /\ actor[Loop(k)].pc = "reading" /\ k \in stopped
  /\ At(Loop(k), "done")
  /\ UNCHANGED <<active, stored, entry, start, stopped, runs, aborted, ttl, watched, last,
                 faults>>

\* task_request, of the requester or of the watcher, and decompose_request: a
\* run of its own.
ReceiveRequest(k) ==
  /\ actor[Loop(k)].pc = "reading"
  /\ \E i \in 1..MaxRuns :
       /\ i = Cardinality({r \in Runs : actor[r].pc # "none"}) + 1
       /\ \E pc \in {"prepare", "decompose"} : At(<<k, i>>, pc)
  /\ UNCHANGED <<active, stored, entry, start, stopped, runs, aborted, ttl, watched, last, faults>>

\* decompose_request with the decomposition switched off: an error, the end.
ReceiveRefused(k) ==
  /\ actor[Loop(k)].pc = "reading" /\ k \notin stopped
  /\ stopped' = stopped \cup {k}
  /\ Unregister /\ watched' = FALSE
  /\ DropEntry
  /\ actor' = [actor EXCEPT ![Loop(k)].pc = IF stored = None THEN "releasing" ELSE "deleting",
                            ![Loop(k)].acks = TRUE]
  /\ UNCHANGED <<start, cancelled, silent, asked, aborted, ttl, last, faults>>

\* info_response: resolveInfo takes the waiter off, records, and wakes it.
ReceiveAnswer(k) ==
  /\ actor[Loop(k)].pc = "reading" /\ stored # None /\ entry.waiter # Nobody
  /\ actor' = [actor EXCEPT ![Loop(k)].pc = "resolving", ![Loop(k)].to = entry.waiter]
  /\ entry' = NewEntry("running")
  /\ UNCHANGED <<active, stored, start, stopped, runs, aborted, ttl, watched, last, faults>>

Resolved(k) ==
  /\ actor[Loop(k)].pc = "resolving"
  /\ \/ Commit("running") /\ promise' = [promise EXCEPT ![actor[Loop(k)].to] = "answered"]
     \/ Lost /\ UNCHANGED promise
  /\ actor' = [actor EXCEPT ![Loop(k)] = [Absent EXCEPT !.pc = "reading"]]
  /\ UNCHANGED <<active, stored, entry, start, stopped, cancelled, silent, asked, aborted, ttl,
                 watched>>

\* abort: first what cannot fail, then the store.
ReceiveAbort(k) ==
  /\ actor[Loop(k)].pc = "reading" /\ k \notin stopped
  /\ aborted' = aborted \cup {k}
  /\ stopped' = stopped \cup {k}
  /\ Unregister /\ watched' = FALSE
  /\ IF stored # None
     THEN AbortEntry(Loop(k))
     ELSE /\ actor' = [actor EXCEPT ![Loop(k)].pc = "releasing", ![Loop(k)].acks = TRUE]
          /\ UNCHANGED <<cancelled, entry>>
  /\ UNCHANGED <<stored, start, promise, silent, asked, ttl, last, faults>>

\* The transition is recorded: the waiter is rejected, and the entry deleted.
Aborted(k) ==
  LET a == Loop(k)
      w == actor[a].to
      rejected == IF w = Nobody THEN promise ELSE [promise EXCEPT ![w] = "aborted"] IN
  /\ actor[a].pc = "aborting"
  /\ \/ /\ Commit("idle")
        /\ promise' = IF stored = None \/ entry.waiter = Nobody THEN rejected
                      ELSE [rejected EXCEPT ![entry.waiter] = "deleted"]
        /\ stored' = None /\ entry' = NewEntry("idle")
        /\ actor' = [actor EXCEPT ![a].pc = IF stored = None THEN "releasing" ELSE "deleting",
                                  ![a].to = Nobody]
     \/ /\ Lost /\ UNCHANGED <<promise, stored, entry>>
        /\ actor' = [actor EXCEPT ![a].pc = "releasing", ![a].to = Nobody]
  /\ UNCHANGED <<active, start, stopped, cancelled, silent, asked, aborted, ttl, watched>>

-----------------------------------------------------------------------------
(* A run of a task request, from the handler's detached function to        *)
(* ClaudeRunner.run and its questions; handleDecomposeRequest.             *)

\* The run is over: the requester is told (or not), then all is cleaned up.
RunEnds(r, told) ==
  /\ silent' = IF told THEN silent ELSE silent \cup {r}
  /\ CleanUp(r)
  /\ UNCHANGED <<start, cancelled, asked, aborted, ttl, last, faults>>

\* ensureWorkspace passes; the abort signal is the one of the entry of now.
RunPrepared(r) ==
  /\ actor[r].pc = "prepare"
  /\ actor' = [actor EXCEPT ![r].pc = "work", ![r].own = stored]
  /\ UNCHANGED <<active, stored, entry, start, stopped, runs, aborted, ttl, watched, last,
                 faults>>

\* task_complete; or error: a workspace is refused, the model fails, a budget
\* trips, the iterations run out, a person ended the session at a gate.
RunFinishes(r) ==
  /\ actor[r].pc \in {"prepare", "decompose", "work", "failing"}
  /\ RunEnds(r, TRUE)

\* The next iteration finds the signal.
RunNoticesAbort(r) ==
  /\ actor[r].pc = "work" /\ r \in cancelled
  /\ RunEnds(r, FALSE)

\* waitForInfo, behind request_info, a clarification or a gate.  Without an
\* entry, or with another waiter, it throws: a question of a tool becomes the
\* tool's error, any other ends the run as RunFinishes does.
RunAsks(r) ==
  /\ actor[r].pc = "work" /\ asked[r] < MaxAsks
  /\ stored # None /\ entry.state # "waiting_info"
  /\ asked' = [asked EXCEPT ![r] = @ + 1]
  /\ entry' = [state |-> "waiting_info", waiter |-> r]
  /\ promise' = [promise EXCEPT ![r] = "pending"]
  /\ At(r, "asking")
  /\ UNCHANGED <<active, stored, start, stopped, cancelled, silent, aborted, ttl, watched,
                 last, faults>>

\* If the append fails, the resolver stays behind, and nobody waits for it.
RunAsked(r) ==
  /\ actor[r].pc = "asking"
  /\ \/ Commit("waiting_info") /\ At(r, "waiting")
     \/ Lost /\ At(r, "work")
  /\ UNCHANGED <<active, stored, entry, start, stopped, runs, aborted, ttl, watched>>

\* The answer, or a rejection that a tool turns into a result of its own.
RunWakes(r) ==
  /\ actor[r].pc = "waiting" /\ promise[r] # "pending"
  /\ At(r, "work")
  /\ UNCHANGED <<active, stored, entry, start, stopped, runs, aborted, ttl, watched, last,
                 faults>>

\* A rejection outside a tool ends the run; an abort does so silently.
RunRejected(r) ==
  /\ actor[r].pc = "waiting" /\ promise[r] \in {"aborted", "deleted"}
  /\ RunEnds(r, promise[r] # "aborted")

\* escalateGate: the person's answer, or too many of them, abort the session.
RunEscalates(r) ==
  /\ actor[r].pc = "work" /\ promise[r] = "answered" /\ stored # None
  /\ aborted' = aborted \cup {r[1]}
  /\ AbortEntry(r)
  /\ UNCHANGED <<active, stored, start, stopped, promise, silent, asked, ttl, watched, last,
                 faults>>

\* An append that fails is the tool's error, and the next iteration finds the
\* signal.
RunEscalated(r) ==
  /\ actor[r].pc = "aborting"
  /\ \/ /\ Commit("idle")
        /\ promise' = IF actor[r].to = Nobody THEN promise
                      ELSE [promise EXCEPT ![actor[r].to] = "aborted"]
        /\ actor' = [actor EXCEPT ![r].pc = "failing", ![r].to = Nobody]
     \/ /\ Lost /\ UNCHANGED promise
        /\ actor' = [actor EXCEPT ![r].pc = "work", ![r].to = Nobody]
  /\ UNCHANGED <<active, stored, entry, start, stopped, cancelled, silent, asked, aborted,
                 ttl, watched>>

-----------------------------------------------------------------------------
(* The process. *)

\* replaySessions, for one session: the last event decides.
Replayed == last \notin {"none", "deleted"}
ReplayedState == IF last \in States THEN last ELSE "idle"

Restart ==
  /\ \E k \in Incs : start[k] # "none"
  /\ Fault("crash")
  /\ active' = None /\ watched' = FALSE
  /\ IF Replayed THEN stored' = Restored /\ entry' = NewEntry(ReplayedState)
                 ELSE stored' = None /\ entry' = NewEntry("idle")
  /\ start' = [k \in Incs |-> IF start[k] = "none" THEN "none" ELSE "failed"]
  /\ actor' = [a \in Actors |-> IF actor[a].pc = "none" THEN Absent
                                ELSE [Absent EXCEPT !.pc = "done"]]
  /\ promise' = [r \in Runs |-> "none"] /\ cancelled' = {}
  /\ UNCHANGED <<stopped, silent, asked, aborted, ttl, last>>

-----------------------------------------------------------------------------
StartStep(k) == StartBegin(k) \/ StartRefused(k) \/ StartRegister(k) \/ StartFails(k)

Receive(k) == ReceiveRequest(k) \/ ReceiveRefused(k) \/ ReceiveAnswer(k) \/ ReceiveAbort(k)

\* What goes on by itself.
LoopStep(k) ==
  \/ LoopReady(k) \/ LoopEnds(k) \/ Resolved(k) \/ Aborted(k)
  \/ CleanDelete(Loop(k)) \/ CleanRelease(Loop(k))

RunStep(r) ==
  \/ RunPrepared(r) \/ RunFinishes(r) \/ RunNoticesAbort(r) \/ RunAsks(r)
  \/ RunAsked(r) \/ RunWakes(r) \/ RunRejected(r) \/ RunEscalates(r) \/ RunEscalated(r)
  \/ CleanDelete(r) \/ CleanRelease(r)

Next ==
  \/ \E k \in Incs : StartStep(k) \/ Receive(k) \/ LoopStep(k) \/ LoopCrash(k)
  \/ \E r \in Runs : RunStep(r)
  \/ Restart

Spec == Init /\ [][Next]_vars

\* What was begun goes on: an append ends, the model answers, a consumer that
\* was told to stop leaves its loop.
Fairness ==
  /\ \A k \in Incs : WF_vars(LoopStep(k)) /\ WF_vars(StartRegister(k))
  /\ \A r \in Runs : WF_vars(RunStep(r))

FairSpec == Spec /\ Fairness

-----------------------------------------------------------------------------
(* Properties. *)

Alive(k) == actor[Loop(k)].pc \notin Ended /\ k \notin stopped
Open(k) == start[k] = "append" \/ Alive(k)
Whole(k) == IF start[k] = "append" THEN stored = k ELSE active = k /\ stored = k /\ ~ttl

\* The clean-up of k, or an abort by it, sets about the session or ends; or the
\* start of k, whose entry somebody dropped, goes through or fails.
Interferes(k) ==
  \/ \E a \in Actors : a[1] = k /\ actor'[a] # actor[a] /\
       (actor'[a].pc \in {"aborting", "deleting", "releasing"} \/ actor[a].pc = "releasing")
  \/ start[k] = "append" /\ stored # k /\ start'[k] # "append"

\* The registry never holds a consumer that does not run.  From its start on an
\* open incarnation is registered, the store holds its entry, and its streams do
\* not expire: the shutdown stops it, the next start sees it, its runs find their
\* session (sessions.route.ts: no consumer may be left behind; session-keys.ts:
\* the streams would vanish in the middle of a living session).  What a person
\* or a run does to it before it ends, and a fault, do not change that; only
\* another incarnation does, mostly an earlier one, that still winds up or whose
\* start goes on though its entry was dropped: no start waits for either.
OpenIsWhole ==
  [][\A k \in Incs :
       /\ active' = k => Alive(k)'
       /\ Open(k)' => Whole(k)' \/ (Open(k) /\ ~Whole(k)) \/ \E j \in Incs \ {k} : Interferes(j)]_vars

\* Nothing of the session is at work.
Settled ==
  /\ \A a \in Actors : actor[a].pc \in Ended
  /\ \A k \in Incs : start[k] # "append"

\* Once nobody works for a session that was open, nothing of it is left: no
\* entry, no watch, no stream without an expiry, in whatever order incarnations
\* overlap.  And a run has ended without a word to its requester only if a
\* person ended the session.
EndedIsClean ==
  /\ Settled /\ (\E k \in Incs : start[k] = "open")
       => active = None /\ ~watched /\ ttl /\ (faults = 0 => stored = None)
  /\ silent # {} => aborted # {}

\* After an abort every run of the session ends, the one that waits for an
\* answer included, unless an append fails meanwhile; or it asks its question in
\* the entry of a later incarnation.
AbortEndsRuns ==
  \A k \in Incs :
    (k \in aborted /\ faults = 0)
      ~> (faults > 0 \/ \A i \in 1..MaxRuns :
            LET r == <<k, i>> IN
            actor[r].pc \in Ended \/ (entry.waiter = r /\ stored \notin {None, k}))
=============================================================================
