------------------------------ MODULE FileWatch ------------------------------
(***************************************************************************)
(* The Watcher agent (xzawedWatcher/src/watcher.ts, watcher-store.ts,      *)
(* session-consumer.ts).                                                   *)
(*                                                                         *)
(* The store of watchers is shared by the consumers of all sessions and    *)
(* holds one watcher per session.  The consumer of a session handles one   *)
(* message at a time; when the session ends, its watcher is removed at     *)
(* once and again when the loop is over (withWatcherCleanup, called twice  *)
(* by SessionDispatcher, which is modelled in AgentRpc), and the session   *)
(* may have been opened again in between.  chokidar is external: a file    *)
(* changes, or goes, whenever its watcher is open.                         *)
(***************************************************************************)
EXTENDS Integers, Sequences, FiniteSets

CONSTANTS
  Watched,       \* sessions
  Files,         \* files below the watched path
  MaxWatchers,   \* config.maxWatchers
  MaxOpens,      \* bound: how often a session is opened
  MaxStarts,     \* bound on watchers that are created
  MaxEvents,     \* bound on file events
  MaxWatchFaults

ASSUME WatchAssumption ==
  /\ MaxWatchers \in Nat \ {0} /\ MaxOpens \in Nat \ {0} /\ MaxStarts \in Nat
  /\ MaxEvents \in Nat /\ MaxWatchFaults \in Nat

VARIABLES
  entries,     \* WatcherStore.entries: session -> watcher
  watchers,    \* every chokidar instance ever created
  loops,       \* the consumers of the sessions, by incarnation
  events,      \* number of file events so far
  watchFaults

watchVars == <<entries, watchers, loops, events, watchFaults>>

-----------------------------------------------------------------------------
WatcherIds == 1..MaxStarts
Loops == Watched \X (1..MaxOpens)
Kinds == {"change", "unlink"}
NoTimer == "none"
Uncreated ==
  [life |-> "none", session |-> CHOOSE s \in Watched : TRUE,
   timers |-> [f \in Files |-> NoTimer], last |-> [f \in Files |-> NoTimer],
   told |-> [f \in Files |-> NoTimer]]

WatchTypeOK ==
  /\ DOMAIN entries \subseteq Watched /\ \A s \in DOMAIN entries : entries[s] \in WatcherIds
  /\ watchers \in [WatcherIds ->
       [life : {"none", "open", "closed"}, session : Watched,
        timers : [Files -> Kinds \cup {NoTimer}], last : [Files -> Kinds \cup {NoTimer}],
        told : [Files -> Kinds \cup {NoTimer, "lost"}]]]
  /\ loops \in [Loops ->
       [at : {"none", "idle", "path", "started", "stopped", "error", "gone"}, ending : BOOLEAN]]
  /\ events \in 0..MaxEvents /\ watchFaults \in 0..MaxWatchFaults

WatchInit ==
  /\ entries = [s \in {} |-> 1] /\ watchers = [w \in WatcherIds |-> Uncreated]
  /\ loops = [c \in Loops |-> [at |-> "none", ending |-> FALSE]]
  /\ events = 0 /\ watchFaults = 0

WatchFault == watchFaults < MaxWatchFaults /\ watchFaults' = watchFaults + 1
GoTo(c, pc) == loops' = [loops EXCEPT ![c].at = pc]
Alive(c) == loops[c].at \notin {"none", "gone"}
Full == Cardinality(DOMAIN entries) >= MaxWatchers

\* WatcherStore.remove: the timers and the watcher of the entry.
RemoveKeepsTimers(s) ==  \* mutant
  /\ entries' = [t \in DOMAIN entries \ {s} |-> entries[t]]
  /\ watchers' = IF s \in DOMAIN entries THEN [watchers EXCEPT ![entries[s]].life = "closed"] ELSE watchers
Remove(s) ==
  /\ entries' = [t \in DOMAIN entries \ {s} |-> entries[t]]
  /\ watchers' = IF s \in DOMAIN entries
                 THEN [watchers EXCEPT ![entries[s]].life = "closed",
                                       ![entries[s]].timers = [f \in Files |-> NoTimer]]
                 ELSE watchers

-----------------------------------------------------------------------------
(* Sessions open and end.                                                  *)

OpenSession(c) ==
  /\ loops[c].at = "none" /\ (c[2] > 1 => loops[<<c[1], c[2] - 1>>].ending)
  /\ GoTo(c, "idle")
  /\ UNCHANGED <<entries, watchers, events, watchFaults>>

\* stop, and the first close.
EndSession(c) ==
  /\ Alive(c) /\ ~loops[c].ending
  /\ loops' = [loops EXCEPT ![c].ending = TRUE] /\ Remove(c[1])
  /\ UNCHANGED <<events, watchFaults>>

\* The loop is over: the second close.
LoopOver(c) ==
  /\ loops[c].at = "idle" /\ loops[c].ending
  /\ GoTo(c, "gone") /\ Remove(c[1])
  /\ UNCHANGED <<events, watchFaults>>

-----------------------------------------------------------------------------
(* Watcher.handle.  The rest of a batch is handled after stop.             *)

\* watch_request, up to the await of validatePath.
WatchRequest(c) ==
  /\ loops[c].at = "idle"
  /\ GoTo(c, IF Full THEN "error" ELSE "path")
  /\ UNCHANGED <<entries, watchers, events, watchFaults>>

\* The path is refused; or chokidar is started and WatcherStore.add looks at
\* the capacity again.
AddUnchecked(s) == TRUE  \* mutant
MayAdd(s) == ~Full
NewWatcher == CHOOSE w \in WatcherIds : watchers[w].life = "none"
PathChecked(c) ==
  /\ loops[c].at = "path"
  /\ \/ GoTo(c, "error") /\ UNCHANGED <<entries, watchers>>
     \/ /\ \E w \in WatcherIds : watchers[w].life = "none"
        /\ IF MayAdd(c[1])
           THEN /\ entries' = [s \in DOMAIN entries \cup {c[1]} |->
                                 IF s = c[1] THEN NewWatcher ELSE entries[s]]
                /\ watchers' = [watchers EXCEPT ![NewWatcher] =
                                  [Uncreated EXCEPT !.life = "open", !.session = c[1]]]
                /\ GoTo(c, "started")
           ELSE GoTo(c, "error") /\ UNCHANGED <<entries, watchers>>
  /\ UNCHANGED <<events, watchFaults>>

\* stop_watch and abort.
StopWatch(c) ==
  /\ loops[c].at = "idle" /\ c[1] \in DOMAIN entries
  /\ Remove(c[1]) /\ GoTo(c, "stopped")
  /\ UNCHANGED <<events, watchFaults>>

\* watch_started, watch_stopped and error are published.  On a connection that
\* is being closed this may fail at any time.  A failed watch_started is an
\* error; after another failure the message is handled again.
Published(c) ==
  /\ loops[c].at \in {"started", "stopped", "error"}
  /\ \/ GoTo(c, "idle") /\ UNCHANGED watchFaults
     \/ /\ IF loops[c].ending THEN UNCHANGED watchFaults ELSE WatchFault
        /\ GoTo(c, IF loops[c].at = "started" THEN "error" ELSE "idle")
  /\ UNCHANGED <<entries, watchers, events>>

-----------------------------------------------------------------------------
(* File events and their timers.                                           *)

\* queueEvent: the timer of a file starts anew with the latest event.
QueueEventFirst(w, f, kind) ==  \* mutant
  [watchers EXCEPT ![w].last[f] = kind, ![w].timers[f] = IF @ = NoTimer THEN kind ELSE @]
QueueEvent(w, f, kind) == [watchers EXCEPT ![w].last[f] = kind, ![w].timers[f] = kind]
FileEvent(w, f, kind) ==
  /\ watchers[w].life = "open" /\ events < MaxEvents
  /\ events' = events + 1 /\ watchers' = QueueEvent(w, f, kind)
  /\ UNCHANGED <<entries, loops, watchFaults>>

\* file_changed, which is lost if it cannot be published.
TimerFires(w, f) ==
  /\ watchers[w].timers[f] # NoTimer
  /\ \/ watchers' = [watchers EXCEPT ![w].timers[f] = NoTimer, ![w].told[f] = watchers[w].timers[f]]
        /\ UNCHANGED watchFaults
     \/ watchers' = [watchers EXCEPT ![w].timers[f] = NoTimer, ![w].told[f] = "lost"] /\ WatchFault
  /\ UNCHANGED <<entries, loops, events>>

-----------------------------------------------------------------------------
WatchNext ==
  \/ \E c \in Loops :
       \/ OpenSession(c) \/ EndSession(c) \/ LoopOver(c)
       \/ WatchRequest(c) \/ PathChecked(c) \/ StopWatch(c) \/ Published(c)
  \/ \E w \in WatcherIds, f \in Files :
       TimerFires(w, f) \/ \E kind \in Kinds : FileEvent(w, f, kind)

WatchSpec == WatchInit /\ [][WatchNext]_watchVars

-----------------------------------------------------------------------------
(* Properties.                                                             *)

\* Requests of several sessions pass the first check of the capacity before any
\* of them is registered; there are never more watchers in the store than
\* allowed (watcher.ts: "prevents MAX_WATCHERS race").
CapacityHeld == Cardinality(DOMAIN entries) <= MaxWatchers

\* However the events of a file follow each other and its timer, what the
\* Manager is told in the end is the last of them, unless the watcher is closed
\* or the message cannot be published (watcher.ts: queueEvent).
LastEventIsTold ==
  \A w \in WatcherIds : watchers[w].life = "open" =>
    \A f \in Files :
      LET v == watchers[w] IN v.timers[f] = v.last[f] \/ (v.timers[f] = NoTimer /\ v.told[f] \in {v.last[f], "lost"})

\* A watcher that was stopped is silent: it is not in the store, and no timer
\* of it will fire after watch_stopped (watcher-store.ts: remove).
StoppedIsSilent ==
  \A w \in WatcherIds : watchers[w].life = "closed" =>
    /\ \A f \in Files : watchers[w].timers[f] = NoTimer
    /\ \A s \in DOMAIN entries : entries[s] # w

\* When a session is over, none of its watchers is left (session-consumer.ts:
\* the watcher of a session must not live until SIGTERM).
WatchingEnds ==
  \A s \in Watched :
    (\A k \in 1..MaxOpens : ~Alive(<<s, k>>)) =>
      \A w \in WatcherIds : watchers[w].session = s => watchers[w].life # "open"
=============================================================================
