----------------------------- MODULE McpProcesses -----------------------------
(***************************************************************************)
(* The MCP servers that the desktop application of the Orchestrator runs   *)
(* as child processes (McpProcessManager), with the life of the            *)
(* application around them.  A stop sends SIGTERM and waits for the exit   *)
(* of the process, for three seconds at most; then it sends SIGKILL and    *)
(* does not wait any more.  Only one instance of the application runs.     *)
(*                                                                         *)
(* Names, arguments and the environment of a server with its encryption    *)
(* are data: a configuration is one that may be started or not.            *)
(***************************************************************************)
EXTENDS Naturals, Sequences, FiniteSets, SequencesExt

CONSTANTS
  Servers,        \* ids of servers
  MaxProcesses,   \* processes started in a behaviour
  MaxSaveFaults   \* writes of the file that fail

ASSUME McpAssumption == MaxProcesses \in Nat /\ MaxSaveFaults \in Nat

VARIABLES
  app,         \* "open" or "closed"
  configs,     \* the configurations in memory, in the order they were added
  saved,       \* the file
  processes,   \* the process of a server, or 0
  statuses,    \* what the panel shows
  children,    \* the processes: server, signal it got, whether it runs and is heard of
  stops,       \* stops that wait: process, and what follows
  forced,      \* servers of which a process was killed at the time limit
  saveFaults

mcpVars == <<app, configs, saved, processes, statuses, children, stops, forced, saveFaults>>

Config == [id : Servers, allowed : BOOLEAN, autoStart : BOOLEAN]
Pids == 1..Len(children)
Has(list, id) == \E i \in DOMAIN list : list[i].id = id
ConfigOf(list, id) == list[CHOOSE i \in DOMAIN list : list[i].id = id]
Without(list, id) == SelectSeq(list, LAMBDA c : c.id # id)

McpInit ==
  /\ app = "closed"
  /\ configs = << >> /\ saved = << >>
  /\ processes = [s \in Servers |-> 0]
  /\ statuses = [s \in Servers |-> "stopped"]
  /\ children = << >>
  /\ stops = {} /\ forced = {}
  /\ saveFaults = 0

---------------------------------------------------------------------------
(* What the operations share, on the state [processes, statuses, children]   *)

State == [processes |-> processes, statuses |-> statuses, children |-> children]
Becomes(s) ==
  processes' = s.processes /\ statuses' = s.statuses /\ children' = s.children

\* startServer of a server that may be started: nothing when it has a process
\* already; a command that is not there ends in an error at once.
Child(id) == [id |-> id, signal |-> "none", runs |-> TRUE, heard |-> TRUE]
Spawned(s, id) ==
  [processes |-> [s.processes EXCEPT ![id] = Len(s.children) + 1],
   statuses |-> [s.statuses EXCEPT ![id] = "running"],
   children |-> Append(s.children, Child(id))]
SpawnFailed(s, id) == [s EXCEPT !.statuses[id] = "error"]
Starts(s, id) ==
  IF s.processes[id] # 0 THEN {s}
  ELSE {SpawnFailed(s, id)} \cup (IF Len(s.children) < MaxProcesses THEN {Spawned(s, id)} ELSE {})

\* The entry goes, whichever process it is for by now.
Forgotten(s, id) ==
  [s EXCEPT !.processes[id] = 0, !.statuses[id] = "stopped"]

Signal(kids, pids, signal) ==
  [i \in DOMAIN kids |-> IF i \in pids /\ kids[i].runs THEN [kids[i] EXCEPT !.signal = signal] ELSE kids[i]]

\* The file is written whole, or the write fails and the operation ends there.
Save(list) ==
  \/ saved' = list /\ UNCHANGED saveFaults
  \/ saveFaults < MaxSaveFaults /\ saveFaults' = saveFaults + 1 /\ UNCHANGED saved
SavedIt == saveFaults' = saveFaults

---------------------------------------------------------------------------
(* The panel                                                                  *)

\* Also how a server is changed: its process, if there is one, goes on.
AddServer ==
  /\ app = "open"
  /\ \E c \in Config :
       /\ configs' = Append(Without(configs, c.id), c)
       /\ Save(configs')
       /\ IF SavedIt /\ c.autoStart /\ c.allowed
          THEN \E s \in Starts(State, c.id) : Becomes(s)
          ELSE UNCHANGED <<processes, statuses, children>>
  /\ UNCHANGED <<app, stops, forced>>

\* One that may not be started is an error without effect.
StartServer(id) ==
  /\ app = "open" /\ Has(configs, id) /\ ConfigOf(configs, id).allowed
  /\ \E s \in Starts(State, id) : Becomes(s)
  /\ UNCHANGED <<app, configs, saved, stops, forced, saveFaults>>

\* What follows the wait: the entry goes, and the configuration if the server
\* is to be removed.
AfterStop(s, ended, list) ==
  /\ Becomes([s EXCEPT !.processes = [i \in Servers |-> IF \E e \in ended : e.id = i THEN 0 ELSE @[i]],
                       !.statuses = [i \in Servers |->
                                       IF \E e \in ended : e.id = i THEN "stopped" ELSE @[i]]])
  /\ LET gone == {e.id : e \in {e \in ended : e.then = "remove"}} IN
       IF gone = {} THEN UNCHANGED <<configs, saved, saveFaults>>
       ELSE configs' = SelectSeq(list, LAMBDA c : c.id \notin gone) /\ Save(configs')

StopServerAtOnce(id, then) ==  \* mutant
  /\ app = "open" /\ processes[id] # 0
  /\ AfterStop([State EXCEPT !.children = Signal(children, {processes[id]}, "TERM")],
           {[id |-> id, pid |-> processes[id], then |-> then]}, configs)
  /\ UNCHANGED <<app, stops, forced>>
StopServer(id, then) ==
  /\ app = "open" /\ processes[id] # 0
  /\ children' = Signal(children, {processes[id]}, "TERM")
  /\ stops' = stops \cup {[id |-> id, pid |-> processes[id], then |-> then]}
  /\ UNCHANGED <<app, configs, saved, processes, statuses, forced, saveFaults>>

\* Nothing to stop.
RemoveStopped(id) ==
  /\ app = "open" /\ processes[id] = 0 /\ Has(configs, id)
  /\ configs' = Without(configs, id)
  /\ Save(configs')
  /\ UNCHANGED <<app, processes, statuses, children, stops, forced>>

\* Three seconds after a stop.
StopTimesOut(stop) ==
  /\ app = "open"
  /\ LET kills == processes[stop.id] # 0 IN
       /\ AfterStop([State EXCEPT !.children = IF kills THEN Signal(children, {stop.pid}, "KILL") ELSE @],
                {stop}, configs)
       /\ forced' = IF kills THEN forced \cup {stop.id} ELSE forced
  /\ stops' = stops \ {stop}
  /\ UNCHANGED app

\* A process ends, by itself or by a signal.  Its exit removes the entry of its
\* server and ends the stops that wait for it.
Exits(pid) ==
  /\ children[pid].runs
  /\ LET kids == [children EXCEPT ![pid].runs = FALSE]
         waiting == {stop \in stops : stop.pid = pid} IN
       IF ~kids[pid].heard
       THEN children' = kids /\ UNCHANGED <<configs, saved, processes, statuses, stops, saveFaults>>
       ELSE /\ AfterStop(Forgotten([State EXCEPT !.children = kids], kids[pid].id), waiting, configs)
            /\ stops' = stops \ waiting
  /\ UNCHANGED <<app, forced>>

---------------------------------------------------------------------------
(* The application                                                            *)

\* The servers to be started, up to the first that may not be.
Automatic(list) == SelectSeq(list, LAMBDA c : c.autoStart)
Refuses(list) == \E i \in DOMAIN list : ~list[i].allowed
UpToRefused(list) ==
  IF Refuses(list) THEN SubSeq(list, 1, SelectInSeq(list, LAMBDA c : ~c.allowed) - 1) ELSE list
Due(list) == {id \in Servers : Has(list, id) /\ processes[id] = 0}
Place(started, id) == {k \in DOMAIN started : started[k] = id}
AfterStarts(due, started) ==
  [processes |-> [id \in Servers |-> IF Place(started, id) = {} THEN processes[id]
                                    ELSE Len(children) + CHOOSE k \in Place(started, id) : TRUE],
   statuses |-> [id \in Servers |-> IF id \notin due THEN statuses[id]
                                   ELSE IF Place(started, id) = {} THEN "error" ELSE "running"],
   children |-> children \o [k \in DOMAIN started |-> Child(started[k])]]
\* Any of them may fail to start; the number of a process is only a name.
AllStarts(list) ==
  UNION {{AfterStarts(Due(list), started) : started \in Injection(1..k, Due(list))} :
           k \in 0..(MaxProcesses - Len(children))}

\* Quitting sends SIGTERM to every process that has an entry and waits for
\* none; those that go on are not heard of again.
Quits(s) ==
  /\ app' = "closed"
  /\ processes' = [i \in Servers |-> 0]
  /\ statuses' = [i \in Servers |-> "stopped"]
  /\ LET kids == Signal(s.children, {s.processes[i] : i \in Servers}, "TERM") IN
       children' = [i \in DOMAIN kids |-> [kids[i] EXCEPT !.heard = FALSE]]
  /\ stops' = {}

\* A server that may not be started ends the application.
OpenApp ==
  /\ app = "closed"
  /\ configs' = saved
  /\ LET auto == Automatic(saved) IN
       \E s \in AllStarts(UpToRefused(auto)) :
         IF Refuses(auto) THEN Quits(s)
         ELSE app' = "open" /\ Becomes(s) /\ UNCHANGED stops
  /\ UNCHANGED <<saved, forced, saveFaults>>

QuitApp ==
  /\ app = "open"
  /\ Quits(State)
  /\ UNCHANGED <<configs, saved, forced, saveFaults>>

McpNext ==
  \/ AddServer \/ OpenApp \/ QuitApp
  \/ \E id \in Servers :
       \/ StartServer(id) \/ StopServer(id, "stop") \/ StopServer(id, "remove") \/ RemoveStopped(id)
  \/ \E stop \in stops : StopTimesOut(stop)
  \/ \E pid \in Pids : Exits(pid)

---------------------------------------------------------------------------
(* Properties *)

McpTypeOK ==
  /\ app \in {"open", "closed"}
  /\ processes \in [Servers -> 0..MaxProcesses]
  /\ statuses \in [Servers -> {"running", "stopped", "error"}]
  /\ Len(children) <= MaxProcesses
  /\ saveFaults \in 0..MaxSaveFaults

\* A process that runs and was not told to end is the one its server has an
\* entry for, so it can be stopped and there is no second one, unless an
\* earlier process of that server had to be killed at the time limit: its exit,
\* which nobody waited for, then takes away the entry of its successor.
ServersAreTracked ==
  app = "open" =>
    \A pid \in Pids :
      children[pid].runs /\ children[pid].signal = "none" /\ children[pid].id \notin forced =>
        processes[children[pid].id] = pid

\* A server that the panel shows as running has a process.
RunningHasEntry ==
  \A id \in Servers : statuses[id] = "running" <=> processes[id] # 0

McpSpec == McpInit /\ [][McpNext]_mcpVars
=============================================================================
