------------------------------ MODULE MCServices -------------------------------
(***************************************************************************)
(* The services as they run, explored one at a time: a session of the      *)
(* Manager (ManagedSession), the life of a process (ServiceProcess), the   *)
(* migrations before it serves (Migrations) and what its configuration     *)
(* wires (ManagerWiring).  They share no state here; focus says whose turn *)
(* it is.                                                                  *)
(***************************************************************************)
EXTENDS ManagedSession, ServiceProcess, Migrations, ManagerWiring, TLC

VARIABLE focus

MCVars == <<focus, vars, processVars, migrationVars, wiringVars>>

\* Two Managers, one of which brings an older image, and an Orchestrator.
MCInstances == {"m1", "m2", "o1"}
MCServiceOf == ("m1" :> "manager") @@ ("m2" :> "manager") @@ ("o1" :> "orchestrator")
MCScriptsOf == ("m1" :> 1..3) @@ ("m2" :> 1..2) @@ ("o1" :> 1..3)
Statement(kind, clause, region) == [kind |-> kind, clause |-> clause, region |-> region]
MCStatements ==
  [s \in DbServices |->
     << {Statement("table", TRUE, "none")},
        {Statement("constraint", FALSE, "catalog"), Statement("column", TRUE, "none")},
        {Statement("type", FALSE, "handler")} >>]

\* No flag, the database alone, the whole loop and everything, with any two
\* flags the other way round; and the profile with one flag it sets turned off.
Base == {"DATABASE", "SECRET"}
LoopOn == Base \cup {"TASK_MANAGER", "TASK_WORKER", "DECOMPOSE", "WP_VERIFY"}
AllOn == Features \cup Base \cup {"BUDGET_DAILY", "BUDGET_WORKFLOW", "PROVIDER_CIRCUIT"}
Toggle(flags, these) == (flags \ these) \cup (these \ flags)
Env(flags, off, autonomous, minRisk) ==
  [on |-> flags, off |-> off, autonomous |-> autonomous, minRisk |-> minRisk]
MCEnvironments ==
  {Env(Toggle(flags, {x, y}), {}, FALSE, "HIGH") :
     flags \in {{}, Base, LoopOn, AllOn}, x \in AllOn, y \in AllOn}
  \cup {Env(Toggle(flags, {x}), {y}, autonomous, "MEDIUM") :
          flags \in {Base, AllOn}, x \in Features \cup Settings, y \in Profile,
          autonomous \in BOOLEAN}

\* Where there are several initial states, one will do for what is not in focus.
MCInit ==
  /\ focus \in {"session", "process", "migration", "wiring"}
  /\ Init /\ ProcessInit /\ MigrationInit
  /\ IF focus = "wiring" THEN WiringInit
     ELSE /\ env = Env({}, {}, FALSE, "HIGH") /\ stage = "loading"
          /\ on = {} /\ parts = {} /\ warned = {} /\ seen = {}
  /\ focus # "process" => service = "manager" /\ db = "up" /\ redis

\* SessionBound: once the session was started again, no incarnation has more than
\* one of the runs, and overlapping ones see neither a fault nor a question.
Overlapping ==
  start[2] # "none" /\ Cardinality({r \in Runs : actor[r].pc # "none"}) > 1
SessionBound ==
  Overlapping =>
    /\ \A k \in Incs : Cardinality({r \in Runs : r[1] = k /\ actor[r].pc # "none"}) <= 1
    /\ faults = 0 /\ \A r \in Runs : asked[r] = 0
SessionStep ==
  focus = "session" /\ Next /\ SessionBound' /\ UNCHANGED <<focus, processVars, migrationVars, wiringVars>>
ProcessStep ==
  focus = "process" /\ ProcessNext /\ UNCHANGED <<focus, vars, migrationVars, wiringVars>>
MigrationStep ==
  focus = "migration" /\ MigrationNext /\ UNCHANGED <<focus, vars, processVars, wiringVars>>
WiringStep ==
  focus = "wiring" /\ WiringNext /\ UNCHANGED <<focus, vars, processVars, migrationVars>>
MCNext == SessionStep \/ ProcessStep \/ MigrationStep \/ WiringStep

\* Fairness and ProcessFairness, for the one in focus.
On(component, A) == focus = component /\ A
MCFairness ==
  /\ \A k \in Incs : WF_vars(On("session", LoopStep(k))) /\ WF_vars(On("session", StartRegister(k)))
  /\ \A r \in Runs : WF_vars(On("session", RunStep(r)))
  /\ WF_processVars(On("process", \E c \in Checks : CheckTimesOut(c)))
  /\ WF_processVars(On("process", AnswerProbe)) /\ WF_processVars(On("process", Watchdog))
  /\ WF_processVars(On("process", service = "agent" /\ (Drain \/ Quit)))
MCSpec == MCInit /\ [][MCNext]_MCVars /\ MCFairness
=============================================================================
