---------------------------- MODULE OracleApproval ----------------------------
(***************************************************************************)
(* The oracles of a workflow and the people who approve them, in the       *)
(* Manager: decompositions draft an oracle for each story and ask a person *)
(* (streams/decomposition-consumer.ts, oracle-brief.ts), the API seeds and *)
(* approves them one by one (api/oracle.route.ts), the answers of people   *)
(* approve what is pending and freeze goldens (decision-consumer.ts,       *)
(* golden-brief.ts, db/oracle.repo.ts), and each approval dispatches what  *)
(* has become ready (oracle-consumer.ts, dispatch.ts).                     *)
(*                                                                         *)
(* A story has one package and one oracle, whose id derives from the       *)
(* story.  Of its scenarios the model keeps which acceptance criteria they *)
(* cover, of its goldens whether there is one and whether it is frozen.    *)
(* What the packages depend on is in TaskDispatch, the merge with packages *)
(* under way in Redecompose.                                               *)
(***************************************************************************)
EXTENDS Integers, FiniteSets

CONSTANTS
  Stories,     \* story ids
  Criteria,    \* acceptance criteria
  Incoming,    \* graphs that decompositions emit: the criteria of each package
  Seeds,       \* what the oracles written by the API cover
  MaxEmitted,  \* bound on decompositions
  MaxSeeds,    \* bound on oracles written by the API
  MaxOracleFaults    \* bound on crashes and failing queries

Graphs == UNION {[set -> SUBSET Criteria \ {{}}] : set \in SUBSET Stories}

ASSUME OracleAssumption ==
  /\ Incoming \subseteq Graphs /\ Seeds \subseteq SUBSET Criteria
  /\ MaxEmitted \in Nat /\ MaxSeeds \in Nat /\ MaxOracleFaults \in Nat

VARIABLES
  packages,    \* task_graphs: the acceptance criteria of each package it has
  dispatched,  \* stories whose package was dispatched
  oracles,     \* oracles: one row per story
  request,     \* decision_requests {wf}:oracle and {wf}:golden
  approvals,   \* approving decision.recorded messages not yet consumed
  deciding,    \* the decision consumer: the rows its handler has still to write
  persisting,  \* the decomposition consumer: its message and where it stands
  events,      \* oracle.approved events not yet consumed
  plan,        \* handleDispatch of each consumer: what it is going to dispatch
  signedOff,   \* ghost: a person approved goldens
  budget       \* decompositions, seeds and faults so far

oracleVars == <<packages, dispatched, oracles, request, approvals, deciding, persisting, events,
                plan, signedOff, budget>>

Kinds == {"oracle", "golden"}
Consumers == {"decomposition", "approved"}
Oracles == [status : {"none", "pending", "approved"}, covers : SUBSET Criteria,
            golden : {"none", "draft", "frozen"}]
Idle == [pc |-> "idle"]

OracleTypeOK ==
  /\ packages \in Graphs /\ dispatched \subseteq Stories
  /\ oracles \in [Stories -> Oracles]
  /\ request \in [Kinds -> {"none", "PENDING", "RESOLVED"}] /\ approvals \subseteq Kinds
  /\ deciding \in [pc : {"approve", "freeze"}, left : SUBSET Stories] \cup {Idle}
  /\ persisting \in [pc : {"graph", "ask", "dispatch", "dispatching"}, graph : Graphs]
       \cup [pc : {"draft"}, graph : Graphs, left : SUBSET Stories] \cup {Idle}
  /\ events \subseteq Stories
  /\ plan \in [Consumers -> SUBSET Stories]
  /\ signedOff \in BOOLEAN
  /\ budget \in [emitted : 0..MaxEmitted, seeds : 0..MaxSeeds, faults : 0..MaxOracleFaults]

OracleInit ==
  /\ packages = [s \in {} |-> {}] /\ dispatched = {}
  /\ oracles = [s \in Stories |-> [status |-> "none", covers |-> {}, golden |-> "none"]]
  /\ request = [k \in Kinds |-> "none"] /\ approvals = {}
  /\ deciding = Idle /\ persisting = Idle
  /\ events = {} /\ plan = [c \in Consumers |-> {}]
  /\ signedOff = FALSE
  /\ budget = [emitted |-> 0, seeds |-> 0, faults |-> 0]

OneFails == budget.faults < MaxOracleFaults /\ budget' = [budget EXCEPT !.faults = @ + 1]

\* createRequest: the id is the workflow's, a known one is left alone.
AskOnce(k) == request' = [request EXCEPT ![k] = IF @ = "none" THEN "PENDING" ELSE @]

-----------------------------------------------------------------------------
(* handleDispatch.                                                         *)

\* oracleSatisfiedSet: approved, and every criterion of the package covered.
Satisfied(s) == oracles[s].status = "approved" /\ packages[s] \subseteq oracles[s].covers

ReadyNow == {s \in DOMAIN packages \ dispatched : Satisfied(s)}

\* recordDispatch; the package may have been dispatched by the other consumer.
Dispatch(c) ==
  /\ plan[c] # {}
  /\ \E s \in plan[c] : dispatched' = dispatched \cup {s} /\ plan' = [plan EXCEPT ![c] = @ \ {s}]
  /\ persisting' = IF c = "decomposition" /\ plan'[c] = {} THEN Idle ELSE persisting
  /\ UNCHANGED <<packages, oracles, request, approvals, deciding, events, signedOff, budget>>

\* The oracle consumer takes an event when its last dispatch is through.
HandleApproved(s) ==
  /\ plan["approved"] = {} /\ s \in events
  /\ events' = events \ {s}
  /\ plan' = [plan EXCEPT !["approved"] = ReadyNow]
  /\ UNCHANGED <<packages, dispatched, oracles, request, approvals, deciding, persisting,
                 signedOff, budget>>

\* A query of the oracle consumer fails, and its handler is tried again.
HandlingFails ==
  /\ plan["approved"] # {} /\ OneFails
  /\ plan' = [plan EXCEPT !["approved"] = ReadyNow]
  /\ UNCHANGED <<packages, dispatched, oracles, request, approvals, deciding, persisting, events,
                 signedOff>>

-----------------------------------------------------------------------------
(* A decomposition is persisted, its oracles drafted and asked about.      *)

Emitted ==
  /\ persisting = Idle /\ budget.emitted < MaxEmitted
  /\ \E g \in Incoming : persisting' = [pc |-> "graph", graph |-> g]
  /\ budget' = [budget EXCEPT !.emitted = @ + 1]
  /\ UNCHANGED <<packages, dispatched, oracles, request, approvals, deciding, events, plan,
                 signedOff>>

\* upsertGraph; packages under way keep what they were.
UpsertGraph ==
  /\ persisting.pc = "graph"
  /\ LET kept == dispatched \cap DOMAIN packages IN
       packages' = [s \in DOMAIN persisting.graph \cup kept |->
                      IF s \in kept THEN packages[s] ELSE persisting.graph[s]]
  /\ persisting' = [pc |-> "draft", graph |-> persisting.graph, left |-> DOMAIN persisting.graph]
  /\ UNCHANGED <<dispatched, oracles, request, approvals, deciding, events, plan, signedOff, budget>>

\* ON CONFLICT ... WHERE oracles.status = 'pending'
Drafts(s) == oracles[s].status \in {"none", "pending"}

\* upsertDraft; a draft covers the criteria of its story and is pending.
UpsertDraft(s) ==
  /\ persisting.pc = "draft" /\ s \in persisting.left
  /\ oracles' = IF Drafts(s)
                THEN [oracles EXCEPT ![s].status = "pending", ![s].covers = persisting.graph[s]]
                ELSE oracles
  /\ persisting' = IF persisting.left = {s} THEN [pc |-> "ask", graph |-> persisting.graph]
                                            ELSE [persisting EXCEPT !.left = @ \ {s}]
  /\ UNCHANGED <<packages, dispatched, request, approvals, deciding, events, plan, signedOff, budget>>

\* buildOracleBrief and createRequest; a failure is logged.
AskOracles ==
  /\ persisting.pc = "ask"
  /\ \/ AskOnce("oracle") /\ UNCHANGED budget
     \/ OneFails /\ UNCHANGED request
  /\ persisting' = [persisting EXCEPT !.pc = "dispatch"]
  /\ UNCHANGED <<packages, dispatched, oracles, approvals, deciding, events, plan, signedOff>>

\* afterPersisted
PlanDecomposed ==
  /\ persisting.pc = "dispatch"
  /\ persisting' = IF ReadyNow = {} THEN Idle ELSE [persisting EXCEPT !.pc = "dispatching"]
  /\ plan' = [plan EXCEPT !["decomposition"] = ReadyNow]
  /\ UNCHANGED <<packages, dispatched, oracles, request, approvals, deciding, events, signedOff,
                 budget>>

\* The handler throws or the Manager dies: the message is handled again.
PersistFails ==
  /\ persisting.pc \in {"draft", "ask", "dispatch", "dispatching"} /\ OneFails
  /\ persisting' = [pc |-> "graph", graph |-> persisting.graph]
  /\ plan' = [plan EXCEPT !["decomposition"] = {}]
  /\ UNCHANGED <<packages, dispatched, oracles, request, approvals, deciding, events, signedOff>>

-----------------------------------------------------------------------------
(* The API.                                                                *)

\* POST forces frozenBy = null on every golden.
Seeded(golden) == IF golden = "frozen" THEN "draft" ELSE golden

\* POST /workflows/:id/oracles replaces the row, whatever its status.
Seed(s, covers, golden) ==
  /\ budget.seeds < MaxSeeds /\ budget' = [budget EXCEPT !.seeds = @ + 1]
  /\ oracles' = [oracles EXCEPT ![s] = [status |-> "pending", covers |-> covers,
                                        golden |-> Seeded(golden)]]
  /\ UNCHANGED <<packages, dispatched, request, approvals, deciding, persisting, events, plan,
                 signedOff>>

\* manager_outbox, in the transaction of the approval.
EventOf(s) == events \cup {s}

\* OracleRepo.approve
Approve(s) ==
  IF oracles[s].status = "pending"
  THEN oracles' = [oracles EXCEPT ![s].status = "approved"] /\ events' = EventOf(s)
  ELSE UNCHANGED <<oracles, events>>

\* PATCH /oracles/:id/approve; an approved or unknown one is a 404.
ApproveOne(s) ==
  /\ oracles[s].status = "pending" /\ Approve(s)
  /\ UNCHANGED <<packages, dispatched, request, approvals, deciding, persisting, plan, signedOff,
                 budget>>

-----------------------------------------------------------------------------
(* The answers of people.                                                  *)

\* maybeRequestGoldenSignoff, after a develop_code package.
AskGoldens ==
  /\ dispatched # {}
  /\ \E s \in Stories : oracles[s].status = "approved" /\ oracles[s].golden = "draft"
  /\ request["golden"] = "none" /\ AskOnce("golden")
  /\ UNCHANGED <<packages, dispatched, oracles, approvals, deciding, persisting, events, plan,
                 signedOff, budget>>

\* recordDecision; a rejection is routed nowhere.
Decide(k) ==
  /\ request[k] = "PENDING" /\ request' = [request EXCEPT ![k] = "RESOLVED"]
  /\ \/ approvals' = approvals \cup {k} /\ signedOff' = (signedOff \/ k = "golden")
     \/ UNCHANGED <<approvals, signedOff>>
  /\ UNCHANGED <<packages, dispatched, oracles, deciding, persisting, events, plan, budget>>

\* approvePendingByWorkflow and freezeGoldensByWorkflow list their rows first.
RouteDecision(k) ==
  /\ deciding = Idle /\ k \in approvals /\ approvals' = approvals \ {k}
  /\ LET rows == IF k = "oracle" THEN {s \in Stories : oracles[s].status = "pending"}
                 ELSE {s \in Stories : oracles[s].status = "approved" /\ oracles[s].golden = "draft"}
     IN  deciding' = IF rows = {} THEN Idle
                     ELSE [pc |-> IF k = "oracle" THEN "approve" ELSE "freeze", left |-> rows]
  /\ UNCHANGED <<packages, dispatched, oracles, request, persisting, events, plan, signedOff, budget>>

RowDone(s) == deciding' = IF deciding.left = {s} THEN Idle ELSE [deciding EXCEPT !.left = @ \ {s}]

ApproveRow(s) ==
  /\ deciding.pc = "approve" /\ s \in deciding.left /\ RowDone(s) /\ Approve(s)
  /\ UNCHANGED <<packages, dispatched, request, approvals, persisting, plan, signedOff, budget>>

\* The UPDATE looks at the id alone: it writes the goldens that were read.
FreezeRow(s) ==
  /\ deciding.pc = "freeze" /\ s \in deciding.left /\ RowDone(s)
  /\ oracles' = [oracles EXCEPT ![s].golden = "frozen"]
  /\ UNCHANGED <<packages, dispatched, request, approvals, persisting, events, plan, signedOff, budget>>

\* The handler swallows what goes wrong; the decision stays RESOLVED.
DecisionFails ==
  /\ deciding # Idle /\ OneFails /\ deciding' = Idle
  /\ UNCHANGED <<packages, dispatched, oracles, request, approvals, persisting, events, plan, signedOff>>

OracleNext ==
  \/ Emitted \/ UpsertGraph \/ AskOracles \/ PlanDecomposed \/ PersistFails
  \/ AskGoldens \/ DecisionFails \/ HandlingFails
  \/ \E s \in Stories :
       \/ UpsertDraft(s) \/ HandleApproved(s) \/ ApproveOne(s) \/ ApproveRow(s) \/ FreezeRow(s)
       \/ \E covers \in Seeds, golden \in {"none", "draft", "frozen"} :
            Seed(s, covers, golden)
  \/ \E k \in Kinds : Decide(k) \/ RouteDecision(k)
  \/ \E c \in Consumers : Dispatch(c)

\* The two consumers go on with what they have; nobody has to decompose, seed,
\* ask, decide or approve.
Persist ==
  UpsertGraph \/ AskOracles \/ PlanDecomposed \/ \E s \in Stories : UpsertDraft(s)
OracleFairness ==
  /\ WF_oracleVars(Persist) /\ WF_oracleVars(\E s \in Stories : HandleApproved(s))
  /\ \A c \in Consumers : WF_oracleVars(Dispatch(c))

OracleSpec == OracleInit /\ [][OracleNext]_oracleVars /\ OracleFairness

-----------------------------------------------------------------------------
(* Properties.                                                             *)


\* A package that is ready is on its way: some consumer is going to dispatch it,
\* or has still an event or a decomposition to handle, and will plan again
\* (oracle-consumer.ts, decomposition-consumer.ts).
ReadyIsOnItsWay ==
  \A s \in ReadyNow :
    \/ events # {} \/ persisting.pc \in {"graph", "draft", "ask", "dispatch"}
    \/ \E c \in Consumers : s \in plan[c]

\* A frozen golden implies that a person signed goldens off, in whatever order
\* seeds, approvals and freezes come (api/oracle.route.ts, "N7").
FrozenIsSignedOff == (\E s \in Stories : oracles[s].golden = "frozen") => signedOff
=============================================================================
