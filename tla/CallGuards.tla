------------------------------ MODULE CallGuards ------------------------------
(***************************************************************************)
(* The two circuits in front of every call of Claude: the budget           *)
(* (xzawedShared/src/budget/budget-circuit.ts) and the provider            *)
(* (resilience/provider-circuit.ts).  One pair is shared by the runs of    *)
(* all sessions (claude/runner.ts) and by the stages of the decomposition  *)
(* (decompose/stages/run-stage.ts), which ask them in opposite orders.     *)
(* Between the two checks nothing is awaited; the call itself is, and its  *)
(* cost is charged when it returns.  A call that times out is not charged. *)
(***************************************************************************)
EXTENDS Integers, FiniteSetsExt

CONSTANTS
  Runs,            \* the runs of sessions
  Stages,          \* the stages of decompositions
  WorkflowOf,      \* the workflow whose budget a caller draws on
  PerWorkflow,     \* MANAGER_BUDGET_PER_WORKFLOW_USD, in units
  Daily,           \* MANAGER_BUDGET_DAILY_USD, in units
  MaxCost,         \* bound on the cost of one call
  FailureThreshold, Cooldown,
  MaxDays          \* bound on the days

Clients == Runs \cup Stages

ASSUME CallGuardsAssumption ==
  /\ Runs \cap Stages = {} /\ IsFiniteSet(Clients)
  /\ {PerWorkflow, Daily, MaxCost, FailureThreshold, Cooldown} \subseteq Nat \ {0}
  /\ MaxDays \in Nat

Workflows == {WorkflowOf[c] : c \in Clients}

VARIABLES
  clients,     \* clients[c]: idle or calling
  state, consecutiveFailures,
  sinceOpen,   \* time since openedAt, up to the cool-down
  workflowSpend,
  dayKey, daySpend,
  day,         \* the day of the clock
  streak,      \* failures since the last success, up to the threshold
  charged      \* charged[d]: the costs recorded on day d

circuit == <<state, consecutiveFailures, sinceOpen>>
budget == <<workflowSpend, dayKey, daySpend>>
guardVars == <<clients, circuit, budget, day, streak, charged>>

CapW == PerWorkflow + Cardinality(Clients) * MaxCost
CapD == Daily + Cardinality(Clients) * MaxCost

GuardsTypeOK ==
  /\ clients \in [Clients -> {"idle", "calling"}]
  /\ state \in {"closed", "open", "half_open"}
  /\ consecutiveFailures \in 0..FailureThreshold - 1
  /\ sinceOpen \in 0..Cooldown
  /\ workflowSpend \in [Workflows -> 0..CapW]
  /\ day \in 0..MaxDays /\ dayKey \in 0..day
  /\ daySpend \in 0..CapD
  /\ streak \in 0..FailureThreshold
  /\ charged \in [0..MaxDays -> 0..CapD]

GuardsInit ==
  /\ clients = [c \in Clients |-> "idle"]
  /\ state = "closed" /\ consecutiveFailures = 0 /\ sinceOpen = 0
  /\ workflowSpend = [w \in Workflows |-> 0]
  /\ day = 0 /\ dayKey = 0 /\ daySpend = 0
  /\ streak = 0 /\ charged = [d \in 0..MaxDays |-> 0]

-----------------------------------------------------------------------------
(* The budget circuit.                                                     *)

\* rolloverIfNeeded: what was spent today, as the next access will see it.
SpentToday == IF day = dayKey THEN daySpend ELSE 0

Rollover == dayKey' = day /\ daySpend' = SpentToday

Exhausted(w) == workflowSpend[w] >= PerWorkflow \/ SpentToday >= Daily

Record(w, cost) ==
  /\ dayKey' = day /\ daySpend' = SpentToday + cost
  /\ workflowSpend' = [workflowSpend EXCEPT ![w] = @ + cost]
  /\ charged' = [charged EXCEPT ![day] = @ + cost]

-----------------------------------------------------------------------------
(* The provider circuit.                                                   *)

CircuitPasses == state # "open" \/ sinceOpen >= Cooldown

\* before, when it lets the caller through.
Probe ==
  /\ state' = IF state = "open" THEN "half_open" ELSE state
  /\ UNCHANGED <<consecutiveFailures, sinceOpen>>

OnSuccessKeepsCount ==  \* mutant
  /\ state' = "closed" /\ UNCHANGED consecutiveFailures
  /\ streak' = 0 /\ UNCHANGED sinceOpen

OnSuccess ==
  /\ state' = "closed" /\ consecutiveFailures' = 0
  /\ streak' = 0 /\ UNCHANGED sinceOpen

Open == state' = "open" /\ sinceOpen' = 0 /\ consecutiveFailures' = 0

OnFailure ==
  /\ streak' = IF streak < FailureThreshold THEN streak + 1 ELSE streak
  /\ IF state = "half_open" \/ consecutiveFailures + 1 >= FailureThreshold
     THEN Open
     ELSE consecutiveFailures' = consecutiveFailures + 1 /\ UNCHANGED <<state, sinceOpen>>

-----------------------------------------------------------------------------
(* The callers.                                                            *)

Goes(c) == clients' = [clients EXCEPT ![c] = "calling"]
Returns(c) == clients[c] = "calling" /\ clients' = [clients EXCEPT ![c] = "idle"]

\* run(): first the budget, then the provider; either refusal ends the run.
BeginRun(c) ==
  /\ clients[c] = "idle"
  /\ Rollover
  /\ IF ~Exhausted(WorkflowOf[c]) /\ CircuitPasses
     THEN Probe /\ Goes(c)
     ELSE UNCHANGED <<circuit, clients>>
  /\ UNCHANGED <<workflowSpend, day, streak, charged>>

\* runStage: first the provider, then the budget; either refusal leads to
\* the fallback.  A probe that the budget refuses leaves half_open behind.
BeginStageUnchecked(c) ==  \* mutant
  /\ clients[c] = "idle" /\ CircuitPasses
  /\ Probe /\ Goes(c)
  /\ UNCHANGED <<budget, day, streak, charged>>

BeginStage(c) ==
  /\ clients[c] = "idle" /\ CircuitPasses
  /\ Probe /\ Rollover
  /\ IF Exhausted(WorkflowOf[c]) THEN UNCHANGED clients ELSE Goes(c)
  /\ UNCHANGED <<workflowSpend, day, streak, charged>>

\* The answer: the circuit closes, its cost is charged.
Answers(c) ==
  /\ Returns(c) /\ OnSuccess
  /\ \E cost \in 1..MaxCost : Record(WorkflowOf[c], cost)
  /\ UNCHANGED day

\* 429, 5xx, the connection, the time-out: a failure of the provider.
ProviderFails(c) ==
  /\ Returns(c) /\ OnFailure
  /\ UNCHANGED <<budget, day, charged>>

\* Any other error, or the abort of a person.
OtherwiseFails(c) ==
  /\ Returns(c)
  /\ UNCHANGED <<circuit, budget, day, streak, charged>>

CooldownPasses ==
  /\ state = "open" /\ sinceOpen < Cooldown
  /\ sinceOpen' = sinceOpen + 1
  /\ UNCHANGED <<clients, state, consecutiveFailures, budget, day, streak, charged>>

NextDay ==
  /\ day < MaxDays /\ day' = day + 1
  /\ UNCHANGED <<clients, circuit, budget, streak, charged>>

GuardsNext ==
  \/ \E c \in Runs : BeginRun(c)
  \/ \E c \in Stages : BeginStage(c)
  \/ \E c \in Clients : Answers(c) \/ ProviderFails(c) \/ OtherwiseFails(c)
  \/ CooldownPasses \/ NextDay

GuardsSpec == GuardsInit /\ [][GuardsNext]_guardVars

-----------------------------------------------------------------------------
InFlight(S) == Cardinality({c \in S : clients[c] = "calling"})
ClientsOf(w) == {c \in Clients : WorkflowOf[c] = w}

(* The check comes before a call and the charge after it, so the cap of a  *)
(* workflow can be overrun, but by no more than one call of each of its    *)
(* callers that were on their way when it was reached                      *)
(* (budget-circuit.ts:6-7).  And what counts against the daily cap is what *)
(* was charged on that day, no matter when the calls began or who noticed  *)
(* that the day had changed.                                               *)
OvershootBounded ==
  /\ \A w \in Workflows :
       workflowSpend[w] + InFlight(ClientsOf(w)) * MaxCost
         <= PerWorkflow - 1 + Cardinality(ClientsOf(w)) * MaxCost
  /\ SpentToday = charged[day] /\ daySpend = charged[dayKey]

(* The circuit opens only after that many failures without a success in    *)
(* between, or when a failure meets the half-open state.                   *)
OpensWithReason ==
  [][state' = "open" /\ state # "open" => state = "half_open" \/ streak' = FailureThreshold]_guardVars
=============================================================================
