-------------------------- MODULE DegradedDispatch --------------------------
(***************************************************************************)
(* The operational mode of the Manager and what it does to dispatching:    *)
(* the mode FSM (xzawedShared/src/resilience/operational-mode.ts) that the *)
(* ModeController ticks (streams/mode-controller.ts), the SAFE gate and    *)
(* the DEGRADED sign-off of handleDispatch (streams/dispatch.ts), the held *)
(* set and its drain (streams/supervisor.ts) and the sign-off of a person  *)
(* (streams/decision-consumer.ts).  Readiness and leases are the business  *)
(* of TaskDispatch: here every package of a stored graph is ready.         *)
(*                                                                         *)
(* A call of handleDispatch is cut at its awaits.  It reads the mode in    *)
(* the synchronous stretch that acts on it; the mode may change at every   *)
(* await.                                                                  *)
(***************************************************************************)
EXTENDS Integers, FiniteSets

CONSTANTS
  Flows,       \* workflows with a stored graph
  Wps,         \* their work packages
  FlowOf,      \* the workflow of each
  HighRisk,    \* packages with risk HIGH
  Planner,     \* the consumer whose messages end in handleDispatch
  Decider,     \* the consumer of decision.recorded
  Drains,      \* bound: calls of resumeDispatch in flight at a time
  Window,      \* MANAGER_MODE_STABILITY_WINDOW_MS, in units of time
  MaxChanges,  \* bound on changes of the signals
  MaxFaults    \* bound on exceptions inside handleDispatch

ASSUME DegradedAssumption ==
  /\ FlowOf \in [Wps -> Flows]
  /\ HighRisk \subseteq Wps
  /\ Planner # Decider /\ {Planner, Decider} \cap Drains = {}
  /\ Window \in Nat \ {0}
  /\ {MaxChanges, MaxFaults} \subseteq Nat

VARIABLES
  signals,   \* ModeSignals: the active ones among "open" and "tripped"
  mode,      \* ModeController.mode
  due,       \* time left until recoveryEligibleAt, NotWaiting for null
  quiet,     \* history: time since a tick last changed or confirmed the mode
  held,      \* the held set of buildDispatchGate
  pending,   \* pending[d]: workflows the drain d has still to dispatch
  asked,     \* workflows with a message that ends in handleDispatch
  call,      \* call[c]: the call of handleDispatch that c is in
  briefs,    \* packages with a degraded_dispatch request, whatever its status
  answered,  \* packages a person accepted, decision.recorded not yet routed
  signed,    \* packages with a degraded_dispatch sign-off
  recorded,  \* packages dispatched
  changes,
  faults

control == <<signals, mode, due, quiet, changes>>
people == <<briefs, answered, signed>>
vars == <<control, held, pending, asked, call, people, recorded, faults>>

-----------------------------------------------------------------------------
Modes == {"NORMAL", "DEGRADED", "SAFE"}
Severity == [m \in Modes |-> CASE m = "NORMAL" -> 0 [] m = "DEGRADED" -> 1 [] OTHER -> 2]
Callers == {Planner, Decider} \cup Drains
NotWaiting == -1
NoWp == "none"

\* gate: reading the graph; read: reading the states; items: in the loop;
\* ask, hold, record: at that await for the package wp.
Idle == [at |-> "idle", flow |-> NoWp, plan |-> {}, wp |-> NoWp]
Calling(f) == [at |-> "gate", flow |-> f, plan |-> {}, wp |-> NoWp]

\* desiredMode
Desired(s) == IF "tripped" \in s THEN "SAFE" ELSE IF "open" \in s THEN "DEGRADED" ELSE "NORMAL"
StepDown(m) == IF m = "SAFE" THEN "DEGRADED" ELSE "NORMAL"

TypeOK ==
  /\ signals \subseteq {"open", "tripped"}
  /\ mode \in Modes
  /\ due \in {NotWaiting} \cup 0..Window /\ quiet \in 0..Window
  /\ held \subseteq Flows /\ asked \subseteq Flows
  /\ pending \in [Drains -> SUBSET Flows]
  /\ \A c \in Callers :
       /\ call[c].at \in {"idle", "gate", "read", "items", "ask", "hold", "record"}
       /\ call[c].flow \in Flows \cup {NoWp}
       /\ call[c].plan \subseteq {w \in Wps : FlowOf[w] = call[c].flow}
       /\ call[c].wp \in call[c].plan \cup {NoWp}
  /\ briefs \subseteq HighRisk /\ answered \subseteq briefs /\ signed \subseteq briefs
  /\ recorded \subseteq Wps
  /\ changes \in 0..MaxChanges /\ faults \in 0..MaxFaults

Init ==
  /\ signals = {} /\ mode = "NORMAL" /\ due = NotWaiting /\ quiet = 0
  /\ held = {} /\ pending = [d \in Drains |-> {}] /\ asked = Flows
  /\ call = [c \in Callers |-> Idle]
  /\ briefs = {} /\ answered = {} /\ signed = {} /\ recorded = {}
  /\ changes = 0 /\ faults = 0

-----------------------------------------------------------------------------
(* The mode. *)

\* A circuit opens or closes, the daily budget trips or a new day begins.
SignalChanges ==
  /\ changes < MaxChanges /\ changes' = changes + 1
  /\ signals' \in SUBSET {"open", "tripped"} \ {signals}
  /\ UNCHANGED <<mode, due, quiet, held, pending, asked, call, people, recorded, faults>>

TimePasses ==
  /\ due > 0 \/ quiet < Window
  /\ due' = IF due > 0 THEN due - 1 ELSE due
  /\ quiet' = IF quiet < Window THEN quiet + 1 ELSE quiet
  /\ UNCHANGED <<signals, mode, changes, held, pending, asked, call, people, recorded, faults>>

\* onRecover, whenever the mode leaves SAFE: the held set is emptied into a
\* drain before its first await.
ResumeLosesHeld(from, to) ==                                           \* mutant
  UNCHANGED pending /\ held' = IF from = "SAFE" THEN {} ELSE held
Resume(from, to) ==
  IF from = "SAFE" /\ held # {}
  THEN \E d \in Drains :
         /\ pending[d] = {} /\ call[d] = Idle
         /\ pending' = [pending EXCEPT ![d] = held]
         /\ held' = {}
  ELSE UNCHANGED <<held, pending>>

Worsen(desired) ==
  /\ Severity[desired] > Severity[mode]
  /\ mode' = desired /\ due' = NotWaiting /\ quiet' = 0
  /\ UNCHANGED <<held, pending>>

StayKeepsTimer(desired) ==                                             \* mutant
  /\ desired = mode
  /\ quiet' = 0
  /\ UNCHANGED <<due, mode, held, pending>>
Stay(desired) ==
  /\ desired = mode
  /\ due' = NotWaiting /\ quiet' = 0
  /\ UNCHANGED <<mode, held, pending>>

AwaitCalmRestarts(desired) ==                                          \* mutant
  /\ Severity[desired] < Severity[mode] /\ due # 0
  /\ due' = Window
  /\ UNCHANGED <<mode, quiet, held, pending>>
AwaitCalm(desired) ==
  /\ Severity[desired] < Severity[mode] /\ due # 0
  /\ due' = IF due = NotWaiting THEN Window ELSE due
  /\ UNCHANGED <<mode, quiet, held, pending>>

Recover(desired) ==
  /\ Severity[desired] < Severity[mode] /\ due = 0
  /\ mode' = StepDown(mode) /\ quiet' = 0
  /\ due' = IF Severity[StepDown(mode)] > Severity[desired] THEN Window ELSE NotWaiting
  /\ Resume(mode, StepDown(mode))

\* ModeController.tick: nextMode, then onRecover.
Tick ==
  /\ \E desired \in {Desired(signals)} :
       Worsen(desired) \/ Stay(desired) \/ AwaitCalm(desired) \/ Recover(desired)
  /\ UNCHANGED <<signals, changes, asked, call, people, recorded, faults>>

-----------------------------------------------------------------------------
(* handleDispatch. *)

\* A consumer takes a message whose handling ends in handleDispatch.
TakeMessage ==
  \E f \in asked :
    /\ call[Planner] = Idle
    /\ asked' = asked \ {f}
    /\ call' = [call EXCEPT ![Planner] = Calling(f)]
    /\ UNCHANGED <<control, held, pending, people, recorded, faults>>

\* drainHeld, its next workflow.
DrainNext(d) ==
  \E f \in pending[d] :
    /\ call[d] = Idle
    /\ pending' = [pending EXCEPT ![d] = @ \ {f}]
    /\ call' = [call EXCEPT ![d] = Calling(f)]
    /\ UNCHANGED <<control, held, asked, people, recorded, faults>>

\* accept_known on a degraded_dispatch request: recordSignOff, then redispatch.
RouteSignOff ==
  \E w \in answered :
    /\ call[Decider] = Idle
    /\ answered' = answered \ {w} /\ signed' = signed \cup {w}
    /\ call' = [call EXCEPT ![Decider] = Calling(FlowOf[w])]
    /\ UNCHANGED <<control, held, pending, asked, briefs, recorded, faults>>

\* getGraph has answered: a SAFE mode parks the workflow.
PassGate(c) ==
  /\ call[c].at = "gate" /\ mode # "SAFE"
  /\ call' = [call EXCEPT ![c].at = "read"]
  /\ UNCHANGED <<control, held, pending, asked, people, recorded, faults>>

Park(c) ==
  /\ call[c].at = "gate" /\ mode = "SAFE"
  /\ held' = held \cup {call[c].flow}
  /\ call' = [call EXCEPT ![c] = Idle]
  /\ UNCHANGED <<control, pending, asked, people, recorded, faults>>

\* latestStates has answered: the plan.
PlanItems(c) ==
  /\ call[c].at = "read"
  /\ call' = [call EXCEPT ![c].at = "items",
                          ![c].plan = {w \in Wps \ recorded : FlowOf[w] = call[c].flow}]
  /\ UNCHANGED <<control, held, pending, asked, people, recorded, faults>>

\* The head of the loop: only DEGRADED asks for a sign-off.
NeedsSignOff(w) == mode = "DEGRADED" /\ w \in HighRisk

TakeItem(c) ==
  \E w \in call[c].plan :
    /\ call[c].at = "items"
    /\ call' = [call EXCEPT ![c].at = IF NeedsSignOff(w) THEN "ask" ELSE "record",
                            ![c].wp = w]
    /\ UNCHANGED <<control, held, pending, asked, people, recorded, faults>>

\* isHighRiskDispatchApproved has answered.
AskSignOff(c) ==
  /\ call[c].at = "ask"
  /\ call' = [call EXCEPT ![c].at = IF call[c].wp \in signed THEN "record" ELSE "hold"]
  /\ UNCHANGED <<control, held, pending, asked, people, recorded, faults>>

DropItem(c) == [call EXCEPT ![c].at = "items", ![c].plan = @ \ {call[c].wp}, ![c].wp = NoWp]

\* onDegradedHighRisk: a request whose id is the package's, created once ever.
HoldItem(c) ==
  /\ call[c].at = "hold"
  /\ briefs' = briefs \cup {call[c].wp}
  /\ call' = DropItem(c)
  /\ UNCHANGED <<control, held, pending, asked, answered, signed, recorded, faults>>

\* recordDispatch; a package already dispatched is left alone.
RecordItem(c) ==
  /\ call[c].at = "record"
  /\ recorded' = recorded \cup {call[c].wp}
  /\ call' = DropItem(c)
  /\ UNCHANGED <<control, held, pending, asked, people, faults>>

Return(c) ==
  /\ call[c].at = "items" /\ call[c].plan = {}
  /\ call' = [call EXCEPT ![c] = Idle]
  /\ UNCHANGED <<control, held, pending, asked, people, recorded, faults>>

\* An await throws.  BaseConsumer runs the message of the Planner again; the
\* Decider and a drain log the error and go on.
CallFails(c) ==
  /\ call[c] # Idle
  /\ faults < MaxFaults /\ faults' = faults + 1
  /\ asked' = IF c = Planner THEN asked \cup {call[c].flow} ELSE asked
  /\ call' = [call EXCEPT ![c] = Idle]
  /\ UNCHANGED <<control, held, pending, people, recorded>>

\* A person accepts a pending request.  (A rejected or expired one stays as
\* it is: nothing below depends on it again.)
Accept ==
  \E w \in briefs \ (answered \cup signed) :
    /\ answered' = answered \cup {w}
    /\ UNCHANGED <<control, held, pending, asked, call, briefs, signed, recorded, faults>>

CallStep(c) ==
  \/ PassGate(c) \/ Park(c)
  \/ PlanItems(c) \/ TakeItem(c) \/ AskSignOff(c) \/ HoldItem(c) \/ RecordItem(c)
  \/ Return(c)

ConsumerStep ==
  \/ TakeMessage \/ RouteSignOff
  \/ \E d \in Drains : DrainNext(d)
  \/ \E c \in Callers : CallStep(c)

Next ==
  \/ SignalChanges \/ TimePasses \/ Tick
  \/ ConsumerStep
  \/ \E c \in Callers : CallFails(c)
  \/ Accept

Spec == Init /\ [][Next]_vars

\* The timer of the sweeper fires, time passes, and every await is answered;
\* a person need not answer, and the signals need not change.
Fairness ==
  /\ WF_vars(Tick) /\ WF_vars(TimePasses)
  /\ WF_vars(TakeMessage) /\ WF_vars(RouteSignOff)
  /\ \A d \in Drains : WF_vars(DrainNext(d))
  /\ \A c \in Callers : WF_vars(CallStep(c))

FairSpec == Spec /\ Fairness

-----------------------------------------------------------------------------
\* A workflow is parked only while the mode is SAFE: whichever calls of
\* handleDispatch and drains overlap, nothing is left in the held set after
\* the transition that empties it (supervisor.ts buildDispatchGate).
HeldOnlyInSafe == held # {} => mode = "SAFE"

\* The mode improves one step at a time, and only after a whole window in
\* which no tick confirmed or worsened it, so that flapping signals cannot
\* shorten the wait (operational-mode.ts nextMode).
ImprovesAfterWindow ==
  [][Severity[mode'] < Severity[mode]
       => quiet = Window /\ Severity[mode'] = Severity[mode] - 1]_vars

Calm == signals = {}
LowRiskDone(f) == \A w \in Wps \ HighRisk : FlowOf[w] = f => w \in recorded

\* Once the signals stay calm the mode returns to NORMAL for good.
ModeRecovers == <>[]Calm => <>[](mode = "NORMAL")

\* Once the signals stay calm, a parked workflow is dispatched, its high-risk
\* packages apart, unless a call throws (dispatch.ts: "resumeDispatch
\* redispatches the workflows recorded with onHeld").
HeldIsDispatched ==
  <>[]Calm => \A f \in Flows : (f \in held) ~> LowRiskDone(f) \/ faults > 0
=============================================================================
