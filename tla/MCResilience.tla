----------------------------- MODULE MCResilience -----------------------------
(***************************************************************************)
(* What the Manager does when things get worse, explored one at a time:    *)
(* the operational mode (DegradedDispatch), the circuits of its calls      *)
(* (CallGuards) and the bulkhead (Bulkhead).  They share no state here;    *)
(* focus says whose turn it is.                                            *)
(***************************************************************************)
EXTENDS DegradedDispatch, CallGuards, Bulkhead, TLC

CONSTANTS f, high, low, planner, decider, d1, d2, r1, r2, s1, u1, u2, u3, u4, w1, w2

VARIABLE focus

OneFlow == [w \in {high, low} |-> f]
MCWorkflowOf == (r1 :> w1) @@ (s1 :> w1) @@ (r2 :> w2)

MCVars == <<focus, vars, guardVars, bulkheadVars>>
MCInit == focus \in {"mode", "guards", "bulkhead"} /\ Init /\ GuardsInit /\ BulkheadInit
ModeStep == focus = "mode" /\ Next /\ UNCHANGED <<focus, guardVars, bulkheadVars>>
GuardsStep == focus = "guards" /\ GuardsNext /\ UNCHANGED <<focus, vars, bulkheadVars>>
BulkheadStep == focus = "bulkhead" /\ BulkheadNext /\ UNCHANGED <<focus, vars, guardVars>>
MCNext == ModeStep \/ GuardsStep \/ BulkheadStep

\* Fairness, DrainNext and the rest as the modules state them, for the one in
\* focus.
On(component, A) == focus = component /\ A
MCFairness ==
  /\ WF_vars(On("mode", Tick)) /\ WF_vars(On("mode", TimePasses))
  /\ WF_vars(On("mode", TakeMessage)) /\ WF_vars(On("mode", RouteSignOff))
  /\ \A d \in Drains : WF_vars(On("mode", DrainNext(d)))
  /\ \A c \in Callers : WF_vars(On("mode", CallStep(c)))
MCSpec == MCInit /\ [][MCNext]_MCVars /\ MCFairness
=============================================================================
