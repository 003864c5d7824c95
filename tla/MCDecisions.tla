------------------------------ MODULE MCDecisions ------------------------------
(***************************************************************************)
(* What people decide on, explored one at a time: the release of a gate    *)
(* (ReleaseDecisions), the oracles of packages (OracleApproval) and their  *)
(* risks (RiskApproval).  They share no state here; focus says whose turn  *)
(* it is.                                                                  *)
(***************************************************************************)
EXTENDS ReleaseDecisions, OracleApproval, RiskApproval, TLC

CONSTANTS s1, s2, k1, k2, w1, w2

VARIABLE focus

\* Both stories with one criterion each, and a later idea of them: a criterion
\* more for the first, the second dropped.
MCIncoming == {(s1 :> {k1}) @@ (s2 :> {k1}), (s1 :> {k1, k2})}

\* A project at high risk with one package judged low, a low one judged high,
\* and a medium one without a judgement or a question.
MCClassifications ==
  {[risk |-> "HIGH", wps |-> (w1 :> "LOW") @@ (w2 :> "none"), gate |-> TRUE],
   [risk |-> "LOW", wps |-> (w1 :> "none") @@ (w2 :> "HIGH"), gate |-> TRUE],
   [risk |-> "MEDIUM", wps |-> (w1 :> "none") @@ (w2 :> "none"), gate |-> FALSE]}

MCVars == <<focus, releaseVars, oracleVars, riskVars>>
MCInit ==
  /\ focus \in {"release", "oracle", "risk"}
  /\ ReleaseInit /\ OracleInit /\ RiskInit

ReleaseStep ==
  focus = "release" /\ ReleaseNext /\ UNCHANGED <<focus, oracleVars, riskVars>>
\* GoldensBound: goldens are written when no decomposition is under way or to come.
GoldensBound == (\E s \in Stories : oracles[s].golden # "none") => persisting = Idle
OracleStep ==
  focus = "oracle" /\ OracleNext /\ GoldensBound' /\ UNCHANGED <<focus, releaseVars, riskVars>>
RiskStep == focus = "risk" /\ RiskNext /\ UNCHANGED <<focus, releaseVars, oracleVars>>
MCNext == ReleaseStep \/ OracleStep \/ RiskStep

\* ReleaseFairness and OracleFairness, for the one in focus.
On(component, A) == focus = component /\ A
MCFairness ==
  /\ WF_releaseVars(On("release", Relay)) /\ WF_releaseVars(On("release", SweepReads))
  /\ WF_releaseVars(On("release", \E event \in inbox : Handle(event)))
  /\ \A r \in Requests :
       /\ WF_releaseVars(On("release", BecomesDue(r)))
       /\ WF_releaseVars(On("release", ExpireRequest(r)))
  /\ WF_oracleVars(On("oracle", Persist))
  /\ WF_oracleVars(On("oracle", \E s \in Stories : HandleApproved(s)))
  /\ \A c \in Consumers : WF_oracleVars(On("oracle", Dispatch(c)))
MCSpec == MCInit /\ [][MCNext]_MCVars /\ MCFairness
=============================================================================
