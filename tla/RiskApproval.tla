----------------------------- MODULE RiskApproval -----------------------------
(***************************************************************************)
(* The risk of a workflow's packages, in the Manager: after a              *)
(* decomposition the risk is investigated and stored as a pending          *)
(* classification (decompose/risk-producer.ts,                             *)
(* db/risk-classification.repo.ts), a person is asked (streams/            *)
(* risk-brief.ts) or calls the API (api/risk.route.ts), the approval is an *)
(* event in the outbox, and its consumer writes the risks into the graph   *)
(* (streams/risk-consumer.ts, updateWpRisks of db/task-graph.repo.ts),     *)
(* which later decompositions write too (decomposition-consumer.ts).       *)
(*                                                                         *)
(* A classification is the risk of the project and of the packages that    *)
(* the investigation judged; how it is scored is left out.                 *)
(***************************************************************************)
EXTENDS Integers, Sequences, FiniteSets

CONSTANTS
  Wps,              \* package ids
  Classifications,  \* what investigations come up with
  MaxVersions,      \* bound on classifications
  MaxStored,       \* bound on decompositions after the first
  MaxRiskFaults         \* bound on failing handlers

Risks == {"LOW", "MEDIUM", "HIGH"}

\* wps is the judgement of each package; "none" where there is none.
ASSUME RiskAssumption ==
  /\ Classifications \subseteq [risk : Risks, wps : [Wps -> Risks \cup {"none"}], gate : BOOLEAN]
  /\ MaxVersions \in Nat /\ MaxStored \in Nat /\ MaxRiskFaults \in Nat

VARIABLES
  graph,         \* task_graphs: the risk of each package
  storing,       \* the decomposition consumer: the graph it is going to store
  row,           \* risk_classifications: <<>> or the workflow's classification
  unasked,        \* versions stored by an investigation that has not asked yet
  riskRequest,   \* decision_requests {wf}:risk:{version}
  riskApprovals, \* approving decision.recorded messages: the versions they are about
  riskEvents,    \* risk.approved events in the order of their approvals
  again,         \* ... those whose handler threw, which come again in no order
  approved,      \* ghost: the approvals that were stored, oldest first
  reviewed,      \* ghost: the versions a person said yes to
  written,       \* ghost: what was written last into the graph: "decomposed" or an approval
  stored,        \* decompositions so far
  riskFaults     \* failures so far

asked == <<unasked, riskRequest, riskApprovals, reviewed>>
delivered == <<riskEvents, again>>
riskVars == <<graph, written, storing, row, approved, asked, delivered, stored, riskFaults>>

Versions == 1..MaxVersions
Approvals == [version : Versions, art : Classifications]
Rows == [version : Versions, art : Classifications, status : {"pending", "approved"}]
Fresh == [w \in Wps |-> "MEDIUM"]

RiskTypeOK ==
  /\ graph \in [Wps -> Risks] /\ storing \in {<<>>} \cup {<<g>> : g \in [Wps -> Risks]}
  /\ row = <<>> \/ (Len(row) = 1 /\ row[1] \in Rows)
  /\ unasked \subseteq Versions
  /\ riskRequest \in [Versions -> {"none", "PENDING", "RESOLVED"}]
  /\ riskApprovals \subseteq Versions
  /\ \A i \in DOMAIN riskEvents : riskEvents[i] \in Approvals
  /\ again \subseteq Approvals
  /\ \A i \in DOMAIN approved : approved[i] \in Approvals
  /\ reviewed \subseteq Versions
  /\ written = <<>> \/ written[1] \in Approvals
  /\ stored \in 0..MaxStored /\ riskFaults \in 0..MaxRiskFaults

RiskInit ==
  /\ graph = Fresh /\ storing = <<>>
  /\ row = <<>> /\ unasked = {}
  /\ riskRequest = [v \in Versions |-> "none"] /\ riskApprovals = {}
  /\ riskEvents = <<>> /\ again = {}
  /\ approved = <<>> /\ reviewed = {} /\ written = <<>>
  /\ stored = 0 /\ riskFaults = 0

RiskFails == riskFaults < MaxRiskFaults /\ riskFaults' = riskFaults + 1

-----------------------------------------------------------------------------
(* Classifications.                                                        *)

LastVersion == IF row = <<>> THEN 0 ELSE row[1].version

\* produceRiskClassification: the new one replaces the old one, which loses
\* its approval.
Classify(art) ==
  /\ LastVersion < MaxVersions
  /\ row' = <<[version |-> LastVersion + 1, art |-> art, status |-> "pending"]>>
  /\ unasked' = IF art.gate THEN unasked \cup {LastVersion + 1} ELSE unasked
  /\ UNCHANGED <<graph, written, storing, approved, riskRequest, riskApprovals, reviewed, delivered,
                 stored, riskFaults>>

\* createRequest with buildRiskBrief; a failure is logged.
Ask(v) ==
  /\ v \in unasked /\ unasked' = unasked \ {v}
  /\ \/ /\ riskRequest' = [riskRequest EXCEPT ![v] = IF @ = "none" THEN "PENDING" ELSE @]
        /\ UNCHANGED riskFaults
     \/ RiskFails /\ UNCHANGED riskRequest
  /\ UNCHANGED <<graph, written, storing, row, approved, riskApprovals, reviewed, delivered, stored>>

ApprovableAlways == row # <<>>  \* mutant
\* SELECT ... FOR UPDATE and the check of the status.
Approvable == row # <<>> /\ row[1].status = "pending"

\* RiskClassificationRepo.approve: the workflow's classification, whichever it
\* is; row, event and outbox in one transaction.
ApproveRisk ==
  IF Approvable
  THEN LET approval == [version |-> row[1].version, art |-> row[1].art] IN
         /\ row' = <<[row[1] EXCEPT !.status = "approved"]>>
         /\ riskEvents' = Append(riskEvents, approval)
         /\ approved' = Append(approved, approval)
  ELSE UNCHANGED <<row, approved, riskEvents>>

\* recordDecision: approve or reject; a rejection is routed nowhere.
DecideRisk(v) ==
  /\ riskRequest[v] = "PENDING" /\ riskRequest' = [riskRequest EXCEPT ![v] = "RESOLVED"]
  /\ \/ riskApprovals' = riskApprovals \cup {v} /\ reviewed' = reviewed \cup {v}
     \/ UNCHANGED <<riskApprovals, reviewed>>
  /\ UNCHANGED <<graph, written, storing, row, approved, unasked, delivered, stored, riskFaults>>

\* The decision consumer, which swallows a failure.
RouteRiskDecision(v) ==
  /\ v \in riskApprovals /\ riskApprovals' = riskApprovals \ {v}
  /\ \/ ApproveRisk /\ UNCHANGED riskFaults
     \/ RiskFails /\ UNCHANGED <<row, approved, riskEvents>>
  /\ UNCHANGED <<graph, written, storing, unasked, riskRequest, reviewed, again, stored>>

\* PATCH .../risk-classification/approve
ApproveRiskByApi ==
  /\ Approvable /\ ApproveRisk /\ reviewed' = reviewed \cup {row[1].version}
  /\ UNCHANGED <<graph, written, storing, unasked, riskRequest, riskApprovals, again, stored,
                 riskFaults>>

-----------------------------------------------------------------------------
(* The graph.                                                              *)

JudgedOnly(art, w) == IF art.wps[w] = "none" THEN graph[w] ELSE art.wps[w]  \* mutant
\* COALESCE(risks -> wp.id, fallback)
RiskOf(art, w) == IF art.wps[w] = "none" THEN art.risk ELSE art.wps[w]

\* updateWpRisks, one statement; the version of the event is not looked at.
WriteBack(event) ==
  /\ graph' = [w \in Wps |-> RiskOf(event.art, w)]
  /\ written' = <<event>>

HandleRiskApproved ==
  /\ riskEvents # <<>> /\ riskEvents' = Tail(riskEvents)
  /\ \/ WriteBack(Head(riskEvents)) /\ UNCHANGED <<again, riskFaults>>
     \/ RiskFails /\ again' = again \cup {Head(riskEvents)} /\ UNCHANGED <<graph, written>>
  /\ UNCHANGED <<storing, row, approved, asked, stored>>

\* The reclaim of StreamConsumer: long after the events behind it.
HandleRiskAgain(event) ==
  /\ event \in again /\ again' = again \ {event}
  /\ WriteBack(event)
  /\ UNCHANGED <<storing, row, approved, riskEvents, asked, stored, riskFaults>>

\* mergeWithInflight has read the stored graph: packages under way keep their
\* risk, others come with the default of the schema.
ReadGraph ==
  /\ storing = <<>> /\ stored < MaxStored /\ stored' = stored + 1
  /\ \E kept \in SUBSET Wps :
       storing' = <<[w \in Wps |-> IF w \in kept THEN graph[w] ELSE "MEDIUM"]>>
  /\ UNCHANGED <<graph, written, row, approved, asked, delivered, riskFaults>>

\* upsertGraph replaces the row, risks that were written since included.
StoreGraph ==
  /\ storing # <<>> /\ storing' = <<>>
  /\ graph' = storing[1] /\ written' = <<>>
  /\ UNCHANGED <<row, approved, asked, delivered, stored, riskFaults>>

RiskNext ==
  \/ ApproveRiskByApi \/ HandleRiskApproved \/ ReadGraph \/ StoreGraph
  \/ \E art \in Classifications : Classify(art)
  \/ \E v \in Versions : Ask(v) \/ DecideRisk(v) \/ RouteRiskDecision(v)
  \/ \E event \in again : HandleRiskAgain(event)

RiskSpec == RiskInit /\ [][RiskNext]_riskVars

-----------------------------------------------------------------------------
(* Properties.                                                             *)

\* A version is approved at most once, by whom and on whichever of the two
\* ways, and a risk that is not the default of the schema was approved: what
\* the gate of dispatch.ts and the depth of verification read is never an
\* opinion of the classifier alone.
RiskIsApproved ==
  /\ \A i, j \in DOMAIN approved : approved[i].version = approved[j].version => i = j
  /\ \A w \in Wps :
       graph[w] # "MEDIUM" =>
         \E i \in DOMAIN approved : graph[w] \in {approved[i].art.risk, approved[i].art.wps[w]}

\* When every event is handled and none had to come again, what was written
\* is the approval of the highest version, and it reached every package that
\* no decomposition replaced: one without a judgement of its own has the
\* project's risk, not the one of an earlier version (risk-consumer.ts).
LatestIsApplied ==
  riskEvents = <<>> /\ riskFaults = 0 /\ written # <<>> =>
    /\ \A i \in DOMAIN approved : approved[i].version <= written[1].version
    /\ LET art == written[1].art IN
         \A w \in Wps : graph[w] = IF art.wps[w] = "none" THEN art.risk ELSE art.wps[w]

\* risk-classification.repo.ts: a new classification voids the approval of the
\* old one and needs its own.  What is approved was reviewed in that version.
ApprovedIsReviewed == \A i \in DOMAIN approved : approved[i].version \in reviewed
=============================================================================
