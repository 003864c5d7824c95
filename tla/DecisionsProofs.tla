---------------------------- MODULE DecisionsProofs ----------------------------
(***************************************************************************)
(* RiskApproval, ReleaseDecisions and OracleApproval, for every set of     *)
(* packages, stories and classifications and every number of versions,     *)
(* gates, re-escalations, decompositions and failures.                     *)
(*                                                                         *)
(* RiskApproval: the versions of approvals ascend, because an approval     *)
(* leaves its version no longer pending; events are the approvals not yet  *)
(* handled, in their order; and every risk in the graph, or in a graph     *)
(* about to be stored, is the default or came with an approval.            *)
(*                                                                         *)
(* ReleaseDecisions: what an event in the outbox or on its way reports has *)
(* happened and stays so, for a request ends once; so a consumer that is   *)
(* late, or sees an event twice, still acts on the truth.                  *)
(*                                                                         *)
(* OracleApproval: a step writes one row; it keeps what an approved row    *)
(* covers, and a golden freezes when an answer has been given.             *)
(***************************************************************************)
EXTENDS RiskApproval, ReleaseDecisions, OracleApproval, FiniteSetTheorems, TLAPS

-----------------------------------------------------------------------------
(* RiskApproval.                                                           *)

Stored(approval) == \E i \in DOMAIN approved : approved[i] = approval

\* Where a risk of package w may have come from.
Covered(w, risk) ==
  risk # "MEDIUM" =>
    \E i \in DOMAIN approved : risk \in {approved[i].art.risk, approved[i].art.wps[w]}

Types ==
  /\ graph \in [Wps -> Risks]
  /\ storing = <<>> \/ \E g \in [Wps -> Risks] : storing = <<g>>
  /\ row = <<>> \/ \E r \in Rows : row = <<r>>
  /\ riskEvents \in Seq(Approvals) /\ again \subseteq Approvals
  /\ approved \in Seq(Approvals)
  /\ written = <<>> \/ \E a \in Approvals : written = <<a>>
  /\ riskFaults \in Nat

\* Approvals ascend, and a pending classification is newer than all of them.
VersionsAscend ==
  /\ \A i, j \in DOMAIN approved : i < j => approved[i].version < approved[j].version
  /\ row = <<>> => approved = <<>>
  /\ row # <<>> =>
       \A i \in DOMAIN approved :
         /\ approved[i].version <= row[1].version
         /\ row[1].status = "pending" => approved[i].version < row[1].version

EventsAreApprovals ==
  /\ \A i \in DOMAIN riskEvents : Stored(riskEvents[i])
  /\ \A event \in again : Stored(event)

RisksAreCovered ==
  /\ \A w \in Wps : Covered(w, graph[w])
  /\ storing # <<>> => \A w \in Wps : Covered(w, storing[1][w])

\* Without a failure the events are the last approvals, and what was written is
\* the approval before them.
HandledInOrder ==
  riskFaults = 0 =>
    /\ again = {} /\ Len(riskEvents) <= Len(approved)
    /\ \A i \in 1..Len(riskEvents) :
         riskEvents[i] = approved[Len(approved) - Len(riskEvents) + i]
    /\ written # <<>> =>
         /\ Len(riskEvents) < Len(approved)
         /\ written[1] = approved[Len(approved) - Len(riskEvents)]

WrittenIsInGraph == written # <<>> => \A w \in Wps : graph[w] = RiskOf(written[1].art, w)

RiskInv ==
  /\ Types /\ VersionsAscend /\ EventsAreApprovals /\ RisksAreCovered
  /\ HandledInOrder /\ WrittenIsInGraph

-----------------------------------------------------------------------------
LEMMA InitHolds == RiskInit => RiskInv
  BY RiskAssumption DEF RiskInit, RiskInv, Types, VersionsAscend, EventsAreApprovals,
     RisksAreCovered, HandledInOrder, WrittenIsInGraph, Fresh, Risks, Covered

\* A step that leaves approvals, events and the graph alone.
LEMMA QuietStep ==
  ASSUME RiskInv, Types', UNCHANGED <<graph, written, approved, delivered>>,
         storing' = storing \/ \A w \in Wps : Covered(w, storing'[1][w]),
         riskFaults = 0 \/ riskFaults' # 0,
         \/ UNCHANGED row
         \/ /\ row' # <<>> /\ row'[1].status = "pending"
            /\ row'[1].version = LastVersion + 1
  PROVE  RiskInv'
<1> USE DEF RiskInv
<1>1. VersionsAscend'
  <2>1. \A i \in DOMAIN approved : approved[i].version \in Nat
    <3>1. \A i \in DOMAIN approved : approved[i] \in Approvals
      BY DEF Types
    <3>2. QED
      BY <3>1, RiskAssumption DEF Approvals, Versions
  <2>2. CASE UNCHANGED row
    BY <2>2 DEF VersionsAscend
  <2>3. CASE row' # <<>> /\ row'[1].status = "pending" /\ row'[1].version = LastVersion + 1
    <3>1. LastVersion \in Nat /\ \A i \in DOMAIN approved : approved[i].version <= LastVersion
      BY RiskAssumption DEF Types, Rows, Versions, LastVersion, VersionsAscend
    <3>2. \A i \in DOMAIN approved : approved[i].version < row'[1].version
      BY <2>1, <2>3, <3>1
    <3>3. \A i, j \in DOMAIN approved : i < j => approved[i].version < approved[j].version
      BY DEF VersionsAscend
    <3>4. \A i \in DOMAIN approved : approved[i].version <= row'[1].version
      BY <2>1, <2>3, <3>1
    <3>5. QED
      BY <2>3, <3>2, <3>3, <3>4 DEF VersionsAscend
  <2>4. QED
    BY <2>2, <2>3
<1>2. EventsAreApprovals'
  BY DEF EventsAreApprovals, Stored, delivered
<1>3. RisksAreCovered'
  BY DEF RisksAreCovered, Covered
<1>4. HandledInOrder'
  BY DEF HandledInOrder, delivered
<1>5. WrittenIsInGraph'
  BY DEF WrittenIsInGraph, RiskOf
<1>6. QED
  BY <1>1, <1>2, <1>3, <1>4, <1>5

\* The pending classification is approved.
LEMMA ApproveStep ==
  ASSUME RiskInv, Approvable, ApproveRisk, UNCHANGED <<graph, written, storing, again, riskFaults>>
  PROVE  RiskInv'
<1> USE RiskAssumption DEF RiskInv
<1> DEFINE new == [version |-> row[1].version, art |-> row[1].art]
<1>1. PICK r \in Rows : row = <<r>>
  BY DEF Types, Approvable
<1>2. /\ r.status = "pending" /\ new \in Approvals /\ new = [version |-> r.version, art |-> r.art]
      /\ row' = <<[r EXCEPT !.status = "approved"]>> /\ [r EXCEPT !.status = "approved"] \in Rows
      /\ riskEvents' = Append(riskEvents, new) /\ approved' = Append(approved, new)
  BY <1>1 DEF Approvable, ApproveRisk, Rows, Approvals
<1> HIDE DEF new
<1>3. /\ Len(approved) \in Nat /\ Len(approved') = Len(approved) + 1 /\ DOMAIN approved' = 1..(Len(approved) + 1)
      /\ DOMAIN approved = 1..Len(approved)
      /\ \A i \in DOMAIN approved : approved'[i] = approved[i]
      /\ approved'[Len(approved) + 1] = new
  BY <1>2 DEF Types
<1>4. Types'
  BY <1>2 DEF Types
<1>5. VersionsAscend'
  <2>1. \A i \in DOMAIN approved : approved[i].version < new.version
    BY <1>1, <1>2 DEF VersionsAscend
  <2>2. new.version = row'[1].version /\ row' # <<>> /\ row'[1].status = "approved"
    BY <1>1, <1>2 DEF Rows
  <2>3. \A i \in DOMAIN approved' : approved'[i].version \in Nat
    <3>1. \A i \in DOMAIN approved' : approved'[i] \in Approvals
      BY <1>4 DEF Types
    <3>2. QED
      BY <3>1 DEF Approvals, Versions
  <2>4. QED
    BY SMTT(30), <1>3, <2>1, <2>2, <2>3 DEF VersionsAscend
<1>6. \A i \in DOMAIN approved : i \in DOMAIN approved' /\ approved'[i] = approved[i]
  BY <1>3
<1>7. EventsAreApprovals'
  <2>1. \E i \in DOMAIN approved' : approved'[i] = new
    BY <1>3
  <2>2. \A i \in DOMAIN riskEvents' : riskEvents'[i] = new \/ (i \in DOMAIN riskEvents /\ riskEvents'[i] = riskEvents[i])
    BY <1>2 DEF Types
  <2>3. QED
    BY <1>6, <2>1, <2>2 DEF EventsAreApprovals, Stored
<1>8. \A w, risk : Covered(w, risk) => Covered(w, risk)'
  BY <1>3 DEF Covered
<1>9. RisksAreCovered'
  BY <1>8 DEF RisksAreCovered
<1>10. HandledInOrder'
  BY SMTT(30), <1>2, <1>3 DEF HandledInOrder, Types
<1>11. WrittenIsInGraph'
  BY DEF WrittenIsInGraph, RiskOf
<1>12. QED
  BY <1>4, <1>5, <1>7, <1>9, <1>10, <1>11

\* An event is handled: it was approved, and so are the risks it writes.
LEMMA WriteStep ==
  ASSUME RiskInv, NEW event \in Approvals, Stored(event), WriteBack(event),
         UNCHANGED <<storing, row, approved, riskFaults>>, Types',
         \/ /\ riskEvents # <<>> /\ event = Head(riskEvents)
            /\ riskEvents' = Tail(riskEvents) /\ UNCHANGED again
         \/ event \in again /\ again' = again \ {event} /\ UNCHANGED riskEvents
  PROVE  RiskInv'
<1> USE DEF RiskInv
<1>1. VersionsAscend'
  BY DEF VersionsAscend
<1>2. EventsAreApprovals'
  <2>1. \A i \in DOMAIN riskEvents' : \E j \in DOMAIN riskEvents : riskEvents'[i] = riskEvents[j]
    <3>1. CASE UNCHANGED riskEvents
      BY <3>1
    <3>2. CASE riskEvents # <<>> /\ riskEvents' = Tail(riskEvents)
      <4>1. \A i \in DOMAIN riskEvents' : i + 1 \in DOMAIN riskEvents /\ riskEvents'[i] = riskEvents[i + 1]
        BY <3>2 DEF Types
      <4>2. QED
        BY <4>1
    <3>3. QED
      BY <3>1, <3>2
  <2>2. again' \subseteq again
    OBVIOUS
  <2>3. QED
    BY <2>1, <2>2 DEF EventsAreApprovals, Stored
<1>3. /\ graph' = [w \in Wps |-> RiskOf(event.art, w)]
      /\ \A w \in Wps : RiskOf(event.art, w) \in {event.art.risk, event.art.wps[w]}
      /\ written' = <<event>>
  BY DEF WriteBack, RiskOf
<1>4. RisksAreCovered'
  <2>1. PICK i \in DOMAIN approved : approved[i] = event
    BY DEF Stored
  <2>2. \A w \in Wps : graph'[w] \in {approved[i].art.risk, approved[i].art.wps[w]}
    BY <1>3, <2>1
  <2>3. QED
    BY <2>2 DEF RisksAreCovered, Covered
<1>5. HandledInOrder'
  <2> SUFFICES ASSUME riskFaults = 0, again = {} PROVE HandledInOrder'
    BY <1>3 DEF HandledInOrder
  <2>1. /\ riskEvents # <<>> /\ event = riskEvents[1] /\ riskEvents' = Tail(riskEvents)
        /\ Len(riskEvents) \in Nat /\ Len(riskEvents) > 0 /\ Len(approved) \in Nat
        /\ Len(riskEvents') = Len(riskEvents) - 1
        /\ \A i \in 1..Len(riskEvents') : riskEvents'[i] = riskEvents[i + 1]
    <3>1. riskEvents \in Seq(Approvals) /\ approved \in Seq(Approvals)
      BY DEF Types
    <3>2. riskEvents # <<>> /\ event = Head(riskEvents) /\ riskEvents' = Tail(riskEvents)
      OBVIOUS
    <3>3. Len(riskEvents) \in Nat /\ Len(riskEvents) > 0 /\ Len(approved) \in Nat
      BY <3>1, <3>2
    <3>4. QED
      BY <3>1, <3>2, <3>3
  <2>2. /\ Len(riskEvents) <= Len(approved)
        /\ \A i \in 1..Len(riskEvents) :
             riskEvents[i] = approved[Len(approved) - Len(riskEvents) + i]
    BY DEF HandledInOrder
  <2>3. event = approved[Len(approved) - Len(riskEvents) + 1]
    BY <2>1, <2>2
  <2>4. \A i \in 1..Len(riskEvents') :
          riskEvents'[i] = approved[Len(approved) - Len(riskEvents') + i]
    <3> SUFFICES ASSUME NEW i \in 1..Len(riskEvents')
                 PROVE  riskEvents'[i] = approved[Len(approved) - Len(riskEvents') + i]
      OBVIOUS
    <3>1. riskEvents'[i] = approved[Len(approved) - Len(riskEvents) + (i + 1)]
      BY <2>1, <2>2
    <3>2. Len(approved) - Len(riskEvents) + (i + 1) = Len(approved) - Len(riskEvents') + i
      BY <2>1
    <3>3. QED
      BY <3>1, <3>2
  <2>5. Len(approved) - Len(riskEvents') = Len(approved) - Len(riskEvents) + 1
    BY <2>1
  <2>6. written'[1] = approved[Len(approved) - Len(riskEvents')] /\ Len(riskEvents') < Len(approved)
    BY <1>3, <2>1, <2>2, <2>3, <2>5
  <2>7. again' = {}
    OBVIOUS
  <2>8. QED
    BY <2>4, <2>6, <2>7 DEF HandledInOrder
<1>6. WrittenIsInGraph'
  BY <1>3 DEF WrittenIsInGraph, RiskOf
<1>7. QED
  BY <1>1, <1>2, <1>4, <1>5, <1>6

-----------------------------------------------------------------------------
LEMMA TypesKept == RiskInv /\ [RiskNext]_riskVars => Types'
<1> SUFFICES ASSUME RiskInv, [RiskNext]_riskVars PROVE Types'
  OBVIOUS
<1> USE RiskAssumption DEF RiskInv, Types
<1>1. ASSUME NEW art \in Classifications, Classify(art) PROVE Types'
  <2>1. [version |-> LastVersion + 1, art |-> art, status |-> "pending"] \in Rows
    BY <1>1 DEF Classify, LastVersion, Rows, Versions
  <2>2. QED
    BY <1>1, <2>1 DEF Classify, delivered
<1>2. ASSUME NEW v \in Versions, Ask(v) \/ DecideRisk(v) PROVE Types'
  BY <1>2 DEF Ask, DecideRisk, RiskFails, delivered
<1>3. ASSUME ApproveRisk, Approvable, riskFaults' \in Nat, UNCHANGED <<graph, written, storing, again>>
      PROVE  Types'
  <2>1. PICK r \in Rows : row = <<r>>
    BY <1>3 DEF Approvable
  <2>2. [r EXCEPT !.status = "approved"] \in Rows /\ [version |-> r.version, art |-> r.art] \in Approvals
    BY DEF Rows, Approvals
  <2>3. /\ row' = <<[r EXCEPT !.status = "approved"]>>
        /\ riskEvents' = Append(riskEvents, [version |-> r.version, art |-> r.art])
        /\ approved' = Append(approved, [version |-> r.version, art |-> r.art])
    BY <1>3, <2>1 DEF ApproveRisk
  <2>4. riskEvents' \in Seq(Approvals) /\ approved' \in Seq(Approvals)
    BY <2>2, <2>3
  <2>5. row' # <<>> /\ \E x \in Rows : row' = <<x>>
    BY <2>2, <2>3
  <2>6. QED
    BY <1>3, <2>4, <2>5
<1>4. ASSUME NEW v \in Versions, RouteRiskDecision(v) PROVE Types'
  <2>1. CASE ApproveRisk /\ Approvable
    BY <1>3, <1>4, <2>1 DEF RouteRiskDecision, RiskFails
  <2>2. CASE UNCHANGED <<row, approved, riskEvents>>
    BY <1>4, <2>2 DEF RouteRiskDecision, RiskFails
  <2>3. QED
    BY <1>4, <2>1, <2>2 DEF RouteRiskDecision, ApproveRisk
<1>5. CASE ApproveRiskByApi
  BY <1>3, <1>5 DEF ApproveRiskByApi
<1>6. \A art \in Classifications : [w \in Wps |-> RiskOf(art, w)] \in [Wps -> Risks]
  BY DEF RiskOf
<1>7. CASE HandleRiskApproved
  <2>1. Head(riskEvents) \in Approvals /\ Tail(riskEvents) \in Seq(Approvals)
    BY <1>7 DEF HandleRiskApproved
  <2>2. Head(riskEvents).art \in Classifications
    BY <2>1 DEF Approvals
  <2>3. QED
    BY <1>6, <1>7, <2>1, <2>2 DEF HandleRiskApproved, WriteBack, RiskFails
<1>8. ASSUME NEW event \in again, HandleRiskAgain(event) PROVE Types'
  <2>1. event \in Approvals /\ event.art \in Classifications
    BY DEF Approvals
  <2>2. QED
    BY <1>6, <1>8, <2>1 DEF HandleRiskAgain, WriteBack
<1>9. CASE ReadGraph
  <2>1. \A kept \in SUBSET Wps :
          [w \in Wps |-> IF w \in kept THEN graph[w] ELSE "MEDIUM"] \in [Wps -> Risks]
    BY DEF Risks
  <2>2. QED
    BY <1>9, <2>1 DEF ReadGraph, delivered
<1>10. CASE StoreGraph
  BY <1>10 DEF StoreGraph, delivered
<1>11. CASE UNCHANGED riskVars
  BY <1>11 DEF riskVars, delivered
<1>12. QED
  BY <1>1, <1>2, <1>4, <1>5, <1>7, <1>8, <1>9, <1>10, <1>11 DEF RiskNext

LEMMA StepHolds == RiskInv /\ [RiskNext]_riskVars => RiskInv'
<1> SUFFICES ASSUME RiskInv, [RiskNext]_riskVars PROVE RiskInv'
  OBVIOUS
<1>0. Types'
  BY TypesKept
<1>1. ASSUME NEW art \in Classifications, Classify(art) PROVE RiskInv'
  <2>1. row' # <<>> /\ row'[1].status = "pending" /\ row'[1].version = LastVersion + 1
    BY <1>1 DEF Classify
  <2>2. QED
    BY <1>0, <1>1, <2>1, QuietStep DEF Classify
<1>2. ASSUME NEW v \in Versions, Ask(v) \/ DecideRisk(v) PROVE RiskInv'
  <2>1. riskFaults' = riskFaults \/ (riskFaults' = riskFaults + 1 /\ riskFaults \in Nat)
    BY <1>2 DEF Ask, DecideRisk, RiskFails, RiskInv, Types
  <2>2. QED
    BY <1>0, <1>2, <2>1, QuietStep DEF Ask, DecideRisk
<1>3. ASSUME NEW v \in Versions, RouteRiskDecision(v) PROVE RiskInv'
  <2>1. CASE ApproveRisk /\ Approvable /\ UNCHANGED riskFaults
    BY <1>3, <2>1, ApproveStep DEF RouteRiskDecision
  <2>2. CASE UNCHANGED <<row, approved, riskEvents>>
    <3>1. riskFaults' = riskFaults \/ (riskFaults' = riskFaults + 1 /\ riskFaults \in Nat)
      BY <1>3 DEF RouteRiskDecision, RiskFails, RiskInv, Types
    <3>2. QED
      BY <1>0, <1>3, <2>2, <3>1, QuietStep DEF RouteRiskDecision, delivered
  <2>3. QED
    BY <1>3, <2>1, <2>2 DEF RouteRiskDecision, ApproveRisk
<1>4. CASE ApproveRiskByApi
  BY <1>4, ApproveStep DEF ApproveRiskByApi
<1>5. CASE HandleRiskApproved
  <2>1. /\ riskEvents # <<>> /\ Head(riskEvents) = riskEvents[1] /\ 1 \in DOMAIN riskEvents
        /\ Head(riskEvents) \in Approvals
    BY <1>5 DEF HandleRiskApproved, RiskInv, Types
  <2>2. Stored(Head(riskEvents))
    BY <2>1 DEF RiskInv, EventsAreApprovals
  <2>3. CASE WriteBack(Head(riskEvents)) /\ UNCHANGED <<again, riskFaults>>
    BY <1>0, <1>5, <2>1, <2>2, <2>3, WriteStep DEF HandleRiskApproved
  <2>4. CASE /\ RiskFails /\ again' = again \cup {Head(riskEvents)} /\ UNCHANGED <<graph, written>>
    <3>1. \A i \in DOMAIN riskEvents' : i + 1 \in DOMAIN riskEvents /\ riskEvents'[i] = riskEvents[i + 1]
      BY <1>5, <2>1 DEF HandleRiskApproved, RiskInv, Types
    <3>2. EventsAreApprovals'
      BY <1>5, <2>2, <2>4, <3>1 DEF HandleRiskApproved, RiskInv, EventsAreApprovals, Stored
    <3>3. HandledInOrder'
      BY <2>4 DEF RiskFails, RiskInv, Types, HandledInOrder
    <3>4. QED
      BY <1>0, <1>5, <2>4, <3>2, <3>3
         DEF HandleRiskApproved, RiskInv, VersionsAscend, RisksAreCovered, Covered, WrittenIsInGraph, RiskOf
  <2>5. QED
    BY <1>5, <2>3, <2>4 DEF HandleRiskApproved
<1>6. ASSUME NEW event \in again, HandleRiskAgain(event) PROVE RiskInv'
  BY <1>0, <1>6, WriteStep DEF HandleRiskAgain, RiskInv, Types, EventsAreApprovals
<1>7. CASE ReadGraph
  <2>1. PICK kept \in SUBSET Wps :
          storing' = <<[w \in Wps |-> IF w \in kept THEN graph[w] ELSE "MEDIUM"]>>
    BY <1>7 DEF ReadGraph
  <2>2. \A w \in Wps : Covered(w, storing'[1][w])
    BY <2>1 DEF RiskInv, RisksAreCovered, Covered
  <2>3. QED
    BY <1>0, <1>7, <2>2, QuietStep DEF ReadGraph
<1>8. CASE StoreGraph
  BY <1>0, <1>8 DEF StoreGraph, RiskInv, VersionsAscend, EventsAreApprovals, Stored, RisksAreCovered,
     Covered, HandledInOrder, WrittenIsInGraph, delivered
<1>9. CASE UNCHANGED riskVars
  BY <1>0, <1>9 DEF riskVars, RiskInv, VersionsAscend, EventsAreApprovals, Stored, RisksAreCovered,
     Covered, HandledInOrder, WrittenIsInGraph, RiskOf, delivered
<1>10. QED
  BY <1>1, <1>2, <1>3, <1>4, <1>5, <1>6, <1>7, <1>8, <1>9 DEF RiskNext

-----------------------------------------------------------------------------
\* The inductive invariant: ascending versions, events in the order of the
\* approvals, and no risk in the graph that was not approved.
THEOREM RiskInvariant == RiskSpec => []RiskInv
<1>1. RiskInit => RiskInv
  BY InitHolds
<1>2. RiskInv /\ [RiskNext]_riskVars => RiskInv'
  BY StepHolds
<1>3. QED
  BY <1>1, <1>2, PTL DEF RiskSpec

\* A version is approved once, and no risk that is not the default reaches the
\* graph without an approval (risk-classification.repo.ts, risk-consumer.ts).
THEOREM OnlyApprovedRisks == RiskSpec => []RiskIsApproved
<1>1. RiskInv => RiskIsApproved
  <2> SUFFICES ASSUME RiskInv PROVE RiskIsApproved
    OBVIOUS
  <2>1. \A i \in DOMAIN approved : i \in Nat /\ approved[i].version \in Nat
    <3>1. \A i \in DOMAIN approved : i \in Nat /\ approved[i] \in Approvals
      BY DEF RiskInv, Types
    <3>2. QED
      BY <3>1, RiskAssumption DEF Approvals, Versions
  <2>2. \A i, j \in DOMAIN approved : approved[i].version = approved[j].version => i = j
    BY <2>1 DEF RiskInv, VersionsAscend
  <2>3. QED
    BY <2>2 DEF RiskIsApproved, RiskInv, RisksAreCovered, Covered
<1>2. QED
  BY <1>1, RiskInvariant, PTL

\* When all events are handled, what was written last is the approval of the
\* highest version, completely (risk-consumer.ts, updateWpRisks).
THEOREM LastApprovalCounts == RiskSpec => []LatestIsApplied
<1>1. RiskInv => LatestIsApplied
  <2> SUFFICES ASSUME RiskInv, riskEvents = <<>>, riskFaults = 0, written # <<>>
               PROVE  /\ \A i \in DOMAIN approved : approved[i].version <= written[1].version
                      /\ \A w \in Wps : graph[w] = RiskOf(written[1].art, w)
    BY DEF LatestIsApplied, RiskOf
  <2>1. Len(approved) \in Nat /\ DOMAIN approved = 1..Len(approved) /\ Len(riskEvents) = 0
    BY DEF RiskInv, Types
  <2>2. Len(approved) > 0 /\ written[1] = approved[Len(approved)]
    BY <2>1 DEF RiskInv, HandledInOrder
  <2>3. \A i \in DOMAIN approved : approved[i].version \in Nat
    <3>1. \A i \in DOMAIN approved : approved[i] \in Approvals
      BY DEF RiskInv, Types
    <3>2. QED
      BY <3>1, RiskAssumption DEF Approvals, Versions
  <2>4. \A i \in DOMAIN approved : i = Len(approved) \/ approved[i].version < approved[Len(approved)].version
    BY <2>1, <2>2 DEF RiskInv, VersionsAscend
  <2>5. QED
    BY <2>2, <2>3, <2>4 DEF RiskInv, WrittenIsInGraph
<1>2. QED
  BY <1>1, RiskInvariant, PTL

-----------------------------------------------------------------------------
(* ReleaseDecisions: requests and their answers.                           *)

OutboxRows == [event : Events, published : BOOLEAN]

QuestionTypes ==
  /\ gates \in Seq({"passed", "blocked"}) /\ Len(gates) <= MaxGates
  /\ outbox \in Seq(OutboxRows) /\ batch \subseteq DOMAIN outbox
  /\ inbox \subseteq Events
  /\ status \in [Requests -> {"none", "PENDING", "RESOLVED", "EXPIRED"}]
  /\ decisions \subseteq [of : Requests, choice : Answers]
  /\ signOffs \subseteq Requests /\ allowed \subseteq DOMAIN gates

IsBlocked(g) == g \in DOMAIN gates /\ gates[g] = "blocked"
Decided(r, choice) == \E x \in decisions : x.of = r /\ x.choice = choice

\* What an event reports has happened, and stays so.
IsTrue(event) ==
  /\ event.type = "blocked" => IsBlocked(event.gate)
  /\ event.type = "expired" => status[event.of] = "EXPIRED"
  /\ event.type = "recorded" => Decided(event.of, event.choice)

EventsAreTrue ==
  /\ \A i \in DOMAIN outbox : IsTrue(outbox[i].event)
  /\ \A event \in inbox : IsTrue(event)

AnswersResolve ==
  /\ \A x \in decisions : status[x.of] = "RESOLVED"
  /\ \A x, y \in decisions : x.of = y.of => x = y
  /\ \A r \in Requests : status[r] = "RESOLVED" => \E x \in decisions : x.of = r

\* A request is about a blocked gate, and the one before it expired.
RequestsFollow ==
  \A r \in Requests : status[r] # "none" =>
    /\ IsBlocked(r.gate)
    /\ r.n > 0 => status[[r EXCEPT !.n = @ - 1]] = "EXPIRED"

SignOffsAreAccepted == \A r \in signOffs : IsBlocked(r.gate) /\ Decided(r, "accept_known")

QuestionInv ==
  /\ QuestionTypes /\ EventsAreTrue /\ AnswersResolve /\ RequestsFollow
  /\ SignOffsAreAccepted /\ AllowedIsAnswered

\* The two kinds of request that are created: a first one, and the next one.
LEMMA RequestShapes ==
  /\ \A g \in 1..MaxGates : [gate |-> g, n |-> 0] \in Requests
  /\ \A r \in Requests : r.gate \in 1..MaxGates /\ r.n \in 0..MaxReesc
  /\ \A r \in Requests : AsksAgain(r) =>
       LET next == [r EXCEPT !.n = @ + 1]
       IN  next \in Requests /\ next.gate = r.gate /\ next.n = r.n + 1
           /\ [next EXCEPT !.n = @ - 1] = r
  /\ \A r \in Requests : r.n > 0 => [r EXCEPT !.n = @ - 1] \in Requests
<1> USE ReleaseAssumption
<1>1. \A g \in 1..MaxGates : [gate |-> g, n |-> 0] \in Requests
  BY DEF Requests
<1>2. \A r \in Requests : r.gate \in 1..MaxGates /\ r.n \in 0..MaxReesc
  BY DEF Requests
<1>3. ASSUME NEW r \in Requests, AsksAgain(r)
      PROVE  LET next == [r EXCEPT !.n = @ + 1]
             IN  next \in Requests /\ next.gate = r.gate /\ next.n = r.n + 1
                 /\ [next EXCEPT !.n = @ - 1] = r
  <2> DEFINE next == [r EXCEPT !.n = @ + 1]
  <2>1. r = [x \in {"gate", "n"} |-> r[x]] /\ r.n \in 0..MaxReesc /\ r.gate \in 1..MaxGates
    BY DEF Requests
  <2>2. next.n = r.n + 1 /\ next.gate = r.gate /\ next = [x \in {"gate", "n"} |-> next[x]]
    BY <2>1
  <2>3. next \in Requests
    BY <1>3, <2>1 DEF Requests, AsksAgain
  <2> HIDE DEF next
  <2> DEFINE back == [next EXCEPT !.n = @ - 1]
  <2>4. back = [x \in {"gate", "n"} |-> back[x]] /\ back.n = r.n /\ back.gate = r.gate
    BY <2>1, <2>2
  <2> HIDE DEF back
  <2>5. back = r
    <3>1. \A x \in {"gate", "n"} : back[x] = r[x]
      BY <2>4
    <3> QED BY <2>1, <2>4, <3>1
  <2> QED BY <2>2, <2>3, <2>5 DEF back, next
<1>4. \A r \in Requests : r.n > 0 => [r EXCEPT !.n = @ - 1] \in Requests
  BY DEF Requests
<1> QED BY <1>1, <1>2, <1>3, <1>4

LEMMA EventShapes ==
  /\ \A g \in 1..MaxGates : [type |-> "blocked", gate |-> g] \in Events
  /\ \A r \in Requests : [type |-> "expired", of |-> r] \in Events
  /\ \A r \in Requests, choice \in Answers :
       [type |-> "recorded", of |-> r, choice |-> choice] \in Events
  /\ \A event \in Events :
       /\ event.type = "blocked" => event.gate \in 1..MaxGates
       /\ event.type = "expired" => event.of \in Requests
       /\ event.type = "recorded" => event.of \in Requests /\ event.choice \in Answers
  BY DEF Events

LEMMA RowShapes ==
  ASSUME QuestionTypes
  PROVE  \A i \in DOMAIN outbox : outbox[i] \in OutboxRows /\ outbox[i].event \in Events
<1>1. \A i \in DOMAIN outbox : outbox[i] \in OutboxRows
  BY DEF QuestionTypes
<1>2. \A entry \in OutboxRows : entry.event \in Events
  BY DEF OutboxRows
<1> QED BY <1>1, <1>2

\* The relay, the sweep and a failing handler move events and rows about.
LEMMA QuestionsUntouched ==
  ASSUME QuestionInv, QuestionTypes',
         UNCHANGED <<gates, status, decisions, signOffs, allowed>>,
         \A i \in DOMAIN outbox' : i \in DOMAIN outbox /\ outbox'[i].event = outbox[i].event,
         \A event \in inbox' : event \in inbox \/ \E i \in DOMAIN outbox : event = outbox[i].event
  PROVE  QuestionInv'
<1> USE DEF QuestionInv
<1>1. \A event : IsTrue(event)' <=> IsTrue(event)
  BY DEF IsTrue, IsBlocked, Decided
<1>2. EventsAreTrue'
  BY <1>1 DEF EventsAreTrue
<1>3. AnswersResolve'
  BY DEF AnswersResolve
<1>4. RequestsFollow'
  BY DEF RequestsFollow, IsBlocked
<1>5. SignOffsAreAccepted'
  BY DEF SignOffsAreAccepted, IsBlocked, Decided
<1>6. AllowedIsAnswered'
  BY DEF AllowedIsAnswered
<1> QED BY <1>2, <1>3, <1>4, <1>5, <1>6

\* A request is created: a first one about a blocked gate, or the next one
\* after one that expired.
LEMMA RequestCreated ==
  ASSUME QuestionInv, NEW r \in Requests, CreateRequest(r), IsBlocked(r.gate),
         r.n > 0 => status[[r EXCEPT !.n = @ - 1]] = "EXPIRED",
         inbox' \subseteq inbox,
         UNCHANGED <<gates, relaying, decisions, signOffs, allowed>>
  PROVE  QuestionInv'
<1> USE DEF QuestionInv
<1>1. CASE status[r] # "none"
  <2>1. UNCHANGED status
    BY <1>1 DEF CreateRequest
  <2>2. QuestionTypes'
    BY <2>1 DEF QuestionTypes, relaying
  <2> QED BY <2>1, <2>2, QuestionsUntouched DEF relaying
<1>2. CASE status[r] = "none"
  <2>1. status' = [status EXCEPT ![r] = "PENDING"]
    BY <1>2 DEF CreateRequest
  <2>2. QuestionTypes'
    BY <2>1 DEF QuestionTypes, relaying
  <2>3. \A event : IsTrue(event) => IsTrue(event)'
    BY <1>2, <2>1 DEF IsTrue, IsBlocked, Decided, QuestionTypes
  <2>4. EventsAreTrue'
    BY <2>3 DEF EventsAreTrue, relaying
  <2>5. AnswersResolve'
    BY <1>2, <2>1 DEF AnswersResolve, QuestionTypes
  <2>6. RequestsFollow'
    <3>1. ASSUME NEW q \in Requests, status'[q] # "none"
          PROVE  IsBlocked(q.gate) /\ (q.n > 0 => status[[q EXCEPT !.n = @ - 1]] = "EXPIRED")
      BY <2>1, <3>1 DEF RequestsFollow, QuestionTypes
    <3>2. \A q \in Requests : status[q] = "EXPIRED" => status'[q] = "EXPIRED"
      BY <1>2, <2>1 DEF QuestionTypes
    <3> QED BY <3>1, <3>2, RequestShapes DEF RequestsFollow, IsBlocked
  <2>7. SignOffsAreAccepted' /\ AllowedIsAnswered'
    BY DEF SignOffsAreAccepted, AllowedIsAnswered, IsBlocked, Decided
  <2> QED BY <2>2, <2>4, <2>5, <2>6, <2>7
<1> QED BY <1>1, <1>2

\* A pending request ends, and its event says how.
LEMMA RequestEnded ==
  ASSUME QuestionInv, NEW r \in Requests, status[r] = "PENDING",
         NEW event \in Events, Emit(event), IsTrue(event)',
         UNCHANGED <<gates, batch, inbox, signOffs, allowed>>,
         \/ status' = [status EXCEPT ![r] = "EXPIRED"] /\ UNCHANGED decisions
         \/ /\ status' = [status EXCEPT ![r] = "RESOLVED"]
            /\ \E choice \in Answers : decisions' = decisions \cup {[of |-> r, choice |-> choice]}
  PROVE  QuestionInv'
<1> USE DEF QuestionInv
<1>0. decisions \subseteq decisions'
  OBVIOUS
<1>1. \A q \in Requests : /\ status[q] = "EXPIRED" => status'[q] = "EXPIRED"
                          /\ status'[q] # "none" => status[q] # "none"
  BY DEF QuestionTypes
<1>2. QuestionTypes'
  <2>1. outbox' \in Seq(OutboxRows) /\ DOMAIN outbox \subseteq DOMAIN outbox'
    <3>1. [event |-> event, published |-> FALSE] \in OutboxRows
      BY DEF OutboxRows
    <3> QED BY <3>1 DEF Emit, QuestionTypes
  <2>2. decisions' \subseteq [of : Requests, choice : Answers]
    BY DEF QuestionTypes
  <2> QED BY <2>1, <2>2 DEF QuestionTypes
<1>3. \A e \in Events : IsTrue(e) => IsTrue(e)'
  BY <1>0, <1>1, EventShapes DEF IsTrue, IsBlocked, Decided
<1>4. EventsAreTrue'
  <2>1. \A i \in DOMAIN outbox' :
          \/ i \in DOMAIN outbox /\ outbox'[i] = outbox[i]
          \/ outbox'[i].event = event
    BY DEF Emit, QuestionTypes
  <2>2. \A i \in DOMAIN outbox : outbox[i].event \in Events
    BY RowShapes
  <2> QED BY <1>3, <2>1, <2>2 DEF EventsAreTrue, QuestionTypes
<1>5. AnswersResolve'
  <2>1. \A x \in decisions : x.of \in Requests /\ x.of # r
    BY DEF AnswersResolve, QuestionTypes
  <2>2. \A x \in decisions' : x \in decisions \/ (x.of = r /\ status'[r] = "RESOLVED")
    BY DEF QuestionTypes
  <2>3. \A x, y \in decisions' : x.of = y.of => x = y
    BY <2>1 DEF AnswersResolve
  <2>4. \A q \in Requests : status'[q] = "RESOLVED" => \E x \in decisions' : x.of = q
    <3>1. CASE UNCHANGED decisions /\ status' = [status EXCEPT ![r] = "EXPIRED"]
      BY <3>1 DEF AnswersResolve, QuestionTypes
    <3>2. CASE /\ status' = [status EXCEPT ![r] = "RESOLVED"]
               /\ \E choice \in Answers : decisions' = decisions \cup {[of |-> r, choice |-> choice]}
      <4>1. PICK choice \in Answers : decisions' = decisions \cup {[of |-> r, choice |-> choice]}
        BY <3>2
      <4>2. [of |-> r, choice |-> choice] \in decisions' /\ [of |-> r, choice |-> choice].of = r
        BY <4>1
      <4> QED BY <1>0, <3>2, <4>2 DEF AnswersResolve, QuestionTypes
    <3> QED BY <3>1, <3>2
  <2>5. \A x \in decisions : status'[x.of] = "RESOLVED"
    BY <2>1 DEF AnswersResolve, QuestionTypes
  <2> QED BY <2>2, <2>3, <2>4, <2>5 DEF AnswersResolve
<1>6. RequestsFollow'
  BY <1>1, RequestShapes DEF RequestsFollow, IsBlocked
<1>7. SignOffsAreAccepted' /\ AllowedIsAnswered'
  BY <1>0 DEF SignOffsAreAccepted, AllowedIsAnswered, IsBlocked, Decided
<1> QED BY <1>2, <1>4, <1>5, <1>6, <1>7

LEMMA GateRecorded ==
  ASSUME QuestionInv, NEW result \in {"passed", "blocked"}, RecordGate(result)
  PROVE  QuestionInv'
<1> USE DEF QuestionInv
<1>1. /\ gates' \in Seq({"passed", "blocked"}) /\ Len(gates') <= MaxGates
      /\ Len(gates') = Len(gates) + 1 /\ gates'[Len(gates')] = result
      /\ \A g \in DOMAIN gates : g \in DOMAIN gates' /\ gates'[g] = gates[g]
  BY ReleaseAssumption DEF RecordGate, QuestionTypes
<1>2. \A g : IsBlocked(g) => IsBlocked(g)'
  BY <1>1 DEF IsBlocked
<1>3. UNCHANGED <<batch, inbox, status, decisions, signOffs, allowed>>
  BY DEF RecordGate, asking
<1>4. \A e : IsTrue(e) => IsTrue(e)'
  BY <1>2, <1>3 DEF IsTrue, Decided
<1>a. PICK g \in 1..MaxGates : g = Len(gates')
  BY <1>1, ReleaseAssumption DEF QuestionTypes
<1> DEFINE event == [type |-> "blocked", gate |-> g]
<1>5. event \in Events /\ (result = "blocked" => IsTrue(event)')
  <2>1. g \in DOMAIN gates'
    BY <1>1, <1>a
  <2>2. result = "blocked" => IsBlocked(g)'
    BY <1>1, <1>a, <2>1 DEF IsBlocked
  <2> QED BY <2>2, EventShapes DEF IsTrue
<1>6. /\ outbox' \in Seq(OutboxRows) /\ DOMAIN outbox \subseteq DOMAIN outbox'
      /\ \A i \in DOMAIN outbox' : \/ i \in DOMAIN outbox /\ outbox'[i] = outbox[i]
                                   \/ result = "blocked" /\ outbox'[i].event = event
  <2> HIDE DEF event
  <2>1. UNCHANGED outbox \/ (result = "blocked" /\ Emit(event))
    BY <1>a DEF RecordGate, event
  <2>2. [event |-> event, published |-> FALSE] \in OutboxRows
    BY <1>5 DEF OutboxRows
  <2>3. CASE UNCHANGED outbox
    BY <2>3 DEF QuestionTypes
  <2>4. CASE result = "blocked" /\ Emit(event)
    <3>1. outbox' \in Seq(OutboxRows)
      BY <2>2, <2>4 DEF Emit, QuestionTypes
    <3>2. \A i \in DOMAIN outbox' : \/ i \in DOMAIN outbox /\ outbox'[i] = outbox[i]
                                   \/ outbox'[i].event = event
      BY <2>4 DEF Emit, QuestionTypes
    <3> QED BY <2>4, <3>1, <3>2 DEF Emit, QuestionTypes
  <2> QED BY <2>1, <2>3, <2>4
<1> HIDE DEF event
<1>7. QuestionTypes'
  BY <1>1, <1>3, <1>6 DEF QuestionTypes
<1>8. EventsAreTrue'
  BY <1>3, <1>4, <1>5, <1>6 DEF EventsAreTrue
<1>9. AnswersResolve'
  BY <1>3 DEF AnswersResolve
<1>10. RequestsFollow'
  BY <1>2, <1>3 DEF RequestsFollow
<1>11. SignOffsAreAccepted'
  BY <1>2, <1>3 DEF SignOffsAreAccepted, Decided
<1>12. AllowedIsAnswered'
  <2>1. \A h \in allowed : gates'[h] = gates[h]
    BY <1>1 DEF QuestionTypes
  <2>2. ASSUME NEW x \in decisions, gates[x.of.gate] = "blocked"
        PROVE  gates'[x.of.gate] = "blocked"
    <3>1. IsBlocked(x.of.gate)
      BY DEF AnswersResolve, RequestsFollow, QuestionTypes
    <3> QED BY <1>2, <3>1 DEF IsBlocked
  <2> QED BY <1>3, <2>1, <2>2 DEF AllowedIsAnswered
<1> QED BY <1>7, <1>8, <1>9, <1>10, <1>11, <1>12

LEMMA EventHandled ==
  ASSUME QuestionInv, NEW event \in inbox, Handle(event)
  PROVE  QuestionInv'
<1> USE DEF QuestionInv
<1>1. event \in Events /\ IsTrue(event)
  BY DEF QuestionTypes, EventsAreTrue
<1>2. CASE HandleBlocked(event)
  <2> DEFINE r == [gate |-> event.gate, n |-> 0]
  <2>1. event.gate \in 1..MaxGates /\ IsBlocked(event.gate)
    BY <1>1, <1>2, EventShapes DEF HandleBlocked, IsTrue
  <2>a. r \in Requests /\ r.gate = event.gate /\ ~ r.n > 0
    BY <2>1, ReleaseAssumption DEF Requests
  <2>2. /\ CreateRequest(r) /\ inbox' \subseteq inbox
        /\ UNCHANGED <<gates, relaying, decisions, signOffs, allowed>>
    BY <1>2 DEF HandleBlocked, Take
  <2> HIDE DEF r
  <2> QED BY <2>1, <2>a, <2>2, RequestCreated
<1>3. CASE HandleExpired(event)
  <2>1. /\ event.of \in Requests /\ status[event.of] = "EXPIRED"
        /\ inbox' \subseteq inbox
        /\ UNCHANGED <<gates, relaying, decisions, signOffs, allowed>>
    BY <1>1, <1>3, EventShapes DEF HandleExpired, IsTrue, Take
  <2>2. CASE ~AsksAgain(event.of)
    <3>1. UNCHANGED status
      BY <1>3, <2>2 DEF HandleExpired
    <3>2. QuestionTypes'
      BY <2>1, <3>1 DEF QuestionTypes, relaying
    <3> QED BY <2>1, <3>1, <3>2, QuestionsUntouched DEF relaying
  <2>3. CASE AsksAgain(event.of)
    <3> DEFINE next == [event.of EXCEPT !.n = @ + 1]
    <3>1. /\ next \in Requests /\ next.gate = event.of.gate
          /\ [next EXCEPT !.n = @ - 1] = event.of
      BY <2>1, <2>3, RequestShapes
    <3>2. CreateRequest(next)
      BY <1>3, <2>3 DEF HandleExpired
    <3>3. IsBlocked(next.gate)
      BY <2>1, <3>1 DEF RequestsFollow
    <3> HIDE DEF next
    <3> QED BY <2>1, <3>1, <3>2, <3>3, RequestCreated
  <2> QED BY <2>2, <2>3
<1>4. CASE HandleRecorded(event)
  <2>1. /\ event.of \in Requests /\ Decided(event.of, event.choice)
        /\ inbox' \subseteq inbox
        /\ UNCHANGED <<gates, relaying, status, decisions, allowed>>
    BY <1>1, <1>4, EventShapes DEF HandleRecorded, IsTrue, Take
  <2>2. signOffs' = signOffs \/ (event.choice = "accept_known" /\ signOffs' = signOffs \cup {event.of})
    BY <1>4 DEF HandleRecorded, SignsOff
  <2>3. IsBlocked(event.of.gate)
    BY <2>1 DEF Decided, AnswersResolve, RequestsFollow
  <2>4. QuestionTypes'
    BY <2>1, <2>2 DEF QuestionTypes, relaying
  <2>5. EventsAreTrue'
    BY <2>1 DEF EventsAreTrue, IsTrue, IsBlocked, Decided, relaying
  <2>6. AnswersResolve' /\ RequestsFollow' /\ AllowedIsAnswered'
    BY <2>1 DEF AnswersResolve, RequestsFollow, AllowedIsAnswered, IsBlocked
  <2>7. SignOffsAreAccepted'
    BY <2>1, <2>2, <2>3 DEF SignOffsAreAccepted, IsBlocked, Decided
  <2> QED BY <2>4, <2>5, <2>6, <2>7
<1> QED BY <1>2, <1>3, <1>4 DEF Handle

\* What the relay publishes and the consumers take is true, every request
\* follows one that expired, and every sign-off was decided.
THEOREM QuestionInvariant == ReleaseSpec => []QuestionInv
<1>1. ReleaseInit => QuestionInv
  <2> SUFFICES ASSUME ReleaseInit PROVE QuestionInv
    OBVIOUS
  <2>1. QuestionTypes
    BY ReleaseAssumption DEF ReleaseInit, QuestionTypes
  <2>2. /\ EventsAreTrue /\ AnswersResolve /\ RequestsFollow /\ SignOffsAreAccepted
        /\ AllowedIsAnswered
    BY DEF ReleaseInit, EventsAreTrue, AnswersResolve, RequestsFollow, SignOffsAreAccepted,
       AllowedIsAnswered
  <2> QED BY <2>1, <2>2 DEF QuestionInv
<1>2. QuestionInv /\ [ReleaseNext]_releaseVars => QuestionInv'
  <2> SUFFICES ASSUME QuestionInv, [ReleaseNext]_releaseVars PROVE QuestionInv'
    OBVIOUS
  <2> USE DEF QuestionInv
  <2>1. CASE UNCHANGED releaseVars
    <3>1. QuestionTypes'
      BY <2>1 DEF QuestionTypes, releaseVars, relaying, asking
    <3> QED BY <2>1, <3>1, QuestionsUntouched DEF releaseVars, relaying, asking
  <2>2. ASSUME NEW result \in {"passed", "blocked"}, RecordGate(result) PROVE QuestionInv'
    BY <2>2, GateRecorded
  <2>3. CASE RelayPolls
    <3>1. QuestionTypes'
      BY <2>3 DEF RelayPolls, Unpublished, QuestionTypes, asking
    <3> QED BY <2>3, <3>1, QuestionsUntouched DEF RelayPolls, asking
  <2>4. CASE RelayPublishes
    <3>1. PICK i \in batch : inbox' = inbox \cup Delivered(outbox[i].event)
      BY <2>4 DEF RelayPublishes
    <3>2. i \in DOMAIN outbox /\ outbox[i].event \in Events
      BY RowShapes DEF QuestionTypes
    <3>3. QuestionTypes'
      BY <2>4, <3>1, <3>2 DEF RelayPublishes, Delivered, QuestionTypes, asking
    <3>4. \A event \in inbox' : event \in inbox \/ event = outbox[i].event
      BY <3>1 DEF Delivered
    <3> QED BY <2>4, <3>2, <3>3, <3>4, QuestionsUntouched DEF RelayPublishes, asking
  <2>5. CASE RelayMarks
    <3>1. PICK i \in batch : batch' = batch \ {i} /\ outbox' = [outbox EXCEPT ![i].published = TRUE]
      BY <2>5 DEF RelayMarks
    <3> DEFINE marked == [outbox[i] EXCEPT !.published = TRUE]
    <3>2. i \in DOMAIN outbox /\ outbox[i] \in OutboxRows /\ outbox' = [outbox EXCEPT ![i] = marked]
      BY <3>1 DEF QuestionTypes
    <3>3. marked \in OutboxRows /\ marked.event = outbox[i].event
      BY <3>2 DEF OutboxRows
    <3> HIDE DEF marked
    <3>4. /\ outbox' \in Seq(OutboxRows) /\ DOMAIN outbox' = DOMAIN outbox
          /\ \A j \in DOMAIN outbox : outbox'[j].event = outbox[j].event
      BY <3>2, <3>3 DEF QuestionTypes
    <3>5. UNCHANGED <<gates, inbox, status, decisions, signOffs, allowed>>
      BY <2>5 DEF RelayMarks, asking
    <3>6. QuestionTypes'
      BY <3>1, <3>4, <3>5 DEF QuestionTypes
    <3> QED BY <3>4, <3>5, <3>6, QuestionsUntouched
  <2>6. CASE RelayRowFails \/ RelayDies
    <3>1. batch' \subseteq batch /\ UNCHANGED <<gates, outbox, inbox, asking, allowed>>
      BY <2>6 DEF RelayRowFails, RelayDies
    <3>2. QuestionTypes'
      BY <3>1 DEF QuestionTypes, asking
    <3> QED BY <3>1, <3>2, QuestionsUntouched DEF asking
  <2>7. ASSUME NEW event \in inbox, Handle(event) PROVE QuestionInv'
    BY <2>7, EventHandled
  <2>8. ASSUME NEW event \in inbox, HandlerFails(event) PROVE QuestionInv'
    <3>1. inbox' \subseteq inbox /\ UNCHANGED <<gates, relaying, asking, allowed>>
      BY <2>8 DEF HandlerFails, Take
    <3>2. QuestionTypes'
      BY <3>1 DEF QuestionTypes, asking, relaying
    <3> QED BY <3>1, <3>2, QuestionsUntouched DEF asking, relaying
  <2>9. ASSUME NEW r \in Requests, BecomesDue(r) \/ ExpireFails(r) PROVE QuestionInv'
    <3>1. UNCHANGED <<gates, relaying, inbox, status, decisions, signOffs, allowed>>
      BY <2>9 DEF BecomesDue, ExpireFails
    <3>2. QuestionTypes'
      BY <3>1 DEF QuestionTypes, relaying
    <3> QED BY <3>1, <3>2, QuestionsUntouched DEF relaying
  <2>10. ASSUME NEW r \in Requests, ExpireRequest(r) PROVE QuestionInv'
    <3>1. UNCHANGED <<gates, batch, inbox, decisions, signOffs, allowed>>
      BY <2>10 DEF ExpireRequest
    <3>2. CASE ~Expirable(r)
      <4>1. UNCHANGED <<status, outbox>>
        BY <2>10, <3>2 DEF ExpireRequest
      <4>2. QuestionTypes'
        BY <3>1, <4>1 DEF QuestionTypes
      <4> QED BY <3>1, <4>1, <4>2, QuestionsUntouched
    <3>3. CASE Expirable(r)
      <4> DEFINE event == [type |-> "expired", of |-> r]
      <4>1. /\ status' = [status EXCEPT ![r] = "EXPIRED"] /\ Emit(event)
            /\ status[r] = "PENDING"
        BY <2>10, <3>3 DEF ExpireRequest, Expirable
      <4>2. event \in Events
        BY EventShapes
      <4>3. IsTrue(event)'
        BY <4>1 DEF IsTrue, QuestionTypes
      <4> HIDE DEF event
      <4> QED BY <3>1, <4>1, <4>2, <4>3, RequestEnded
    <3> QED BY <3>2, <3>3
  <2>11. ASSUME NEW r \in Requests, NEW choice \in Answers, RecordDecision(r, choice)
         PROVE  QuestionInv'
    <3> DEFINE event == [type |-> "recorded", of |-> r, choice |-> choice]
    <3>1. /\ status[r] = "PENDING" /\ status' = [status EXCEPT ![r] = "RESOLVED"]
          /\ decisions' = decisions \cup {[of |-> r, choice |-> choice]} /\ Emit(event)
          /\ UNCHANGED <<gates, batch, inbox, signOffs, allowed>>
      BY <2>11 DEF RecordDecision
    <3>2. event \in Events
      BY EventShapes
    <3>3. IsTrue(event)'
      <4>1. [of |-> r, choice |-> choice] \in decisions'
        BY <3>1
      <4>2. Decided(r, choice)'
        BY <4>1 DEF Decided
      <4> QED BY <4>2 DEF IsTrue
    <3> HIDE DEF event
    <3> QED BY <3>1, <3>2, <3>3, RequestEnded
  <2>12. CASE SweepReads
    <3>1. UNCHANGED <<gates, relaying, inbox, status, decisions, signOffs, allowed>>
      BY <2>12 DEF SweepReads
    <3>2. QuestionTypes'
      BY <3>1 DEF QuestionTypes, relaying
    <3> QED BY <3>1, <3>2, QuestionsUntouched DEF relaying
  <2>13. CASE CheckDeploy
    <3>1. /\ UNCHANGED <<gates, relaying, inbox, asking>> /\ allowed' = allowed \cup {Len(gates)}
          /\ gates # <<>> /\ (Last(gates) = "passed" \/ signOffs # {})
      BY <2>13 DEF CheckDeploy, Allowed
    <3>2. Len(gates) \in DOMAIN gates /\ Last(gates) = gates[Len(gates)]
      BY <3>1 DEF QuestionTypes, Last
    <3>3. QuestionTypes'
      BY <3>1, <3>2 DEF QuestionTypes, asking, relaying
    <3>4. EventsAreTrue'
      BY <3>1 DEF EventsAreTrue, IsTrue, IsBlocked, Decided, asking, relaying
    <3>5. AnswersResolve' /\ RequestsFollow' /\ SignOffsAreAccepted'
      BY <3>1 DEF AnswersResolve, RequestsFollow, SignOffsAreAccepted, IsBlocked, Decided, asking
    <3>6. AllowedIsAnswered'
      <4>1. \A r \in signOffs : \E x \in decisions : x.choice = "accept_known" /\ gates[x.of.gate] = "blocked"
        BY DEF SignOffsAreAccepted, IsBlocked, Decided
      <4> QED BY <3>1, <3>2, <4>1 DEF AllowedIsAnswered, asking
    <3> QED BY <3>3, <3>4, <3>5, <3>6
  <2> QED BY <2>1, <2>2, <2>3, <2>4, <2>5, <2>6, <2>7, <2>8, <2>9, <2>10, <2>11, <2>12, <2>13
          DEF ReleaseNext, Relay
<1> QED BY <1>1, <1>2, PTL DEF ReleaseSpec

\* Of a request there is one decision if it was answered and none if it
\* expired or still waits, and only an expired request is asked again
\* (decision.repo.ts, decision-expiry-consumer.ts).
THEOREM RequestsEndOnce == ReleaseSpec => []OneFate
<1>1. QuestionInv => OneFate
  <2> SUFFICES ASSUME QuestionInv, NEW r \in Requests
               PROVE  Cardinality({x \in decisions : x.of = r})
                        = (IF status[r] = "RESOLVED" THEN 1 ELSE 0)
    BY DEF OneFate, QuestionInv, RequestsFollow
  <2> DEFINE of == {x \in decisions : x.of = r}
  <2> USE DEF QuestionInv, AnswersResolve
  <2>1. CASE status[r] = "RESOLVED"
    <3>1. PICK x \in decisions : x.of = r
      BY <2>1
    <3>2. of = {x}
      BY <3>1
    <3> QED BY <2>1, <3>2, FS_Singleton
  <2>2. CASE status[r] # "RESOLVED"
    <3>1. of = {}
      BY <2>2
    <3> QED BY <2>2, <3>1, FS_EmptySet
  <2> QED BY <2>1, <2>2
<1> QED BY <1>1, QuestionInvariant, PTL

\* Nothing is deployed under a blocked gate that nobody accepted (deploy-gate.ts).
THEOREM AllowedAfterAnswer == ReleaseSpec => []AllowedIsAnswered
  BY QuestionInvariant, PTL DEF QuestionInv

-----------------------------------------------------------------------------
(* OracleApproval: what a person approved.                                 *)

IsOracle(o) == o = [x \in {"status", "covers", "golden"} |-> o[x]]

OracleShapes ==
  /\ oracles = [s \in Stories |-> oracles[s]]
  /\ \A s \in Stories : IsOracle(oracles[s])

\* Goldens freeze on an answer, and the answer is on its way before they do.
FreezesAreAnswered ==
  /\ (\E s \in Stories : oracles[s].golden = "frozen") => signedOff
  /\ (deciding # Idle /\ deciding.pc = "freeze") => signedOff
  /\ "golden" \in approvals => signedOff

OracleInv == OracleShapes /\ FreezesAreAnswered

\* The row of story s is written, or nothing: none but an answer freezes goldens.
RowWritten(s) ==
  \/ UNCHANGED oracles
  \/ \E o : /\ IsOracle(o) /\ oracles' = [oracles EXCEPT ![s] = o]
            /\ o.golden = "frozen" => oracles[s].golden = "frozen" \/ signedOff

LEMMA WrittenKeepsShape ==
  ASSUME OracleInv, NEW s \in Stories, RowWritten(s), signedOff => signedOff'
  PROVE  /\ OracleShapes'
         /\ (\E q \in Stories : oracles'[q].golden = "frozen") => signedOff'
  BY DEF OracleInv, OracleShapes, FreezesAreAnswered, RowWritten

LEMMA ApprovalWrites ==
  ASSUME OracleInv, NEW s \in Stories, Approve(s)
  PROVE  RowWritten(s)
<1>1. CASE UNCHANGED oracles
  BY <1>1 DEF RowWritten
<1>2. CASE oracles' = [oracles EXCEPT ![s].status = "approved"]
  <2> DEFINE o == [oracles[s] EXCEPT !.status = "approved"]
  <2>1. oracles' = [oracles EXCEPT ![s] = o]
    BY <1>2
  <2>2. IsOracle(o) /\ o.golden = oracles[s].golden
    BY DEF OracleInv, OracleShapes, IsOracle
  <2> HIDE DEF o
  <2> QED BY <2>1, <2>2 DEF RowWritten
<1> QED BY <1>1, <1>2 DEF Approve

\* Every step of the consumers, the API and the people.
LEMMA OracleStep ==
  ASSUME OracleInv, OracleNext
  PROVE  OracleInv'
<1> USE DEF OracleInv
<1>1. ASSUME UNCHANGED <<oracles, approvals, signedOff>>, deciding' \in {deciding, Idle}
      PROVE  OracleInv'
  BY <1>1 DEF OracleShapes, FreezesAreAnswered
<1>2. ASSUME NEW s \in Stories, RowWritten(s), UNCHANGED <<approvals, signedOff, deciding>>
      PROVE  OracleInv'
  BY <1>2, WrittenKeepsShape DEF FreezesAreAnswered
<1>3. CASE Emitted \/ UpsertGraph \/ AskOracles \/ PlanDecomposed \/ PersistFails
  BY <1>1, <1>3 DEF Emitted, UpsertGraph, AskOracles, PlanDecomposed, PersistFails
<1>4. CASE AskGoldens \/ DecisionFails \/ HandlingFails
  BY <1>1, <1>4 DEF AskGoldens, DecisionFails, HandlingFails
<1>5. ASSUME NEW s \in Stories, UpsertDraft(s)
      PROVE  OracleInv'
  <2>1. CASE ~Drafts(s)
    BY <1>1, <1>5, <2>1 DEF UpsertDraft
  <2>2. CASE Drafts(s)
    <3> DEFINE o == [oracles[s] EXCEPT !.status = "pending", !.covers = persisting.graph[s]]
    <3>1. oracles' = [oracles EXCEPT ![s] = o]
      BY <1>5, <2>2 DEF UpsertDraft, OracleShapes
    <3>2. IsOracle(o) /\ o.golden = oracles[s].golden
      BY DEF OracleShapes, IsOracle
    <3> HIDE DEF o
    <3>3. RowWritten(s)
      BY <3>1, <3>2 DEF RowWritten
    <3> QED BY <1>2, <1>5, <3>3 DEF UpsertDraft
  <2> QED BY <2>1, <2>2
<1>6. ASSUME NEW s \in Stories, HandleApproved(s)
      PROVE  OracleInv'
  BY <1>1, <1>6 DEF HandleApproved
<1>7. ASSUME NEW s \in Stories, ApproveOne(s)
      PROVE  OracleInv'
  BY <1>2, <1>7, ApprovalWrites DEF ApproveOne
<1>8. ASSUME NEW s \in Stories, ApproveRow(s)
      PROVE  OracleInv'
  <2>1. RowWritten(s) /\ UNCHANGED <<approvals, signedOff>>
    BY <1>8, ApprovalWrites DEF ApproveRow
  <2>2. deciding' # Idle => deciding'.pc = "approve"
    BY <1>8 DEF ApproveRow, RowDone, Idle
  <2> QED BY <2>1, <2>2, WrittenKeepsShape DEF FreezesAreAnswered
<1>9. ASSUME NEW s \in Stories, FreezeRow(s)
      PROVE  OracleInv'
  <2>1. signedOff
    BY <1>9 DEF FreezeRow, FreezesAreAnswered, Idle
  <2> DEFINE o == [oracles[s] EXCEPT !.golden = "frozen"]
  <2>2. oracles' = [oracles EXCEPT ![s] = o]
    BY <1>9 DEF FreezeRow
  <2>3. IsOracle(o)
    BY DEF OracleShapes, IsOracle
  <2> HIDE DEF o
  <2>4. RowWritten(s)
    BY <2>1, <2>2, <2>3 DEF RowWritten
  <2> QED BY <1>9, <2>1, <2>4, WrittenKeepsShape DEF FreezesAreAnswered, FreezeRow
<1>10. ASSUME NEW s \in Stories, NEW covers \in Seeds, NEW golden, Seed(s, covers, golden)
       PROVE  OracleInv'
  <2> DEFINE o == [status |-> "pending", covers |-> covers, golden |-> Seeded(golden)]
  <2>1. oracles' = [oracles EXCEPT ![s] = o]
    BY <1>10 DEF Seed
  <2>2. IsOracle(o) /\ o.golden # "frozen"
    BY DEF IsOracle, Seeded
  <2> HIDE DEF o
  <2>3. RowWritten(s)
    BY <2>1, <2>2 DEF RowWritten
  <2> QED BY <1>2, <1>10, <2>3 DEF Seed
<1>11. ASSUME NEW k \in Kinds, Decide(k)
       PROVE  OracleInv'
  BY <1>11 DEF Decide, OracleShapes, FreezesAreAnswered, Kinds
<1>12. ASSUME NEW k \in Kinds, RouteDecision(k)
       PROVE  OracleInv'
  <2>1. \/ deciding' = Idle
        \/ \E rows : deciding' = [pc |-> IF k = "oracle" THEN "approve" ELSE "freeze",
                                 left |-> rows]
    BY <1>12 DEF RouteDecision
  <2>2. deciding' # Idle /\ deciding'.pc = "freeze" => k = "golden"
    BY <2>1 DEF Kinds
  <2> QED BY <1>12, <2>2 DEF RouteDecision, OracleShapes, FreezesAreAnswered
<1>13. ASSUME NEW c \in Consumers, Dispatch(c)
       PROVE  OracleInv'
  BY <1>1, <1>13 DEF Dispatch
<1> QED BY <1>3, <1>4, <1>5, <1>6, <1>7, <1>8, <1>9, <1>10, <1>11, <1>12, <1>13 DEF OracleNext

\* The rows keep their form, and goldens freeze after a person's answer only: an
\* answer stands behind every freeze that is under way or on its way.
THEOREM OracleInvariant == OracleSpec => []OracleInv
<1>1. OracleInit => OracleInv
  BY DEF OracleInit, OracleInv, OracleShapes, IsOracle, FreezesAreAnswered
<1>2. OracleInv /\ [OracleNext]_oracleVars => OracleInv'
  <2>1. OracleInv /\ UNCHANGED oracleVars => OracleInv'
    BY DEF OracleInv, OracleShapes, FreezesAreAnswered, oracleVars
  <2> QED BY <2>1, OracleStep
<1> QED BY <1>1, <1>2, PTL DEF OracleSpec

\* A frozen golden was signed off (api/oracle.route.ts).
THEOREM FrozenAfterSignOff == OracleSpec => []FrozenIsSignedOff
  BY OracleInvariant, PTL DEF OracleInv, FreezesAreAnswered, FrozenIsSignedOff

-----------------------------------------------------------------------------
(* OracleApproval: what is ready gets dispatched.  The decomposition        *)
(* consumer plans at the end of its handler, and has a plan only then.      *)

Waits == persisting.pc \in {"graph", "draft", "ask", "dispatch"}
PersistShape == "pc" \in DOMAIN persisting /\ persisting = [x \in DOMAIN persisting |-> persisting[x]]
PlanShape == plan = [c \in Consumers |-> plan[c]]
OnlyDispatching == plan["decomposition"] # {} => persisting.pc = "dispatching"
ReadyInv == PersistShape /\ PlanShape /\ OnlyDispatching /\ ReadyIsOnItsWay

\* A step by which no package becomes ready, and that loses no event and no plan.
LEMMA NoneMore ==
  ASSUME ReadyInv, UNCHANGED <<persisting, plan>>, events \subseteq events',
         \A q \in ReadyNow' : q \in ReadyNow
  PROVE  ReadyInv'
  BY DEF ReadyInv, PersistShape, PlanShape, OnlyDispatching, ReadyIsOnItsWay

\* A step after which the decomposition consumer has still to plan.
LEMMA StillToPlan ==
  ASSUME PersistShape', PlanShape', plan'["decomposition"] = {}, Waits'
  PROVE  ReadyInv'
  BY DEF ReadyInv, OnlyDispatching, ReadyIsOnItsWay, Waits

\* A step in which a consumer plans anew.
LEMMA Planned ==
  ASSUME ReadyInv, NEW c \in Consumers, plan' = [plan EXCEPT ![c] = ReadyNow],
         UNCHANGED <<packages, dispatched, oracles>>, PersistShape', OnlyDispatching'
  PROVE  ReadyInv'
<1>1. ReadyNow' = ReadyNow
  BY DEF ReadyNow, Satisfied
<1>2. plan'[c] = ReadyNow /\ PlanShape'
  BY DEF ReadyInv, PlanShape
<1> QED BY <1>1, <1>2 DEF ReadyInv, ReadyIsOnItsWay

\* An approval puts its event into the outbox.
LEMMA ApprovalTells ==
  ASSUME ReadyInv, NEW s \in Stories, Approve(s), UNCHANGED <<packages, dispatched, persisting, plan>>
  PROVE  ReadyInv'
<1>1. CASE UNCHANGED <<oracles, events>>
  <2>1. ReadyNow' = ReadyNow
    BY <1>1 DEF ReadyNow, Satisfied
  <2> QED BY <1>1, <2>1, NoneMore
<1>2. CASE events' = EventOf(s)
  <2>1. events' # {}
    BY <1>2 DEF EventOf
  <2> QED BY <2>1 DEF ReadyInv, PersistShape, PlanShape, OnlyDispatching, ReadyIsOnItsWay
<1> QED BY <1>1, <1>2 DEF Approve

LEMMA ReadyStep ==
  ASSUME OracleInv, ReadyInv, OracleNext
  PROVE  ReadyInv'
<1> USE DEF ReadyInv
<1>1. ASSUME UNCHANGED <<packages, dispatched, oracles, events, persisting, plan>> PROVE ReadyInv'
  <2>1. ReadyNow' = ReadyNow
    BY <1>1 DEF ReadyNow, Satisfied
  <2> QED BY <1>1, <2>1, NoneMore
<1>2. CASE Emitted
  <2>1. plan["decomposition"] = {} /\ UNCHANGED plan
    BY <1>2 DEF Emitted, OnlyDispatching, Idle
  <2>2. PICK g \in Incoming : persisting' = [pc |-> "graph", graph |-> g]
    BY <1>2 DEF Emitted
  <2> QED BY <2>1, <2>2, StillToPlan DEF PersistShape, PlanShape, Waits
<1>3. CASE UpsertGraph
  <2>1. plan["decomposition"] = {} /\ UNCHANGED plan
    BY <1>3 DEF UpsertGraph, OnlyDispatching
  <2>2. persisting' = [pc |-> "draft", graph |-> persisting.graph, left |-> DOMAIN persisting.graph]
    BY <1>3 DEF UpsertGraph
  <2> QED BY <2>1, <2>2, StillToPlan DEF PersistShape, PlanShape, Waits
<1>4. ASSUME NEW s \in Stories, UpsertDraft(s) PROVE ReadyInv'
  <2>1. plan["decomposition"] = {} /\ UNCHANGED plan
    BY <1>4 DEF UpsertDraft, OnlyDispatching
  <2>2. \/ persisting' = [pc |-> "ask", graph |-> persisting.graph]
        \/ persisting' = [persisting EXCEPT !.left = @ \ {s}]
    BY <1>4 DEF UpsertDraft
  <2>3. PersistShape' /\ Waits'
    BY <1>4, <2>2 DEF UpsertDraft, PersistShape, Waits
  <2> QED BY <2>1, <2>3, StillToPlan DEF PlanShape
<1>5. CASE AskOracles
  <2>1. plan["decomposition"] = {} /\ UNCHANGED plan
    BY <1>5 DEF AskOracles, OnlyDispatching
  <2>2. persisting' = [persisting EXCEPT !.pc = "dispatch"]
    BY <1>5 DEF AskOracles
  <2>3. PersistShape' /\ Waits'
    BY <2>2 DEF PersistShape, Waits
  <2> QED BY <2>1, <2>3, StillToPlan DEF PlanShape
<1>6. CASE PlanDecomposed
  <2>1. /\ persisting' = IF ReadyNow = {} THEN Idle ELSE [persisting EXCEPT !.pc = "dispatching"]
        /\ plan' = [plan EXCEPT !["decomposition"] = ReadyNow]
        /\ UNCHANGED <<packages, dispatched, oracles>>
    BY <1>6 DEF PlanDecomposed
  <2>2. PersistShape' /\ (ReadyNow # {} => persisting'.pc = "dispatching")
    BY <2>1 DEF PersistShape, Idle
  <2>3. plan'["decomposition"] = ReadyNow
    BY <2>1 DEF PlanShape, Consumers
  <2>4. OnlyDispatching'
    BY <2>2, <2>3 DEF OnlyDispatching
  <2> QED BY <2>1, <2>2, <2>4, Planned DEF Consumers
<1>7. CASE PersistFails
  <2>1. plan' = [plan EXCEPT !["decomposition"] = {}] /\ persisting' = [pc |-> "graph", graph |-> persisting.graph]
    BY <1>7 DEF PersistFails
  <2>2. plan'["decomposition"] = {} /\ PlanShape' /\ PersistShape' /\ Waits'
    BY <2>1 DEF PlanShape, PersistShape, Waits, Consumers
  <2> QED BY <2>2, StillToPlan
<1>8. CASE HandlingFails
  <2>1. plan' = [plan EXCEPT !["approved"] = ReadyNow] /\ UNCHANGED <<packages, dispatched, oracles, persisting>>
    BY <1>8 DEF HandlingFails
  <2>2. plan'["decomposition"] = plan["decomposition"]
    BY <2>1 DEF PlanShape
  <2> QED BY <2>1, <2>2, Planned DEF PersistShape, OnlyDispatching, Consumers
<1>9. ASSUME NEW s \in Stories, HandleApproved(s) PROVE ReadyInv'
  <2>1. plan' = [plan EXCEPT !["approved"] = ReadyNow] /\ UNCHANGED <<packages, dispatched, oracles, persisting>>
    BY <1>9 DEF HandleApproved
  <2>2. plan'["decomposition"] = plan["decomposition"]
    BY <2>1 DEF PlanShape
  <2> QED BY <2>1, <2>2, Planned DEF PersistShape, OnlyDispatching, Consumers
<1>10. CASE AskGoldens \/ DecisionFails \/ \E k \in Kinds : Decide(k) \/ RouteDecision(k)
  BY <1>1, <1>10 DEF AskGoldens, DecisionFails, Decide, RouteDecision
<1>11. ASSUME NEW s \in Stories, ApproveOne(s) \/ ApproveRow(s) PROVE ReadyInv'
  BY <1>11, ApprovalTells DEF ApproveOne, ApproveRow
<1>12. ASSUME NEW s \in Stories, FreezeRow(s) PROVE ReadyInv'
  <2>1. /\ oracles' = [oracles EXCEPT ![s].golden = "frozen"]
        /\ UNCHANGED <<packages, dispatched, events, persisting, plan>>
    BY <1>12 DEF FreezeRow
  <2>2. ASSUME NEW q
        PROVE  \/ oracles'[q].status = oracles[q].status /\ oracles'[q].covers = oracles[q].covers
               \/ oracles'[q] = oracles[q]
    BY <2>1 DEF OracleInv, OracleShapes, IsOracle
  <2>3. \A q \in ReadyNow' : q \in ReadyNow
    BY <2>1, <2>2 DEF ReadyNow, Satisfied
  <2> QED BY <2>1, <2>3, NoneMore
<1>13. ASSUME NEW s \in Stories, NEW covers \in Seeds, NEW golden, Seed(s, covers, golden) PROVE ReadyInv'
  <2> PICK o : o = [status |-> "pending", covers |-> covers, golden |-> Seeded(golden)]
    OBVIOUS
  <2>1. oracles' = [oracles EXCEPT ![s] = o] /\ UNCHANGED <<packages, dispatched, events, persisting, plan>>
    BY <1>13 DEF Seed
  <2>2. ASSUME NEW q PROVE oracles'[q].status = "pending" \/ oracles'[q] = oracles[q]
    BY <2>1 DEF OracleInv, OracleShapes
  <2>3. \A q \in ReadyNow' : q \in ReadyNow
    BY <2>1, <2>2 DEF ReadyNow, Satisfied
  <2> QED BY <2>1, <2>3, NoneMore
<1>14. ASSUME NEW c \in Consumers, Dispatch(c) PROVE ReadyInv'
  <2>1. PICK t \in plan[c] : dispatched' = dispatched \cup {t} /\ plan' = [plan EXCEPT ![c] = @ \ {t}]
    BY <1>14 DEF Dispatch
  <2>2. /\ persisting' = IF c = "decomposition" /\ plan'[c] = {} THEN Idle ELSE persisting
        /\ UNCHANGED <<packages, oracles, events>>
    BY <1>14 DEF Dispatch
  <2>3. PlanShape' /\ plan'[c] = plan[c] \ {t} /\ \A d \in Consumers \ {c} : plan'[d] = plan[d]
    BY <2>1 DEF PlanShape
  <2>4. PersistShape'
    BY <2>2 DEF PersistShape, Idle
  <2>5. OnlyDispatching'
    BY <2>1, <2>2, <2>3 DEF OnlyDispatching, Consumers
  <2>6. Waits => Waits'
    BY <2>1, <2>2 DEF OnlyDispatching, Waits
  <2>7. \A q \in ReadyNow' : q \in ReadyNow /\ q # t
    BY <2>1, <2>2 DEF ReadyNow, Satisfied
  <2> QED BY <2>2, <2>3, <2>4, <2>5, <2>6, <2>7 DEF ReadyIsOnItsWay, Waits
<1> QED BY <1>2, <1>3, <1>4, <1>5, <1>6, <1>7, <1>8, <1>9, <1>10, <1>11, <1>12, <1>13, <1>14 DEF OracleNext

\* A ready package is on its way, for any number of stories, decompositions,
\* approvals, seeds and failures: the transaction of an approval leaves an event,
\* and whoever takes an event or a decomposition plans with what is ready then
\* (db/oracle.repo.ts, oracle-consumer.ts, decomposition-consumer.ts).
THEOREM ReadyGoesOut == OracleSpec => []ReadyIsOnItsWay
<1>1. OracleInit => ReadyInv
  BY DEF OracleInit, ReadyInv, PersistShape, PlanShape, OnlyDispatching, ReadyIsOnItsWay, ReadyNow, Idle, Consumers
<1>2. OracleInv /\ ReadyInv /\ [OracleNext]_oracleVars => ReadyInv'
  <2>1. ReadyInv /\ UNCHANGED oracleVars => ReadyInv'
    BY DEF ReadyInv, PersistShape, PlanShape, OnlyDispatching, ReadyIsOnItsWay, ReadyNow, Satisfied, oracleVars
  <2> QED BY <2>1, ReadyStep
<1>3. ReadyInv => ReadyIsOnItsWay
  BY DEF ReadyInv
<1> QED BY <1>1, <1>2, <1>3, OracleInvariant, PTL DEF OracleSpec
=================================================================================
