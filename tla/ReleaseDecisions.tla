-------------------------- MODULE ReleaseDecisions --------------------------
(***************************************************************************)
(* From a blocked release gate to a deployment, in the Manager:            *)
(*   - recordGate writes the gate and its event into the outbox            *)
(*     (db/release-gate.repo.ts), OutboxRelay publishes it                 *)
(*     (streams/outbox-relay.ts);                                          *)
(*   - ReleaseSignoffConsumer asks a person (release-consumer.ts,          *)
(*     signoff-brief.ts), DecisionSweeper expires an unanswered request    *)
(*     and DecisionExpiredConsumer asks again, a bounded number of times;  *)
(*   - the person answers (api/decision.route.ts, db/decision.repo.ts) and *)
(*     DecisionRecordedConsumer turns accept_known into a sign-off;        *)
(*   - deploy_project asks ReleaseDeployGate (tools/deploy-gate.ts) before *)
(*     it pushes; the push itself is in GitPushes.                         *)
(*                                                                         *)
(* One project with one workflow.  A gate is its place in the order of     *)
(* created_at.  The three consumers never throw: what fails in a handler   *)
(* is logged and not tried again (StreamConsumer has the delivery).        *)
(***************************************************************************)
EXTENDS Integers, Sequences, FiniteSets, SequencesExt

CONSTANTS
  MaxGates,   \* bound on evaluations of the gate
  MaxReesc,   \* maxReescalations
  MaxFaults   \* bound on failing queries and commands

ASSUME ReleaseAssumption == MaxGates \in Nat /\ MaxReesc \in Nat /\ MaxFaults \in Nat

VARIABLES
  gates,      \* release_gates: "passed" or "blocked", oldest first
  outbox,     \* manager_outbox: the rows, each an event and whether it was published
  batch,      \* OutboxRelay.pollOnce: the ids of the rows left to it, least first
  sent,       \* ... and whether the first of them was published but not yet marked
  inbox,      \* published events that no consumer has taken
  handled,    \* markers of the consumers: events that were handled
  status,     \* decision_requests.status; "none" is no row
  due,        \* requests whose expires_at has passed
  swept,      \* handleDecisionSweep: the ids it has read
  decisions,  \* human_decisions
  signOffs,   \* sign_offs: the requests whose decision was signed off
  allowed,    \* ghost: the gates under which a deployment was allowed
  faults      \* failures so far (bounded by MaxFaults)

asking == <<status, due, swept, decisions, signOffs>>
relaying == <<outbox, batch, sent>>
releaseVars == <<gates, relaying, inbox, handled, asking, allowed, faults>>

\* A request about gate g; n counts the re-escalations: the suffix :reescN.
Requests == [gate : 1..MaxGates, n : 0..MaxReesc]
Answers == {"accept_known", "reject"}
Events ==
  [type : {"blocked"}, gate : 1..MaxGates]
  \cup [type : {"expired"}, of : Requests]
  \cup [type : {"recorded"}, of : Requests, choice : Answers]

ReleaseTypeOK ==
  /\ gates \in BoundedSeq({"passed", "blocked"}, MaxGates)
  /\ \A i \in DOMAIN outbox : outbox[i].event \in Events /\ outbox[i].published \in BOOLEAN
  /\ batch \subseteq DOMAIN outbox /\ sent \in BOOLEAN
  /\ inbox \subseteq Events /\ handled \subseteq Events /\ inbox \cap handled = {}
  /\ status \in [Requests -> {"none", "PENDING", "RESOLVED", "EXPIRED"}]
  /\ due \subseteq Requests /\ swept \subseteq Requests
  /\ decisions \subseteq [of : Requests, choice : Answers] /\ signOffs \subseteq Requests
  /\ allowed \subseteq DOMAIN gates
  /\ faults \in 0..MaxFaults

ReleaseInit ==
  /\ gates = <<>> /\ outbox = <<>> /\ batch = {} /\ sent = FALSE
  /\ inbox = {} /\ handled = {}
  /\ status = [r \in Requests |-> "none"] /\ due = {} /\ swept = {}
  /\ decisions = {} /\ signOffs = {}
  /\ allowed = {}
  /\ faults = 0

Fails == faults < MaxFaults /\ faults' = faults + 1

-----------------------------------------------------------------------------
(* The outbox.                                                             *)

\* The event and the state it reports are written in one transaction.
Emit(event) == outbox' = Append(outbox, [event |-> event, published |-> FALSE])

\* recordGate; nobody listens to gate.passed.
RecordGate(result) ==
  /\ Len(gates) < MaxGates
  /\ gates' = Append(gates, result)
  /\ IF result = "blocked" THEN Emit([type |-> "blocked", gate |-> Len(gates')])
                           ELSE UNCHANGED outbox
  /\ UNCHANGED <<batch, sent, inbox, handled, asking, allowed, faults>>

Unpublished == {i \in DOMAIN outbox : ~outbox[i].published}

\* The guard polling: a poll begins when the one before it has ended.
RelayPolls ==
  /\ batch = {} /\ Unpublished # {}
  /\ batch' = Unpublished
  /\ UNCHANGED <<gates, outbox, sent, inbox, handled, asking, allowed, faults>>

\* ORDER BY id
IsFirst(i) == i \in batch /\ \A j \in batch : i <= j

\* A copy of what was handled is dropped by the consumer's marker.
Delivered(event) == {event} \ handled

RelayPublishes ==
  /\ ~sent /\ sent' = TRUE
  /\ \E i \in batch : IsFirst(i) /\ inbox' = inbox \cup Delivered(outbox[i].event)
  /\ UNCHANGED <<gates, outbox, batch, handled, asking, allowed, faults>>

RelayMarks ==
  /\ sent /\ sent' = FALSE
  /\ \E i \in batch : /\ IsFirst(i) /\ batch' = batch \ {i}
                    /\ outbox' = [outbox EXCEPT ![i].published = TRUE]
  /\ UNCHANGED <<gates, inbox, handled, asking, allowed, faults>>

\* Publishing or marking fails: the row stays, the next one is tried.
RelayRowFails ==
  /\ Fails /\ sent' = FALSE
  /\ \E i \in batch : IsFirst(i) /\ batch' = batch \ {i}
  /\ UNCHANGED <<gates, outbox, inbox, handled, asking, allowed>>

\* The Manager dies, or the query in the catch throws out of pollOnce.
RelayDies ==
  /\ batch # {} /\ Fails
  /\ sent' = FALSE /\ batch' = {}
  /\ UNCHANGED <<gates, outbox, inbox, handled, asking, allowed>>

-----------------------------------------------------------------------------
(* Requests and their answers.                                             *)

\* createRequest: a known id is left alone.
CreateRequest(r) ==
  status' = IF status[r] = "none" THEN [status EXCEPT ![r] = "PENDING"] ELSE status

Take(event) ==
  /\ event \in inbox /\ inbox' = inbox \ {event} /\ handled' = handled \cup {event}

\* A handler that fails has logged it and is done with the event.
HandlerFails(event) ==
  /\ Take(event) /\ Fails
  /\ UNCHANGED <<gates, relaying, asking, allowed>>

\* makeSignoffBrief
HandleBlocked(event) ==
  /\ event.type = "blocked" /\ Take(event)
  /\ CreateRequest([gate |-> event.gate, n |-> 0])
  /\ UNCHANGED <<gates, relaying, due, swept, decisions, signOffs, allowed, faults>>

\* expires_at lies in the past.
BecomesDue(r) ==
  /\ status[r] = "PENDING" /\ r \notin due /\ due' = due \cup {r}
  /\ UNCHANGED <<gates, relaying, inbox, handled, status, swept, decisions, signOffs, allowed,
                 faults>>

\* expiredPendingRequests
SweepReads ==
  /\ swept = {} /\ swept' = {r \in due : status[r] = "PENDING"} /\ swept' # {}
  /\ UNCHANGED <<gates, relaying, inbox, handled, status, due, decisions, signOffs, allowed, faults>>

ExpirableAlways(r) == TRUE  \* mutant
\* FOR UPDATE in transition: a request that was answered meanwhile is skipped.
Expirable(r) == status[r] = "PENDING"

ExpireRequest(r) ==
  /\ r \in swept /\ swept' = swept \ {r}
  /\ IF Expirable(r)
     THEN /\ status' = [status EXCEPT ![r] = "EXPIRED"]
          /\ Emit([type |-> "expired", of |-> r])
     ELSE UNCHANGED <<status, outbox>>
  /\ UNCHANGED <<gates, batch, sent, inbox, handled, due, decisions, signOffs, allowed, faults>>

ExpireFails(r) ==
  /\ r \in swept /\ swept' = swept \ {r} /\ Fails
  /\ UNCHANGED <<gates, relaying, inbox, handled, status, due, decisions, signOffs, allowed>>

AsksAgainTooFew(r) == r.n + 1 < MaxReesc  \* mutant
\* depth < maxReescalations; otherwise it has been asked often enough.
AsksAgain(r) == r.n < MaxReesc

HandleExpired(event) ==
  /\ event.type = "expired" /\ Take(event)
  /\ IF AsksAgain(event.of) THEN CreateRequest([event.of EXCEPT !.n = @ + 1]) ELSE UNCHANGED status
  /\ UNCHANGED <<gates, relaying, due, swept, decisions, signOffs, allowed, faults>>

\* The route and recordDecision: of two answers the row lock takes the first.
RecordDecision(r, choice) ==
  /\ status[r] = "PENDING"
  /\ status' = [status EXCEPT ![r] = "RESOLVED"]
  /\ decisions' = decisions \cup {[of |-> r, choice |-> choice]}
  /\ Emit([type |-> "recorded", of |-> r, choice |-> choice])
  /\ UNCHANGED <<gates, batch, sent, inbox, handled, due, swept, signOffs, allowed, faults>>

SignsOffAny(event) == TRUE  \* mutant
SignsOff(event) == event.choice = "accept_known"

\* buildDecisionRecordedHandler for a degraded_release: any other choice that
\* the route lets through does nothing there, as reject.
HandleRecorded(event) ==
  /\ event.type = "recorded" /\ Take(event)
  /\ signOffs' = IF SignsOff(event) THEN signOffs \cup {event.of} ELSE signOffs
  /\ UNCHANGED <<gates, relaying, status, due, swept, decisions, allowed, faults>>

-----------------------------------------------------------------------------
(* deploy_project asks first.                                              *)

\* latestGateByProject, hasApprovedReleaseSignoff and evaluateDeployGate with
\* strict, the default: without a gate, or when a query fails, it refuses.
Allowed ==
  /\ gates # <<>>
  /\ Last(gates) = "passed" \/ signOffs # {}

CheckDeploy ==
  /\ Allowed /\ allowed' = allowed \cup {Len(gates)}
  /\ UNCHANGED <<gates, relaying, inbox, handled, asking, faults>>

-----------------------------------------------------------------------------
Relay == RelayPolls \/ RelayPublishes \/ RelayMarks
Handle(event) == HandleBlocked(event) \/ HandleExpired(event) \/ HandleRecorded(event)

ReleaseNext ==
  \/ \E result \in {"passed", "blocked"} : RecordGate(result)
  \/ Relay \/ RelayRowFails \/ RelayDies
  \/ \E event \in inbox : Handle(event) \/ HandlerFails(event)
  \/ \E r \in Requests :
       \/ BecomesDue(r) \/ ExpireRequest(r) \/ ExpireFails(r)
       \/ \E choice \in Answers : RecordDecision(r, choice)
  \/ SweepReads \/ CheckDeploy

\* The relay and the sweeper are timers, the consumers loop, and a request has
\* a TTL.  Nobody has to answer or to deploy.
ReleaseFairness ==
  /\ WF_releaseVars(Relay) /\ WF_releaseVars(SweepReads)
  /\ WF_releaseVars(\E event \in inbox : Handle(event))
  /\ \A r \in Requests : WF_releaseVars(BecomesDue(r)) /\ WF_releaseVars(ExpireRequest(r))

ReleaseSpec == ReleaseInit /\ [][ReleaseNext]_releaseVars /\ ReleaseFairness

-----------------------------------------------------------------------------
(* Properties.                                                             *)

\* A request is answered or expires, never both, and is answered once: the
\* sweeper works from a list that an answer may have overtaken, two people may
\* answer at once, and asking again about what was decided would let a second
\* answer contradict the first (decision.repo.ts).
OneFate ==
  /\ \A r \in Requests :
       Cardinality({x \in decisions : x.of = r}) = (IF status[r] = "RESOLVED" THEN 1 ELSE 0)
  /\ \A r \in Requests : (r.n > 0 /\ status[r] # "none") =>
       status[[r EXCEPT !.n = @ - 1]] = "EXPIRED"

\* A deployment is allowed under a gate that passed, or after a person accepted
\* a blocked gate of the workflow, whatever the relay, the consumers and the
\* sweeper did in between (deploy-gate.ts).
AllowedIsAnswered ==
  \A g \in allowed :
    \/ gates[g] = "passed"
    \/ \E x \in decisions : x.choice = "accept_known" /\ gates[x.of.gate] = "blocked"

\* A handler about gate g failed: it asked no question and will not be called again.
Dropped(g) ==
  /\ faults > 0
  /\ \/ [type |-> "blocked", gate |-> g] \in handled /\ status[[gate |-> g, n |-> 0]] = "none"
     \/ \E n \in 0..MaxReesc - 1 :
          /\ [type |-> "expired", of |-> [gate |-> g, n |-> n]] \in handled
          /\ status[[gate |-> g, n |-> n + 1]] = "none"

\* A blocked gate is asked about until somebody answers or the last
\* re-escalation has expired, however often the relay dies, unless a handler
\* fails, which nobody tries again (release-consumer.ts).
QuestionEnds ==
  \A g \in 1..MaxGates :
    (g \in DOMAIN gates /\ gates[g] = "blocked") ~>
      \/ \E n \in 0..MaxReesc : status[[gate |-> g, n |-> n]] = "RESOLVED"
      \/ status[[gate |-> g, n |-> MaxReesc]] = "EXPIRED"
      \/ Dropped(g)
=============================================================================
