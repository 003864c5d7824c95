------------------------ MODULE TaskDispatchProofs ------------------------
(***************************************************************************)
(* TaskDispatch, for every set of packages, dependency relation, number of *)
(* planners and sweepers, attempt limit and number of faults.              *)
(*                                                                         *)
(* The argument: every step is quiet, or it appends one row to the log of  *)
(* one package, in step with its lease (LogStep).  That every write of the *)
(* log is such a step is where the guards of the code matter; the rest is  *)
(* a fact about LogStep alone.                                             *)
(***************************************************************************)
EXTENDS TaskDispatch, TLAPS

\* The lease status that goes with a logged state.
StatusFor(state) == CASE state = "DRAFTED"    -> "none"
                      [] state = "DISPATCHED" -> "active"
                      [] state = "ESCALATED"  -> "escalated"
                      [] state = "DONE"       -> "released"

\* A package on a plan may be dispatched, however old the plan is.
PlansAreSafe ==
  \A p \in Planners : \A w \in planner[p].plan : w \in Oracled /\ Deps[w] \subseteq DoneSet

\* What a sweep has read is never ahead of the lease.
SweepsAreBehind ==
  \A s \in Sweepers : \A t \in sweep[s] : t.attempt <= leases[t.wp].attempt

\* The lease carries the attempt of the last dispatch.
LeaseHasLastAttempt ==
  \A w \in Wps : \A i \in 1..Len(log[w]) :
    log[w][i].to = "DISPATCHED" => log[w][i].attempt <= leases[w].attempt

\* Attempts start at 0.
NoLeaseNoAttempt == \A w \in Wps : leases[w].status = "none" => leases[w].attempt = 0

LogInv == LeaseMatchesLog /\ LogIsChain /\ DispatchedAfterDeps
            /\ LeaseHasLastAttempt /\ NoLeaseNoAttempt /\ AttemptsNeverReused

IInv == TypeOK /\ LogInv /\ PlansAreSafe /\ SweepsAreBehind

\* Row [from, to, n] is appended for package w.
LogRow(w, from, to, n) ==
  /\ from = Latest(w)
  /\ <<from, to>> \in WpTransitions
  /\ log' = [log EXCEPT ![w] = Append(@, [from |-> from, to |-> to, attempt |-> n])]
  /\ leases'[w].status = StatusFor(to)
  /\ \A v \in Wps \ {w} : leases'[v].status = leases[v].status
                          /\ leases'[v].attempt = leases[v].attempt
  /\ IF to = "DISPATCHED"
     THEN /\ n = leases'[w].attempt
          /\ IF from = "DRAFTED" THEN n = 0 ELSE n = leases[w].attempt + 1
     ELSE leases'[w].attempt = leases[w].attempt
  /\ from = "DRAFTED" => w \in Oracled /\ Deps[w] \subseteq DoneSet
  /\ from = "DISPATCHED" /\ to = "DISPATCHED" => n < MaxAttempts
  /\ to = "ESCALATED" => leases[w].attempt + 1 >= MaxAttempts

LogStep == \E w \in Wps, from \in WpStates, to \in WpStates \ {"DRAFTED"}, n \in Nat :
             LogRow(w, from, to, n)

QuietStep == /\ log' = log
             /\ \A w \in Wps : leases'[w].status = leases[w].status
                               /\ leases'[w].attempt = leases[w].attempt

-----------------------------------------------------------------------------
(* Type correctness. *)

LEMMA ActiveLeaseType == ASSUME NEW n \in Nat PROVE ActiveLease(n) \in Leases
BY DEF ActiveLease, Leases, LeaseStatus

LEMMA TicketType == ASSUME NEW w \in Wps, NEW n \in Nat PROVE Ticket(w, n) \in Tickets
BY DEF Ticket, Tickets

LEMMA LoopingType ==
  ASSUME NEW items \in SUBSET Wps
  PROVE  Looping(items) \in [pc : {"idle", "start", "loop"}, plan : SUBSET Wps]
BY DEF Looping, Idle

\* A row appended by appendWpEvent keeps the log well typed.
LEMMA AppendType ==
  ASSUME TypeOK, NEW w \in Wps, NEW from \in WpStates, NEW to, NEW n \in Nat,
         AppendWpEvent(w, from, to, n)
  PROVE  log' \in [Wps -> Seq(Entries)]
<1>1. to \in WpStates \ {"DRAFTED"}
  BY DEF AppendWpEvent, WpTransitions, WpStates
<1>2. [from |-> from, to |-> to, attempt |-> n] \in Entries
  BY <1>1 DEF Entries
<1> QED BY <1>2 DEF AppendWpEvent, TypeOK

\* Initially everything has its type.
LEMMA InitType == Init => TypeOK
BY DispatchAssumption
   DEF Init, TypeOK, NoLease, Leases, LeaseStatus, Called, Idle, NoTicket, Tickets

\* A job in hand is a ticket.
LEMMA JobType ==
  ASSUME TypeOK
  PROVE  /\ worker.busy => worker.job \in Tickets
         /\ completer.busy => completer.job \in Tickets
<1>1. ASSUME NEW x \in {NoTicket} \cup [busy : {TRUE}, job : Tickets], x.busy
      PROVE  x.job \in Tickets
  <2>1. x # NoTicket BY <1>1 DEF NoTicket
  <2> QED BY <2>1
<1> QED BY <1>1 DEF TypeOK

LEMMA TicketFields ==
  ASSUME NEW t \in Tickets PROVE t.wp \in Wps /\ t.attempt \in Nat
BY DEF Tickets

LEMMA LeaseFields ==
  ASSUME TypeOK, NEW w \in Wps
  PROVE  /\ leases[w] \in Leases /\ leases[w].attempt \in Nat
         /\ leases[w].status \in LeaseStatus
BY DEF TypeOK, Leases

\* Setting the status alone keeps the lease table well typed.
LEMMA LeaseStatusType ==
  ASSUME TypeOK, NEW w \in Wps, NEW x \in LeaseStatus
  PROVE  [leases EXCEPT ![w].status = x] \in [Wps -> Leases]
BY DEF TypeOK, Leases

LEMMA FaultType == ASSUME TypeOK, Fault PROVE faults' \in Nat
BY DEF TypeOK, Fault

\* Planning and dispatching.
LEMMA PlannerType ==
  ASSUME TypeOK, NEW p \in Planners, Trigger(p) \/ PlannerStep(p) \/ AbortDispatch(p)
  PROVE  TypeOK'
<1>1. CASE Trigger(p)
  BY <1>1 DEF Trigger, Called, TypeOK, streams, people
<1>2. CASE ReadPlan(p)
  <2>1. Looping(Plan) \in [pc : {"idle", "start", "loop"}, plan : SUBSET Wps]
    BY LoopingType DEF Plan
  <2> QED BY <1>2, <2>1 DEF ReadPlan, TypeOK, streams, people
<1>3. ASSUME NEW w \in Wps, RecordDispatch(p, w) PROVE TypeOK'
  <2>1. planner' \in [Planners -> [pc : {"idle", "start", "loop"}, plan : SUBSET Wps]]
    <3>1. planner[p].plan \ {w} \in SUBSET Wps
      BY DEF TypeOK
    <3>2. Looping(planner[p].plan \ {w}) \in [pc : {"idle", "start", "loop"}, plan : SUBSET Wps]
      BY <3>1, LoopingType
    <3>3. Idle \in [pc : {"idle", "start", "loop"}, plan : SUBSET Wps]
      BY DEF Idle
    <3> QED BY <1>3, <3>2, <3>3 DEF RecordDispatch, TypeOK
  <2>2. log' \in [Wps -> Seq(Entries)]
    <3>1. CASE AppendWpEvent(w, "DRAFTED", "DISPATCHED", 0)
      BY <3>1, AppendType DEF WpStates
    <3>2. CASE log' = log
      BY <3>2 DEF TypeOK
    <3> QED BY <1>3, <3>1, <3>2 DEF RecordDispatch
  <2>3. leases' \in [Wps -> Leases]
    BY <1>3, ActiveLeaseType DEF RecordDispatch, TypeOK
  <2>4. signals' \subseteq Tickets /\ faults' \in Nat
    BY <1>3, TicketType DEF RecordDispatch, Fault, TypeOK
  <2> QED BY <1>3, <2>1, <2>2, <2>3, <2>4 DEF RecordDispatch, TypeOK, people
<1>4. CASE AbortDispatch(p)
  BY <1>4, FaultType DEF AbortDispatch, Idle, TypeOK, streams, people
<1> QED BY <1>1, <1>2, <1>3, <1>4 DEF PlannerStep

LEMMA WorkerType ==
  ASSUME TypeOK, WorkerStep \/ Heartbeat
  PROVE  TypeOK'
<1>1. ASSUME NEW t \in signals, TakeSignal(t) PROVE TypeOK'
  <2>1. t \in Tickets BY DEF TypeOK
  <2> QED BY <1>1, <2>1 DEF TakeSignal, Working, TypeOK, people
<1>2. CASE WorkerSucceeds
  BY <1>2, JobType DEF WorkerSucceeds, TypeOK, people
<1>3. CASE WorkerFails
  BY <1>3 DEF WorkerFails, TypeOK, streams, people
<1>4. CASE Heartbeat
  <2>1. leases' \in [Wps -> Leases]
    BY <1>4, JobType, TicketFields, LeaseFields DEF Heartbeat, TypeOK, Leases
  <2> QED BY <1>4, <2>1 DEF Heartbeat, TypeOK, streams, people
<1> QED BY <1>1, <1>2, <1>3, <1>4 DEF WorkerStep

LEMMA CompleterType ==
  ASSUME TypeOK, CompleterStep \/ LoseCompletion
  PROVE  TypeOK'
<1>1. ASSUME NEW t \in completions, TakeCompletion(t) PROVE TypeOK'
  <2>1. t \in Tickets BY DEF TypeOK
  <2>2. Ticket(t.wp, leases[t.wp].attempt) \in Tickets
    BY <2>1, TicketFields, LeaseFields, TicketType
  <2> QED BY <1>1, <2>2 DEF TakeCompletion, Working, TypeOK, people
<1>2. CASE RecordCompletion
  <2> DEFINE t == completer.job
  <2>1. t \in Tickets BY <1>2, JobType DEF RecordCompletion
  <2>2. t.wp \in Wps /\ t.attempt \in Nat BY <2>1, TicketFields
  <2>3. leases' \in [Wps -> Leases]
    BY ZenonT(40), <1>2, <2>2, LeaseStatusType DEF RecordCompletion, TypeOK, LeaseStatus
  <2>4. log' \in [Wps -> Seq(Entries)]
    <3>1. CASE AppendWpEvent(t.wp, "DISPATCHED", "DONE", t.attempt)
      BY <2>2, <3>1, AppendType DEF WpStates
    <3>2. CASE log' = log
      BY <3>2 DEF TypeOK
    <3> QED BY <1>2, <3>1, <3>2 DEF RecordCompletion
  <2>5. planner' \in [Planners -> [pc : {"idle", "start", "loop"}, plan : SUBSET Wps]]
    BY <1>2, DispatchAssumption DEF RecordCompletion, Redispatch, Called, TypeOK
  <2> QED BY <1>2, <2>3, <2>4, <2>5 DEF RecordCompletion, TypeOK, streams, people
<1>3. CASE LoseCompletion
  BY <1>3, FaultType DEF LoseCompletion, TypeOK, streams, people
<1> QED BY <1>1, <1>2, <1>3 DEF CompleterStep

LEMMA SweepType ==
  ASSUME TypeOK, NEW s \in Sweepers, SweepStep(s) \/ AbortSweep(s)
  PROVE  TypeOK'
<1>1. CASE ReadExpired(s)
  <2>1. Expired \subseteq Tickets
    BY LeaseFields, TicketType DEF Expired
  <2> QED BY <1>1, <2>1 DEF ReadExpired, TypeOK, streams, people
<1>2. ASSUME NEW t \in sweep[s], Reclaim(s, t) PROVE TypeOK'
  <2>1. t \in Tickets /\ t.wp \in Wps /\ t.attempt \in Nat /\ t.attempt + 1 \in Nat
    BY TicketFields DEF TypeOK
  <2>2. leases' \in [Wps -> Leases]
    BY <1>2, <2>1, ActiveLeaseType DEF Reclaim, TypeOK
  <2>3. log' \in [Wps -> Seq(Entries)]
    <3>1. CASE AppendWpEvent(t.wp, "DISPATCHED", "DISPATCHED", t.attempt + 1)
      BY <2>1, <3>1, AppendType DEF WpStates
    <3>2. CASE log' = log
      BY <3>2 DEF TypeOK
    <3> QED BY <1>2, <3>1, <3>2 DEF Reclaim
  <2>4. signals' \subseteq Tickets
    BY <1>2, <2>1, TicketType DEF Reclaim, TypeOK
  <2>5. sweep' \in [Sweepers -> SUBSET Tickets]
    BY ZenonT(40), <1>2, <2>1 DEF Reclaim, SweepDone, SweepEnds, TypeOK
  <2>6. faults' \in Nat
    BY <1>2, FaultType DEF Reclaim, TypeOK
  <2> QED BY <1>2, <2>2, <2>3, <2>4, <2>5, <2>6 DEF Reclaim, TypeOK, people
<1>3. ASSUME NEW t \in sweep[s], Escalate(s, t) PROVE TypeOK'
  <2>1. t \in Tickets /\ t.wp \in Wps /\ t.attempt \in Nat
    BY TicketFields DEF TypeOK
  <2>2. leases' \in [Wps -> Leases]
    <3>1. \/ leases' = [leases EXCEPT ![t.wp].status = "escalated"]
          \/ leases' = leases
      BY <1>3 DEF Escalate
    <3>2. [leases EXCEPT ![t.wp].status = "escalated"] \in [Wps -> Leases]
      BY <2>1, LeaseStatusType DEF LeaseStatus
    <3> QED BY <3>1, <3>2 DEF TypeOK
  <2>3. log' \in [Wps -> Seq(Entries)]
    <3>1. CASE EscalatedEvent(t)
      BY <2>1, <3>1, AppendType DEF EscalatedEvent, WpStates
    <3>2. CASE log' = log
      BY <3>2 DEF TypeOK
    <3> QED BY <1>3, <3>1, <3>2 DEF Escalate
  <2>4. sweep' \in [Sweepers -> SUBSET Tickets] /\ faults' \in Nat
    BY <1>3, <2>1 DEF Escalate, SweepDone, Fault, TypeOK
  <2>5. requested' \subseteq Tickets /\ briefs' \subseteq requested'
    BY <1>3, <2>1 DEF Escalate, TypeOK
  <2> QED BY <1>3, <2>2, <2>3, <2>4, <2>5 DEF Escalate, TypeOK, streams
<1>4. CASE AbortSweep(s)
  BY <1>4, FaultType DEF AbortSweep, SweepEnds, TypeOK, streams, people
<1> QED BY <1>1, <1>2, <1>3, <1>4 DEF SweepStep

LEMMA PeopleType ==
  ASSUME TypeOK, PersonStep \/ RouteStep \/ \E w \in Wps : Expire(w)
  PROVE  TypeOK'
<1>1. ASSUME NEW t \in briefs, ChooseFix(t) PROVE TypeOK'
  BY <1>1 DEF ChooseFix, TypeOK, streams
<1>2. ASSUME NEW t \in briefs, ChooseOther(t) PROVE TypeOK'
  BY <1>2 DEF ChooseOther, TypeOK, streams
<1>3. ASSUME NEW t \in decisions, RouteFix(t) PROVE TypeOK'
  <2> DEFINE n == ReopenAttempt(t.wp)
  <2>1. t.wp \in Wps /\ n \in Nat
    <3>1. t.wp \in Wps BY TicketFields DEF TypeOK
    <3> QED BY <3>1, LeaseFields DEF ReopenAttempt
  <2>2. leases' \in [Wps -> Leases]
    BY <1>3, <2>1, ActiveLeaseType DEF RouteFix, TypeOK
  <2>3. log' \in [Wps -> Seq(Entries)]
    <3>1. CASE AppendWpEvent(t.wp, "ESCALATED", "DISPATCHED", n)
      BY <2>1, <3>1, AppendType DEF WpStates
    <3>2. CASE log' = log
      BY <3>2 DEF TypeOK
    <3> QED BY <1>3, <3>1, <3>2 DEF RouteFix
  <2>4. signals' \subseteq Tickets /\ faults' \in Nat
    BY <1>3, <2>1, TicketType DEF RouteFix, Fault, TypeOK
  <2> QED BY <1>3, <2>2, <2>3, <2>4 DEF RouteFix, TypeOK
<1>4. ASSUME NEW w \in Wps, Expire(w) PROVE TypeOK'
  <2>1. leases' \in [Wps -> Leases]
    BY ZenonT(40), <1>4, LeaseFields DEF Expire, TypeOK, Leases
  <2> QED BY <1>4, <2>1 DEF Expire, TypeOK, streams, people
<1> QED BY <1>1, <1>2, <1>3, <1>4 DEF PersonStep, RouteStep

LEMMA NextType == ASSUME TypeOK, [Next]_vars PROVE TypeOK'
<1>1. CASE Next
  BY <1>1, PlannerType, WorkerType, CompleterType, SweepType, PeopleType DEF Next
<1>2. CASE UNCHANGED vars
  BY <1>2 DEF vars, streams, people, TypeOK
<1> QED BY <1>1, <1>2

\* Every variable keeps its type, whatever the constants are.
THEOREM TypeCorrect == Spec => []TypeOK
BY InitType, NextType, PTL DEF Spec

-----------------------------------------------------------------------------
(* Every step appends a row in step with the lease, or is quiet. *)

\* A lease status determines the logged state, and the other way round.
LEMMA StatusOfLatest ==
  ASSUME TypeOK, LeaseMatchesLog, NEW w \in Wps
  PROVE  /\ Latest(w) \in WpStates
         /\ leases[w].status = StatusFor(Latest(w))
         /\ leases[w].status = "none" => Latest(w) = "DRAFTED"
         /\ leases[w].status = "active" => Latest(w) = "DISPATCHED"
         /\ leases[w].status = "escalated" => Latest(w) = "ESCALATED"
         /\ leases[w].status = "released" => Latest(w) = "DONE"
BY LeaseFields DEF LeaseMatchesLog, StatusFor, LeaseStatus, WpStates

LEMMA PlannerLogs ==
  ASSUME IInv, NEW p \in Planners, Trigger(p) \/ PlannerStep(p) \/ AbortDispatch(p)
  PROVE  LogStep \/ QuietStep
<1>1. CASE Trigger(p) \/ ReadPlan(p) \/ AbortDispatch(p)
  BY <1>1 DEF Trigger, ReadPlan, AbortDispatch, QuietStep
<1>2. ASSUME NEW w \in Wps, RecordDispatch(p, w) PROVE LogStep \/ QuietStep
  <2>1. CASE leases[w].status = "none"
    <3>1. Latest(w) = "DRAFTED"
      BY <2>1, StatusOfLatest DEF IInv, LogInv
    <3>2. w \in Oracled /\ Deps[w] \subseteq DoneSet
      BY <1>2 DEF RecordDispatch, IInv, PlansAreSafe
    <3>3. leases' = [leases EXCEPT ![w] = ActiveLease(0)]
      BY <1>2, <2>1 DEF RecordDispatch
    <3>4. /\ leases'[w].status = "active" /\ leases'[w].attempt = 0
          /\ \A v \in Wps \ {w} : leases'[v] = leases[v]
      BY <3>3 DEF ActiveLease, IInv, TypeOK
    <3>5. AppendWpEvent(w, "DRAFTED", "DISPATCHED", 0)
      BY <1>2, <2>1 DEF RecordDispatch
    <3>6. LogRow(w, "DRAFTED", "DISPATCHED", 0)
      BY <3>1, <3>2, <3>4, <3>5 DEF LogRow, AppendWpEvent, StatusFor
    <3> QED BY <3>6 DEF LogStep, WpStates
  <2>2. CASE leases[w].status # "none"
    BY <1>2, <2>2 DEF RecordDispatch, QuietStep
  <2> QED BY <2>1, <2>2
<1> QED BY <1>1, <1>2 DEF PlannerStep

LEMMA WorkerQuiet ==
  ASSUME IInv, WorkerStep \/ Heartbeat
  PROVE  QuietStep
<1>1. CASE WorkerStep
  BY <1>1 DEF WorkerStep, TakeSignal, WorkerSucceeds, WorkerFails, QuietStep
<1>2. CASE Heartbeat
  BY <1>2, LeaseFields DEF Heartbeat, QuietStep, IInv, TypeOK, Leases
<1> QED BY <1>1, <1>2

LEMMA CompleterLogs ==
  ASSUME IInv, CompleterStep \/ LoseCompletion
  PROVE  LogStep \/ QuietStep
<1>1. CASE (\E t \in completions : TakeCompletion(t)) \/ LoseCompletion
  BY <1>1 DEF TakeCompletion, LoseCompletion, QuietStep
<1>2. CASE RecordCompletion
  <2> DEFINE t == completer.job
  <2>1. t.wp \in Wps /\ t.attempt \in Nat
    BY <1>2, JobType, TicketFields DEF RecordCompletion, IInv
  <2>2. CASE CompleteGuard(t.wp)
    <3>1. Latest(t.wp) = "DISPATCHED"
      BY <2>1, <2>2, StatusOfLatest DEF CompleteGuard, IInv, LogInv
    <3>2. leases' = [leases EXCEPT ![t.wp].status = "released"]
      BY <1>2, <2>2 DEF RecordCompletion
    <3>3. /\ leases'[t.wp].status = "released"
          /\ leases'[t.wp].attempt = leases[t.wp].attempt
          /\ \A v \in Wps \ {t.wp} : leases'[v] = leases[v]
      BY <2>1, <3>2, LeaseFields DEF IInv, TypeOK, Leases
    <3>4. AppendWpEvent(t.wp, "DISPATCHED", "DONE", t.attempt)
      BY <1>2, <2>2 DEF RecordCompletion
    <3>5. LogRow(t.wp, "DISPATCHED", "DONE", t.attempt)
      BY <3>1, <3>3, <3>4 DEF LogRow, AppendWpEvent, StatusFor
    <3> QED BY <2>1, <3>5 DEF LogStep, WpStates
  <2>3. CASE ~CompleteGuard(t.wp)
    BY <1>2, <2>3 DEF RecordCompletion, QuietStep
  <2> QED BY <2>2, <2>3
<1> QED BY <1>1, <1>2 DEF CompleterStep

LEMMA SweepLogs ==
  ASSUME IInv, NEW s \in Sweepers, SweepStep(s) \/ AbortSweep(s)
  PROVE  LogStep \/ QuietStep
<1>1. CASE ReadExpired(s) \/ AbortSweep(s)
  BY <1>1 DEF ReadExpired, AbortSweep, QuietStep
<1>2. ASSUME NEW t \in sweep[s] PROVE /\ t.wp \in Wps /\ t.attempt \in Nat
                                      /\ t.attempt <= leases[t.wp].attempt
  BY TicketFields DEF IInv, TypeOK, SweepsAreBehind
<1>3. ASSUME NEW t \in sweep[s], Reclaim(s, t) PROVE LogStep \/ QuietStep
  <2>1. t.wp \in Wps /\ t.attempt \in Nat /\ t.attempt + 1 \in Nat
    BY <1>2
  <2>2. CASE ReclaimGuard(t)
    <3>1. Latest(t.wp) = "DISPATCHED" /\ leases[t.wp].attempt = t.attempt
      BY <2>1, <2>2, StatusOfLatest DEF ReclaimGuard, IInv, LogInv
    <3>2. leases' = [leases EXCEPT ![t.wp] = ActiveLease(t.attempt + 1)]
      BY <1>3, <2>2 DEF Reclaim
    <3>3. /\ leases'[t.wp].status = "active"
          /\ leases'[t.wp].attempt = t.attempt + 1
          /\ \A v \in Wps \ {t.wp} : leases'[v] = leases[v]
      BY <2>1, <3>2 DEF ActiveLease, IInv, TypeOK
    <3>4. AppendWpEvent(t.wp, "DISPATCHED", "DISPATCHED", t.attempt + 1)
      BY <1>3, <2>2 DEF Reclaim
    <3>5. t.attempt + 1 < MaxAttempts
      BY <1>3 DEF Reclaim, HasTriesLeft
    <3>6. LogRow(t.wp, "DISPATCHED", "DISPATCHED", t.attempt + 1)
      BY <3>1, <3>3, <3>4, <3>5 DEF LogRow, AppendWpEvent, StatusFor
    <3> QED BY <2>1, <3>6 DEF LogStep, WpStates
  <2>3. CASE ~ReclaimGuard(t)
    BY <1>3, <2>3 DEF Reclaim, QuietStep
  <2> QED BY <2>2, <2>3
<1>4. ASSUME NEW t \in sweep[s], Escalate(s, t) PROVE LogStep \/ QuietStep
  <2>1. t.wp \in Wps /\ t.attempt \in Nat
    BY <1>2
  <2>2. CASE EscalateGuard(t.wp)
    <3>1. Latest(t.wp) = "DISPATCHED"
      BY <2>1, <2>2, StatusOfLatest DEF EscalateGuard, IInv, LogInv
    <3>2. leases' = [leases EXCEPT ![t.wp].status = "escalated"]
      BY <1>4, <2>2 DEF Escalate
    <3>3. /\ leases'[t.wp].status = "escalated"
          /\ leases'[t.wp].attempt = leases[t.wp].attempt
          /\ \A v \in Wps \ {t.wp} : leases'[v] = leases[v]
      BY <2>1, <3>2, LeaseFields DEF IInv, TypeOK, Leases
    <3>4. AppendWpEvent(t.wp, "DISPATCHED", "ESCALATED", t.attempt)
      BY <1>4, <2>2 DEF Escalate, EscalatedEvent
    <3>5. leases[t.wp].attempt + 1 >= MaxAttempts
      <4>1. ~(t.attempt + 1 < MaxAttempts)
        BY <1>4 DEF Escalate, HasTriesLeft
      <4>2. leases[t.wp].attempt \in Nat /\ MaxAttempts \in Nat
        BY <2>1, LeaseFields, DispatchAssumption DEF DispatchAssumption, IInv
      <4> QED BY <1>2, <4>1, <4>2
    <3>6. LogRow(t.wp, "DISPATCHED", "ESCALATED", t.attempt)
      BY <3>1, <3>3, <3>4, <3>5 DEF LogRow, AppendWpEvent, StatusFor
    <3> QED BY <2>1, <3>6 DEF LogStep, WpStates
  <2>3. CASE ~EscalateGuard(t.wp)
    BY <1>4, <2>3 DEF Escalate, QuietStep
  <2> QED BY <2>2, <2>3
<1> QED BY <1>1, <1>3, <1>4 DEF SweepStep

LEMMA PeopleLogs ==
  ASSUME IInv, PersonStep \/ RouteStep \/ \E w \in Wps : Expire(w)
  PROVE  LogStep \/ QuietStep
<1>1. CASE PersonStep
  BY <1>1 DEF PersonStep, ChooseFix, ChooseOther, QuietStep
<1>2. ASSUME NEW w \in Wps, Expire(w) PROVE QuietStep
  BY <1>2, LeaseFields DEF Expire, QuietStep, IInv, TypeOK, Leases
<1>3. ASSUME NEW t \in decisions, RouteFix(t) PROVE LogStep \/ QuietStep
  <2> DEFINE n == ReopenAttempt(t.wp)
  <2>1. t.wp \in Wps
    BY TicketFields DEF IInv, TypeOK
  <2>2. n \in Nat /\ n = leases[t.wp].attempt + 1
    BY <2>1, LeaseFields DEF ReopenAttempt, IInv
  <2>3. CASE /\ leases[t.wp].status = "escalated"
             /\ leases' = [leases EXCEPT ![t.wp] = ActiveLease(n)]
             /\ AppendWpEvent(t.wp, "ESCALATED", "DISPATCHED", n)
    <3>1. Latest(t.wp) = "ESCALATED"
      BY <2>1, <2>3, StatusOfLatest DEF IInv, LogInv
    <3>2. /\ leases'[t.wp].status = "active"
          /\ leases'[t.wp].attempt = n
          /\ \A v \in Wps \ {t.wp} : leases'[v] = leases[v]
      BY <2>1, <2>3 DEF ActiveLease, IInv, TypeOK
    <3>3. LogRow(t.wp, "ESCALATED", "DISPATCHED", n)
      BY <2>2, <2>3, <3>1, <3>2 DEF LogRow, AppendWpEvent, StatusFor
    <3> QED BY <2>1, <2>2, <3>3 DEF LogStep, WpStates
  <2>4. CASE UNCHANGED <<leases, log>>
    BY <2>4 DEF QuietStep
  <2> QED BY <1>3, <2>3, <2>4 DEF RouteFix
<1> QED BY <1>1, <1>2, <1>3 DEF RouteStep

\* The guards of the five writers keep log and lease in step.
LEMMA NextLogs == ASSUME IInv, [Next]_vars PROVE LogStep \/ QuietStep
<1>1. CASE Next
  BY <1>1, PlannerLogs, WorkerQuiet, CompleterLogs, SweepLogs, PeopleLogs DEF Next
<1>2. CASE UNCHANGED vars
  BY <1>2 DEF vars, QuietStep
<1> QED BY <1>1, <1>2

-----------------------------------------------------------------------------
(* What such a row does to the log. *)

LEMMA LogType ==
  ASSUME TypeOK, NEW w \in Wps
  PROVE  /\ log[w] \in Seq(Entries) /\ Len(log[w]) \in Nat
         /\ log[w] = <<>> <=> Len(log[w]) = 0
         /\ \A i \in 1..Len(log[w]) : log[w][i] \in Entries
BY DEF TypeOK

LEMMA AppendedRow ==
  ASSUME TypeOK, NEW w \in Wps, NEW from \in WpStates, NEW to \in WpStates \ {"DRAFTED"},
         NEW n \in Nat, LogRow(w, from, to, n)
  PROVE  /\ Len(log'[w]) = Len(log[w]) + 1
         /\ log'[w][Len(log[w]) + 1] = [from |-> from, to |-> to, attempt |-> n]
         /\ \A i \in 1..Len(log[w]) : log'[w][i] = log[w][i]
         /\ \A v \in Wps \ {w} : log'[v] = log[v]
         /\ log'[w] # <<>>
         /\ Latest(w)' = to
         /\ \A v \in Wps \ {w} : Latest(v)' = Latest(v)
         /\ DoneSet \subseteq DoneSet'
<1> DEFINE row == [from |-> from, to |-> to, attempt |-> n]
<1>1. row \in Entries BY DEF Entries
<1>2. log'[w] = Append(log[w], row)
  BY DEF LogRow, TypeOK
<1>3. \A v \in Wps \ {w} : log'[v] = log[v]
  BY DEF LogRow, TypeOK
<1>4. /\ Len(log'[w]) = Len(log[w]) + 1
      /\ log'[w][Len(log[w]) + 1] = row
      /\ \A i \in 1..Len(log[w]) : log'[w][i] = log[w][i]
      /\ log'[w] # <<>>
  BY <1>1, <1>2, LogType
<1>5. Latest(w)' = to
  BY <1>4 DEF Latest
<1>6. \A v \in Wps \ {w} : Latest(v)' = Latest(v)
  BY <1>3 DEF Latest
<1>7. Latest(w) # "DONE"
  BY DEF LogRow, WpTransitions
<1>8. DoneSet \subseteq DoneSet'
  BY <1>6, <1>7 DEF DoneSet
<1> QED BY <1>3, <1>4, <1>5, <1>6, <1>8

\* Attempts only advance, by one for every dispatch after the first.
LEMMA RowAdvances ==
  ASSUME TypeOK, TypeOK', LogInv, NEW w \in Wps,
         NEW from \in WpStates, NEW to \in WpStates \ {"DRAFTED"}, NEW n \in Nat,
         LogRow(w, from, to, n)
  PROVE  /\ leases[w].attempt <= leases'[w].attempt
         /\ to = "DISPATCHED" /\ Len(log[w]) # 0 => n = leases[w].attempt + 1
         /\ to = "DISPATCHED" => n = leases'[w].attempt
<1>1. leases[w].attempt \in Nat /\ leases'[w].attempt \in Nat
  BY LeaseFields DEF TypeOK, Leases
<1>2. CASE to # "DISPATCHED" BY <1>1, <1>2 DEF LogRow
<1>3. CASE to = "DISPATCHED" /\ from # "DRAFTED" BY <1>1, <1>3 DEF LogRow
<1>4. CASE to = "DISPATCHED" /\ from = "DRAFTED"
  <2>1. Latest(w) = "DRAFTED" BY <1>4 DEF LogRow
  <2>2. Len(log[w]) = 0
    <3>1. ASSUME Len(log[w]) # 0 PROVE FALSE
      <4>1. log[w] # <<>> /\ Len(log[w]) \in 1..Len(log[w]) BY <3>1, LogType
      <4>2. log[w][Len(log[w])] \in Entries BY <4>1, LogType
      <4> QED BY <2>1, <4>1, <4>2 DEF Latest, Entries
    <3> QED BY <3>1
  <2>3. leases[w].status = "none"
    BY <2>1, LeaseFields DEF LogInv, LeaseMatchesLog, LeaseStatus
  <2>4. leases[w].attempt = 0 BY <2>3 DEF LogInv, NoLeaseNoAttempt
  <2> QED BY <1>1, <1>4, <2>2, <2>4 DEF LogRow
<1> QED BY <1>2, <1>3, <1>4

\* The row keeps every part of the invariant of the log.
LEMMA RowKeepsLog ==
  ASSUME TypeOK, TypeOK', LogInv, NEW w \in Wps,
         NEW from \in WpStates, NEW to \in WpStates \ {"DRAFTED"}, NEW n \in Nat,
         LogRow(w, from, to, n)
  PROVE  LogInv'
<1> DEFINE row == [from |-> from, to |-> to, attempt |-> n]
           len == Len(log[w])
<1>0. /\ len \in Nat /\ (log[w] = <<>> <=> len = 0)
      /\ Len(log'[w]) = len + 1 /\ log'[w][len + 1] = row
      /\ \A i \in 1..len : log'[w][i] = log[w][i]
      /\ \A v \in Wps \ {w} : log'[v] = log[v]
      /\ log'[w] # <<>> /\ Latest(w)' = to
      /\ \A v \in Wps \ {w} : Latest(v)' = Latest(v)
      /\ DoneSet \subseteq DoneSet'
  BY AppendedRow, LogType
<1>a. leases[w].attempt \in Nat /\ leases'[w].attempt \in Nat
  BY LeaseFields DEF TypeOK, Leases
<1>1. LeaseMatchesLog'
  <2>1. leases'[w].status = StatusFor(to) BY DEF LogRow
  <2>2. \A v \in Wps \ {w} : leases'[v].status = leases[v].status BY DEF LogRow
  <2> SUFFICES ASSUME NEW v \in Wps
               PROVE  Latest(v)' = CASE leases'[v].status = "none"      -> "DRAFTED"
                                     [] leases'[v].status = "active"    -> "DISPATCHED"
                                     [] leases'[v].status = "escalated" -> "ESCALATED"
                                     [] leases'[v].status = "released"  -> "DONE"
    BY DEF LeaseMatchesLog
  <2>3. CASE v = w BY <1>0, <2>1, <2>3 DEF StatusFor, WpStates
  <2>4. CASE v # w BY <1>0, <2>2, <2>4 DEF LogInv, LeaseMatchesLog
  <2> QED BY <2>3, <2>4
<1>2. LogIsChain'
  <2> SUFFICES ASSUME NEW v \in Wps, NEW i \in 1..Len(log'[v])
               PROVE  log'[v][i].from = IF i = 1 THEN "DRAFTED" ELSE log'[v][i - 1].to
    BY DEF LogIsChain
  <2>1. CASE v # w BY <1>0, <2>1 DEF LogInv, LogIsChain
  <2>2. CASE v = w /\ i \in 1..len
    <3>1. log[w][i].from = IF i = 1 THEN "DRAFTED" ELSE log[w][i - 1].to
      BY <2>2 DEF LogInv, LogIsChain
    <3>2. log'[w][i] = log[w][i] /\ (i # 1 => log'[w][i - 1] = log[w][i - 1])
      BY <1>0, <2>2
    <3> QED BY <2>2, <3>1, <3>2
  <2>3. CASE v = w /\ i = len + 1
    BY <1>0, <2>3 DEF LogRow, Latest
  <2> QED BY <1>0, <2>1, <2>2, <2>3
<1>3. DispatchedAfterDeps'
  <2> SUFFICES ASSUME NEW v \in Wps, log'[v] # <<>>
               PROVE  v \in Oracled /\ Deps[v] \subseteq DoneSet'
    BY DEF DispatchedAfterDeps
  <2>1. CASE log[v] # <<>> BY <1>0, <2>1 DEF LogInv, DispatchedAfterDeps
  <2>2. CASE v = w /\ log[v] = <<>>
    <3>1. from = "DRAFTED" BY <2>2 DEF LogRow, Latest
    <3> QED BY <1>0, <2>2, <3>1 DEF LogRow
  <2> QED BY <1>0, <2>1, <2>2
<1>b. /\ leases[w].attempt <= leases'[w].attempt
      /\ to = "DISPATCHED" /\ len # 0 => n = leases[w].attempt + 1
      /\ to = "DISPATCHED" => n = leases'[w].attempt
  BY RowAdvances
<1>4. LeaseHasLastAttempt'
  <2> SUFFICES ASSUME NEW v \in Wps, NEW i \in 1..Len(log'[v]), log'[v][i].to = "DISPATCHED"
               PROVE  log'[v][i].attempt <= leases'[v].attempt
    BY DEF LeaseHasLastAttempt
  <2>1. CASE v # w BY <1>0, <2>1 DEF LogRow, LogInv, LeaseHasLastAttempt
  <2>2. CASE v = w /\ i \in 1..len
    <3>1. log[w][i].attempt <= leases[w].attempt /\ log[w][i].attempt \in Nat
      <4>1. log[w][i] = log'[w][i] /\ log[w][i] \in Entries BY <1>0, <2>2, LogType
      <4> QED BY <2>2, <4>1 DEF LogInv, LeaseHasLastAttempt, Entries
    <3>2. log'[w][i] = log[w][i] BY <1>0, <2>2
    <3>3. log[w][i].attempt <= leases'[w].attempt
      BY <1>a, <1>b, <3>1
    <3> QED BY <2>2, <3>2, <3>3
  <2>3. CASE v = w /\ i = len + 1 BY <1>0, <1>b, <2>3
  <2> QED BY <1>0, <2>1, <2>2, <2>3
<1>5. AttemptsNeverReused'
  <2> SUFFICES ASSUME NEW v \in Wps, NEW i \in 1..Len(log'[v]), NEW j \in 1..Len(log'[v]),
                      i < j, log'[v][i].to = "DISPATCHED", log'[v][j].to = "DISPATCHED"
               PROVE  log'[v][i].attempt < log'[v][j].attempt
    BY DEF AttemptsNeverReused
  <2>1. CASE v # w BY <1>0, <2>1 DEF LogInv, AttemptsNeverReused
  <2>2. CASE v = w /\ j \in 1..len
    <3>1. i \in 1..len BY <1>0, <2>2
    <3> QED BY SMTT(30), <1>0, <2>2, <3>1 DEF LogInv, AttemptsNeverReused
  <2>3. CASE v = w /\ j = len + 1
    <3>1. i \in 1..len BY <1>0, <2>3
    <3>2. log[w][i].attempt <= leases[w].attempt /\ log[w][i].attempt \in Nat
      BY <1>0, <2>3, <3>1, LogType DEF LogInv, LeaseHasLastAttempt, Entries
    <3>3. n = leases[w].attempt + 1 BY <1>0, <1>b, <2>3, <3>1
    <3>4. log'[w][i] = log[w][i] /\ log'[w][j].attempt = n BY <1>0, <2>3, <3>1
    <3>5. log[w][i].attempt < n BY <1>a, <3>2, <3>3
    <3> QED BY <2>3, <3>4, <3>5
  <2> QED BY <1>0, <2>1, <2>2, <2>3
<1>6. NoLeaseNoAttempt'
  <2> SUFFICES ASSUME NEW v \in Wps, leases'[v].status = "none" PROVE leases'[v].attempt = 0
    BY DEF NoLeaseNoAttempt
  <2>1. v # w BY DEF LogRow, StatusFor, WpStates
  <2> QED BY <2>1 DEF LogRow, LogInv, NoLeaseNoAttempt
<1> QED BY <1>1, <1>2, <1>3, <1>4, <1>5, <1>6 DEF LogInv

LEMMA QuietKeepsLog == ASSUME TypeOK, LogInv, QuietStep PROVE LogInv'
<1>1. /\ log' = log
      /\ \A w \in Wps : leases'[w].status = leases[w].status
                        /\ leases'[w].attempt = leases[w].attempt
  BY DEF QuietStep
<1>2. \A w \in Wps : Latest(w)' = Latest(w)
  BY <1>1 DEF Latest
<1>3. DoneSet' = DoneSet
  BY <1>2 DEF DoneSet
<1>4. LeaseMatchesLog'
  BY <1>1, <1>2 DEF LogInv, LeaseMatchesLog
<1>5. LogIsChain' /\ AttemptsNeverReused'
  BY <1>1 DEF LogInv, LogIsChain, AttemptsNeverReused
<1>6. DispatchedAfterDeps'
  BY <1>1, <1>3 DEF LogInv, DispatchedAfterDeps
<1>7. LeaseHasLastAttempt' /\ NoLeaseNoAttempt'
  BY <1>1 DEF LogInv, LeaseHasLastAttempt, NoLeaseNoAttempt
<1> QED BY <1>4, <1>5, <1>6, <1>7 DEF LogInv

-----------------------------------------------------------------------------
(* Snapshots stay usable: what outdates them only makes them weaker. *)

\* Done packages stay done and attempts never go back.
LEMMA StepAdvances ==
  ASSUME IInv, TypeOK', LogStep \/ QuietStep
  PROVE  DoneSet \subseteq DoneSet' /\ \A w \in Wps : leases[w].attempt <= leases'[w].attempt
<1>1. ASSUME NEW w \in Wps, NEW from \in WpStates, NEW to \in WpStates \ {"DRAFTED"},
             NEW n \in Nat, LogRow(w, from, to, n)
      PROVE  DoneSet \subseteq DoneSet' /\ \A v \in Wps : leases[v].attempt <= leases'[v].attempt
  <2>1. DoneSet \subseteq DoneSet' /\ leases[w].attempt <= leases'[w].attempt
    BY <1>1, AppendedRow, RowAdvances DEF IInv
  <2>2. \A v \in Wps : leases[v].attempt \in Nat
    BY LeaseFields DEF IInv
  <2>3. \A v \in Wps \ {w} : leases'[v].attempt = leases[v].attempt
    BY <1>1 DEF LogRow
  <2> QED BY <2>1, <2>2, <2>3
<1>2. CASE QuietStep
  <2>1. DoneSet' = DoneSet BY <1>2 DEF QuietStep, DoneSet, Latest
  <2>2. \A v \in Wps : leases[v].attempt \in Nat
    BY LeaseFields DEF IInv
  <2> QED BY <1>2, <2>1, <2>2 DEF QuietStep
<1> QED BY <1>1, <1>2 DEF LogStep

\* A plan gains items from the current plan only.
LEMMA PlansOnlyShrink ==
  ASSUME TypeOK, [Next]_vars, NEW p \in Planners
  PROVE  planner'[p].plan \subseteq planner[p].plan \cup Plan
<1>1. ASSUME NEW q \in Planners, Trigger(q) \/ PlannerStep(q) \/ AbortDispatch(q)
      PROVE  planner'[p].plan \subseteq planner[p].plan \cup Plan
  <2>1. CASE Trigger(q) BY <2>1 DEF Trigger, Called, TypeOK
  <2>2. CASE ReadPlan(q) BY <2>2 DEF ReadPlan, Looping, Idle, TypeOK
  <2>3. ASSUME NEW w \in Wps, RecordDispatch(q, w)
        PROVE  planner'[p].plan \subseteq planner[p].plan \cup Plan
    <3>1. PICK x \in {Idle, Looping(planner[q].plan \ {w})} :
                 planner' = [planner EXCEPT ![q] = x]
      BY <2>3 DEF RecordDispatch
    <3>2. x.plan \subseteq planner[q].plan BY DEF Looping, Idle
    <3> QED BY <3>1, <3>2 DEF TypeOK
  <2>4. CASE AbortDispatch(q) BY <2>4 DEF AbortDispatch, Idle, TypeOK
  <2> QED BY <1>1, <2>1, <2>2, <2>3, <2>4 DEF PlannerStep
<1>2. CASE RecordCompletion
  <2>1. planner' = planner \/ planner' = [planner EXCEPT ![Completer] = Called]
    BY <1>2 DEF RecordCompletion, Redispatch
  <2> QED BY <2>1 DEF Called, TypeOK
<1>3. CASE UNCHANGED planner
  BY <1>3
<1>4. WorkerStep \/ Heartbeat => UNCHANGED planner
  BY DEF WorkerStep, TakeSignal, WorkerSucceeds, WorkerFails, Heartbeat
<1>5. CompleterStep \/ LoseCompletion => UNCHANGED planner \/ RecordCompletion
  BY DEF CompleterStep, TakeCompletion, LoseCompletion
<1>6. (\E s \in Sweepers : SweepStep(s) \/ AbortSweep(s)) => UNCHANGED planner
  BY DEF SweepStep, ReadExpired, Reclaim, Escalate, AbortSweep
<1>7. PersonStep \/ RouteStep \/ (\E w \in Wps : Expire(w)) => UNCHANGED planner
  BY DEF PersonStep, RouteStep, ChooseFix, ChooseOther, RouteFix, Expire
<1>8. UNCHANGED vars => UNCHANGED planner BY DEF vars
<1> QED BY <1>1, <1>2, <1>3, <1>4, <1>5, <1>6, <1>7, <1>8 DEF Next

\* A sweep gains the tickets of current leases only.
LEMMA SweepsOnlyShrink ==
  ASSUME TypeOK, [Next]_vars, NEW s \in Sweepers
  PROVE  sweep'[s] \subseteq sweep[s] \cup Expired
<1>1. ASSUME NEW r \in Sweepers, SweepStep(r) \/ AbortSweep(r)
      PROVE  sweep'[s] \subseteq sweep[s] \cup Expired
  <2>1. CASE ReadExpired(r) BY <2>1 DEF ReadExpired, TypeOK
  <2>2. ASSUME NEW t \in sweep[r], Reclaim(r, t) \/ Escalate(r, t) \/ AbortSweep(r)
        PROVE  sweep'[s] \subseteq sweep[s] \cup Expired
    <3>1. SweepDone(r, t) \/ SweepEnds(r)
      BY <2>2 DEF Reclaim, Escalate, AbortSweep
    <3> QED BY <3>1 DEF SweepDone, SweepEnds, TypeOK
  <2>3. CASE AbortSweep(r) BY <2>3 DEF AbortSweep, SweepEnds, TypeOK
  <2> QED BY <1>1, <2>1, <2>2, <2>3 DEF SweepStep
<1>2. CASE UNCHANGED sweep BY <1>2
<1>3. (\E p \in Planners : Trigger(p) \/ PlannerStep(p) \/ AbortDispatch(p)) => UNCHANGED sweep
  BY DEF Trigger, PlannerStep, ReadPlan, RecordDispatch, AbortDispatch
<1>4. WorkerStep \/ Heartbeat \/ CompleterStep \/ LoseCompletion => UNCHANGED sweep
  BY DEF WorkerStep, TakeSignal, WorkerSucceeds, WorkerFails, Heartbeat,
         CompleterStep, TakeCompletion, RecordCompletion, LoseCompletion
<1>5. PersonStep \/ RouteStep \/ (\E w \in Wps : Expire(w)) => UNCHANGED sweep
  BY DEF PersonStep, RouteStep, ChooseFix, ChooseOther, RouteFix, Expire
<1>6. UNCHANGED vars => UNCHANGED sweep BY DEF vars
<1> QED BY <1>1, <1>2, <1>3, <1>4, <1>5, <1>6 DEF Next

-----------------------------------------------------------------------------
(* The inductive invariant and what follows from it. *)

LEMMA InitInv == Init => IInv
<1> SUFFICES ASSUME Init PROVE IInv OBVIOUS
<1>1. TypeOK BY InitType
<1>2. \A w \in Wps : log[w] = <<>> /\ leases[w] = NoLease BY DEF Init
<1>3. \A w \in Wps : Latest(w) = "DRAFTED" BY <1>2 DEF Latest
<1>4. LogInv
  BY <1>2, <1>3 DEF LogInv, LeaseMatchesLog, LogIsChain, DispatchedAfterDeps,
     LeaseHasLastAttempt, NoLeaseNoAttempt, AttemptsNeverReused, NoLease
<1>5. PlansAreSafe BY DEF Init, PlansAreSafe, Called, Idle
<1>6. SweepsAreBehind BY DEF Init, SweepsAreBehind
<1> QED BY <1>1, <1>4, <1>5, <1>6 DEF IInv

LEMMA StepInv == ASSUME IInv, [Next]_vars PROVE IInv'
<1>1. TypeOK' BY NextType DEF IInv
<1>2. LogStep \/ QuietStep BY NextLogs
<1>3. LogInv'
  BY <1>1, <1>2, RowKeepsLog, QuietKeepsLog DEF LogStep, IInv
<1>4. DoneSet \subseteq DoneSet' /\ \A w \in Wps : leases[w].attempt <= leases'[w].attempt
  BY <1>1, <1>2, StepAdvances
<1>5. PlansAreSafe'
  <2> SUFFICES ASSUME NEW p \in Planners, NEW w \in planner'[p].plan
               PROVE  w \in Oracled /\ Deps[w] \subseteq DoneSet'
    BY DEF PlansAreSafe
  <2>1. w \in planner[p].plan \cup Plan BY PlansOnlyShrink DEF IInv
  <2>2. w \in Oracled /\ Deps[w] \subseteq DoneSet
    BY <2>1 DEF IInv, PlansAreSafe, Plan, IsReady
  <2> QED BY <1>4, <2>2
<1>6. SweepsAreBehind'
  <2> SUFFICES ASSUME NEW s \in Sweepers, NEW t \in sweep'[s]
               PROVE  t.attempt <= leases'[t.wp].attempt
    BY DEF SweepsAreBehind
  <2>1. t \in sweep[s] \cup Expired BY SweepsOnlyShrink DEF IInv
  <2>2. t.wp \in Wps /\ t.attempt \in Nat
    BY <1>1, TicketFields DEF TypeOK
  <2>3. t.attempt <= leases[t.wp].attempt
    <3>1. CASE t \in sweep[s] BY <3>1 DEF IInv, SweepsAreBehind
    <3>2. CASE t \in Expired
      BY <2>2, <3>2 DEF Expired, Ticket
    <3> QED BY <2>1, <3>1, <3>2
  <2>4. leases[t.wp].attempt \in Nat /\ leases'[t.wp].attempt \in Nat
    BY <1>1, <2>2, LeaseFields DEF IInv, TypeOK, Leases
  <2> QED BY <1>4, <2>2, <2>3, <2>4
<1> QED BY <1>1, <1>3, <1>5, <1>6 DEF IInv

\* The strengthening that is inductive.
THEOREM Invariant == Spec => []IInv
BY InitInv, StepInv, PTL DEF Spec

\* The lease table and the log agree.
THEOREM LeasesFollowLog == Spec => []LeaseMatchesLog
<1>1. IInv => LeaseMatchesLog BY DEF IInv, LogInv
<1> QED BY <1>1, Invariant, PTL

\* The audit log is a chain of table transitions.
THEOREM ChainedLog == Spec => []LogIsChain
<1>1. IInv => LogIsChain BY DEF IInv, LogInv
<1> QED BY <1>1, Invariant, PTL

\* Nothing is dispatched before what it depends on is done.
THEOREM DispatchOrder == Spec => []DispatchedAfterDeps
<1>1. IInv => DispatchedAfterDeps BY DEF IInv, LogInv
<1> QED BY <1>1, Invariant, PTL

\* No attempt number is dispatched twice.
THEOREM FreshAttempts == Spec => []AttemptsNeverReused
<1>1. IInv => AttemptsNeverReused BY DEF IInv, LogInv
<1> QED BY <1>1, Invariant, PTL

\* Nothing is written about a package that is done.
THEOREM FinalDone == Spec => DoneIsFinal
<1>1. ASSUME IInv, [Next]_vars
      PROVE  [\A w \in Wps : Latest(w) = "DONE" => log'[w] = log[w]]_vars
  <2>1. CASE QuietStep BY <2>1 DEF QuietStep
  <2>2. CASE LogStep
    <3> PICK w \in Wps, from \in WpStates, to \in WpStates \ {"DRAFTED"}, n \in Nat :
               LogRow(w, from, to, n)
      BY <2>2 DEF LogStep
    <3>1. Latest(w) # "DONE" BY DEF LogRow, WpTransitions
    <3>2. \A v \in Wps \ {w} : log'[v] = log[v] BY <1>1, AppendedRow DEF IInv
    <3> QED BY <3>1, <3>2
  <2> QED BY <1>1, <2>1, <2>2, NextLogs
<1> QED BY <1>1, Invariant, PTL DEF Spec, DoneIsFinal

-----------------------------------------------------------------------------
(* Refinement. *)

LEMMA InitRefines == ASSUME Init PROVE Lifecycle!Init
<1>1. \A w \in Wps : Latest(w) = "DRAFTED" /\ leases[w].status = "none"
  BY DEF Init, Latest, NoLease
<1> QED BY <1>1 DEF Lifecycle!Init

LEMMA StepRefines ==
  ASSUME IInv, TypeOK', LogStep \/ QuietStep
  PROVE  Lifecycle!Next \/ UNCHANGED Lifecycle!vars
<1> DEFINE phase == [w \in Wps |-> Latest(w)]
           tries == [w \in Wps |-> IF leases[w].status = "none" THEN 0 ELSE leases[w].attempt + 1]
<1>1. CASE QuietStep
  <2>1. \A w \in Wps : /\ Latest(w)' = Latest(w)
                       /\ leases'[w].status = leases[w].status
                       /\ leases'[w].attempt = leases[w].attempt
    BY <1>1 DEF QuietStep, Latest
  <2>2. phase' = phase /\ tries' = tries BY <2>1
  <2> QED BY <2>2 DEF Lifecycle!vars
<1>2. CASE LogStep
  <2> PICK w \in Wps, from \in WpStates, to \in WpStates \ {"DRAFTED"}, n \in Nat :
             LogRow(w, from, to, n)
    BY <1>2 DEF LogStep
  <2>1. Latest(w) = from /\ Latest(w)' = to /\ \A v \in Wps \ {w} : Latest(v)' = Latest(v)
    <3>1. Latest(w) = from BY DEF LogRow
    <3> QED BY <3>1, AppendedRow DEF IInv
  <2>2. Lifecycle!Move(w, from, to)
    BY <2>1 DEF Lifecycle!Move
  <2>3. /\ leases'[w].status = StatusFor(to) /\ leases[w].status = StatusFor(from)
        /\ leases[w].attempt \in Nat /\ leases'[w].attempt \in Nat
    BY <2>1, StatusOfLatest, LeaseFields DEF LogRow, IInv, LogInv, TypeOK, Leases
  <2>4. \A v \in Wps \ {w} : tries'[v] = tries[v]
    BY DEF LogRow
  <2>5. to = "DISPATCHED" => Lifecycle!Try(w)
    <3> HAVE to = "DISPATCHED"
    <3>1. from = "DRAFTED" \/ from # "DRAFTED" OBVIOUS
    <3>2. tries'[w] = tries[w] + 1
      BY <2>3, <3>1 DEF LogRow, StatusFor, WpStates
    <3> QED BY <2>4, <3>2 DEF Lifecycle!Try
  <2>6. to # "DISPATCHED" => UNCHANGED tries
    <3> HAVE to # "DISPATCHED"
    <3>1. from = "DISPATCHED" /\ to \in {"DONE", "ESCALATED"} BY DEF LogRow, WpTransitions
    <3>2. tries'[w] = tries[w] BY <2>3, <3>1 DEF LogRow, StatusFor
    <3> QED BY <2>4, <3>2
  <2>7. <<from, to>> \in WpTransitions BY DEF LogRow
  <2>8. CASE from = "DRAFTED"
    <3>1. \A d \in Deps[w] : phase[d] = "DONE"
      BY <2>8 DEF LogRow, DoneSet
    <3>2. to = "DISPATCHED" BY <2>7, <2>8 DEF WpTransitions
    <3> QED BY <2>2, <2>5, <2>8, <3>1, <3>2 DEF Lifecycle!Next, Lifecycle!Start
  <2>9. CASE from = "DISPATCHED" /\ to = "DISPATCHED"
    <3>1. tries[w] < MaxAttempts
      BY <2>3, <2>9, DispatchAssumption DEF LogRow, StatusFor, DispatchAssumption
    <3> QED BY <2>2, <2>5, <2>9, <3>1 DEF Lifecycle!Next, Lifecycle!Retry
  <2>10. CASE from = "DISPATCHED" /\ to = "DONE"
    BY <2>2, <2>6, <2>10 DEF Lifecycle!Next, Lifecycle!Finish
  <2>11. CASE from = "DISPATCHED" /\ to = "ESCALATED"
    <3>1. tries[w] >= MaxAttempts
      BY <2>3, <2>11 DEF LogRow, StatusFor
    <3> QED BY <2>2, <2>6, <2>11, <3>1 DEF Lifecycle!Next, Lifecycle!GiveUp
  <2>12. CASE from = "ESCALATED"
    <3>1. to = "DISPATCHED" BY <2>7, <2>12 DEF WpTransitions
    <3> QED BY <2>2, <2>5, <2>12, <3>1 DEF Lifecycle!Next, Lifecycle!Grant
  <2> QED BY <2>7, <2>8, <2>9, <2>10, <2>11, <2>12 DEF WpTransitions
<1> QED BY <1>1, <1>2

\* The dispatch loop implements the life cycle of a package.
THEOREM Refinement == Spec => ImplementsLifecycle
<1>1. ASSUME IInv, [Next]_vars PROVE [Lifecycle!Next]_(Lifecycle!vars)
  <2>1. TypeOK' BY <1>1, NextType DEF IInv
  <2> QED BY <1>1, <2>1, NextLogs, StepRefines
<1> QED BY <1>1, InitRefines, Invariant, PTL DEF Spec, ImplementsLifecycle, Lifecycle!Spec
=============================================================================
