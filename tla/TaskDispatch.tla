---------------------------- MODULE TaskDispatch ----------------------------
(***************************************************************************)
(* The dispatch loop of the Manager (xzawedManager/packages/server/src):   *)
(* planning (streams/dispatch.ts), the visibility lease and the append-    *)
(* only transition log (db/dispatch.repo.ts, db/lease.repo.ts), the worker *)
(* (streams/worker.ts), completion (streams/completion.ts), the lease      *)
(* sweep (streams/lease.ts) and the human retry of an escalated package    *)
(* (streams/decision-consumer.ts), for one workflow.                       *)
(*                                                                         *)
(* The parties are asynchronous handlers of one process: between two       *)
(* database calls of a handler any other may run, so each handler is cut   *)
(* at those points and carries what it has read.  A transaction is one     *)
(* step.  A message published right after a commit is added in the same    *)
(* step: nothing reads a stream but its consumer, whose delay is already   *)
(* arbitrary.  The publish may fail instead, which ends the handler.       *)
(***************************************************************************)
EXTENDS Integers, Sequences, FiniteSets

CONSTANTS
  Wps,            \* the work packages of the stored graph
  Deps,           \* Deps[w]: the packages w depends on
  Oracled,        \* packages with an oracleRef (the default DoR predicate)
  Planners,       \* the consumers that call handleDispatch
  Completer,      \* the one among them that is the completion consumer
  Sweepers,       \* lease sweepers: one per Manager process
  MaxAttempts,    \* MANAGER_LEASE_MAX_ATTEMPTS
  VerifyEnabled,  \* MANAGER_TASK_VERIFY: the worker checks for stale signals
  AttemptBound,   \* bound: a person grants no retry beyond this attempt
  MaxFaults       \* bound on failed publishes, handler exceptions and crashes

ASSUME DispatchAssumption ==
  /\ Deps \in [Wps -> SUBSET Wps]
  /\ Oracled \subseteq Wps
  /\ Completer \in Planners
  /\ MaxAttempts \in Nat \ {0}
  /\ VerifyEnabled \in BOOLEAN
  /\ AttemptBound \in Nat
  /\ MaxFaults \in Nat

VARIABLES
  leases,       \* wp_leases: status, attempt, and whether expires_at is ahead
  log,          \* wp_state_log: log[w] is the transitions of w in seq order
  signals,      \* manager:dispatched:main, signals not yet taken
  completions,  \* manager:completions:main, completions not yet taken
  planner,      \* planner[p]: a call of handleDispatch in progress
  worker,       \* the signal the worker executes
  completer,    \* the lease a completion handler has read
  sweep,        \* sweep[s]: expired leases read by the sweep in progress
  requested,    \* decision_requests: defect briefs ever created
  briefs,       \* ... those still PENDING
  decisions,    \* recorded fix_reverify decisions not yet routed
  faults        \* faults so far (bounded by MaxFaults)

streams == <<signals, completions>>
people == <<requested, briefs, decisions>>
vars == <<leases, log, streams, planner, worker, completer, sweep, people, faults>>

-----------------------------------------------------------------------------
(* Data. *)

\* A package and an attempt: a dispatch signal, a completion, a swept lease,
\* the id of a defect brief.
Tickets == [wp : Wps, attempt : Nat]
Ticket(w, n) == [wp |-> w, attempt |-> n]

LeaseStatus == {"none", "active", "escalated", "released"}
Leases == [status : LeaseStatus, attempt : Nat, live : BOOLEAN]
NoLease == [status |-> "none", attempt |-> 0, live |-> FALSE]
ActiveLeaseOffByOne(n) == [status |-> "active", attempt |-> n - 1, live |-> TRUE]  \* mutant
ActiveLease(n) == [status |-> "active", attempt |-> n, live |-> TRUE]

WpStates == {"DRAFTED", "DISPATCHED", "DONE", "ESCALATED"}
Entries == [from : WpStates, to : WpStates \ {"DRAFTED"}, attempt : Nat]

\* WP_TRANSITIONS, for the states production code writes.
WpTransitions == {
  <<"DRAFTED", "DISPATCHED">>,
  <<"DISPATCHED", "DISPATCHED">>, <<"DISPATCHED", "DONE">>, <<"DISPATCHED", "ESCALATED">>,
  <<"ESCALATED", "DISPATCHED">>}

\* latestStates: the to_state of the row with the largest seq.
LatestIsOldest(w) == IF log[w] = <<>> THEN "DRAFTED" ELSE log[w][1].to  \* mutant
Latest(w) == IF log[w] = <<>> THEN "DRAFTED" ELSE log[w][Len(log[w])].to
DoneSet == {w \in Wps : Latest(w) = "DONE"}

IsReadyNoDeps(w, done) == w \notin done /\ w \in Oracled  \* mutant
IsReady(w, done) == w \notin done /\ w \in Oracled /\ Deps[w] \subseteq done

\* planDispatch: ready, and neither dispatched nor escalated.
Plan == {w \in Wps : IsReady(w, DoneSet)
                     /\ Latest(w) \notin {"DISPATCHED", "ESCALATED"}}

Idle == [pc |-> "idle", plan |-> {}]
Called == [pc |-> "start", plan |-> {}]
Looping(items) == IF items = {} THEN Idle ELSE [pc |-> "loop", plan |-> items]
NoTicket == [busy |-> FALSE]
Working(t) == [busy |-> TRUE, job |-> t]

-----------------------------------------------------------------------------
TypeOK ==
  /\ leases \in [Wps -> Leases]
  /\ log \in [Wps -> Seq(Entries)]
  /\ signals \subseteq Tickets
  /\ completions \subseteq Tickets
  /\ planner \in [Planners -> [pc : {"idle", "start", "loop"}, plan : SUBSET Wps]]
  /\ worker \in {NoTicket} \cup [busy : {TRUE}, job : Tickets]
  /\ completer \in {NoTicket} \cup [busy : {TRUE}, job : Tickets]
  /\ sweep \in [Sweepers -> SUBSET Tickets]
  /\ requested \subseteq Tickets
  /\ briefs \subseteq requested
  /\ decisions \subseteq Tickets
  /\ faults \in Nat

\* The decomposition consumer has stored the graph and calls handleDispatch.
Init ==
  /\ leases = [w \in Wps |-> NoLease]
  /\ log = [w \in Wps |-> <<>>]
  /\ signals = {} /\ completions = {}
  /\ \E p \in Planners \ {Completer} :
       planner = [q \in Planners |-> IF q = p THEN Called ELSE Idle]
  /\ worker = NoTicket /\ completer = NoTicket
  /\ sweep = [s \in Sweepers |-> {}]
  /\ requested = {} /\ briefs = {} /\ decisions = {}
  /\ faults = 0

\* One more fault: a publish fails, a handler throws or the process dies.
Fault == faults < MaxFaults /\ faults' = faults + 1

\* appendWpEvent: assertWpTransition on the caller's states, then the row.
\* A refused transition rolls the whole transaction back.
AppendWpEvent(w, from, to, n) ==
  /\ <<from, to>> \in WpTransitions
  /\ log' = [log EXCEPT ![w] = Append(@, [from |-> from, to |-> to, attempt |-> n])]

\* The WHERE clauses that guard the updates of wp_leases.
ReclaimGuard(t) == leases[t.wp].status = "active" /\ leases[t.wp].attempt = t.attempt
EscalateGuard(w) == leases[w].status = "active"
CompleteGuard(w) == leases[w].status = "active"
RenewGuard(t) == leases[t.wp].status = "active" /\ leases[t.wp].attempt = t.attempt

\* reopenLease advances the attempt; it must not start again from 0.
ReopenAttemptReset(w) == 0  \* mutant
ReopenAttempt(w) == leases[w].attempt + 1

\* planReclaim: reclaim while nextAttempt < maxAttempts, else escalate.
HasTriesLeftOneMore(t) == t.attempt + 1 <= MaxAttempts  \* mutant
HasTriesLeft(t) == t.attempt + 1 < MaxAttempts

\* wp.escalated is recorded under the attempt that ran out.
EscalatedEvent(t) == AppendWpEvent(t.wp, "DISPATCHED", "ESCALATED", t.attempt)

-----------------------------------------------------------------------------
(* handleDispatch, one call per planner. *)

\* Another trigger: oracle.approved, a re-decomposition, a degraded sign-off.
Trigger(p) ==
  /\ p # Completer /\ planner[p].pc = "idle"
  /\ planner' = [planner EXCEPT ![p] = Called]
  /\ UNCHANGED <<leases, log, streams, worker, completer, sweep, people, faults>>

\* latestStates and the plan made from it.
ReadPlan(p) ==
  /\ planner[p].pc = "start"
  /\ planner' = [planner EXCEPT ![p] = Looping(Plan)]
  /\ UNCHANGED <<leases, log, streams, worker, completer, sweep, people, faults>>

\* recordDispatch of an item: the lease row is inserted or is in the way.
RecordDispatch(p, w) ==
  /\ planner[p].pc = "loop" /\ w \in planner[p].plan
  /\ IF leases[w].status = "none"
     THEN /\ leases' = [leases EXCEPT ![w] = ActiveLease(0)]
          /\ AppendWpEvent(w, "DRAFTED", "DISPATCHED", 0)
          /\ \/ /\ signals' = signals \cup {Ticket(w, 0)}
                /\ planner' = [planner EXCEPT ![p] = Looping(@.plan \ {w})]
                /\ UNCHANGED faults
             \/ /\ Fault
                /\ planner' = [planner EXCEPT ![p] = Idle]
                /\ UNCHANGED signals
     ELSE /\ planner' = [planner EXCEPT ![p] = Looping(@.plan \ {w})]
          /\ UNCHANGED <<leases, log, signals, faults>>
  /\ UNCHANGED <<completions, worker, completer, sweep, people>>

\* A query throws or the process dies.  For the completion consumer the retry
\* of BaseConsumer finds the lease released and returns 'skipped'.
AbortDispatch(p) ==
  /\ planner[p].pc # "idle" /\ Fault
  /\ planner' = [planner EXCEPT ![p] = Idle]
  /\ UNCHANGED <<leases, log, streams, worker, completer, sweep, people>>

-----------------------------------------------------------------------------
(* handleWpDispatchSignal: one worker consumer, one signal at a time. *)

TakeSignal(t) ==
  /\ ~worker.busy /\ t \in signals
  /\ signals' = signals \ {t}
  /\ worker' = IF VerifyEnabled /\ Latest(t.wp) \in {"DONE", "ESCALATED"}
               THEN NoTicket ELSE Working(t)
  /\ UNCHANGED <<leases, log, completions, planner, completer, sweep, people, faults>>

\* renewLease: active and of the signal's attempt.
Heartbeat ==
  /\ worker.busy
  /\ LET t == worker.job IN
       /\ RenewGuard(t)
       /\ leases' = [leases EXCEPT ![t.wp].live = TRUE]
  /\ UNCHANGED <<log, streams, planner, worker, completer, sweep, people, faults>>

\* Execution and verification succeed and the completion is published.
WorkerSucceeds ==
  /\ worker.busy
  /\ completions' = completions \cup {worker.job}
  /\ worker' = NoTicket
  /\ UNCHANGED <<leases, log, signals, planner, completer, sweep, people, faults>>

\* agent_error, verification_failed, an unresolved role, a lost publish or a
\* crash: no completion; the lease is the backstop.
WorkerFails ==
  /\ worker.busy
  /\ worker' = NoTicket
  /\ UNCHANGED <<leases, log, streams, planner, completer, sweep, people, faults>>

-----------------------------------------------------------------------------
(* handleCompletion: one consumer, its redispatch is planner[Completer]. *)

\* getLease: an inactive lease ends the handler with 'skipped'.
TakeCompletion(t) ==
  /\ ~completer.busy /\ planner[Completer].pc = "idle" /\ t \in completions
  /\ completions' = completions \ {t}
  /\ completer' = IF leases[t.wp].status = "active"
                  THEN Working(Ticket(t.wp, leases[t.wp].attempt)) ELSE NoTicket
  /\ UNCHANGED <<leases, log, signals, planner, worker, sweep, people, faults>>

ForgetRedispatch == UNCHANGED planner  \* mutant
Redispatch == planner' = [planner EXCEPT ![Completer] = Called]

\* recordCompletion: guarded by the status only, the attempt read may be stale.
RecordCompletion ==
  /\ completer.busy
  /\ completer' = NoTicket
  /\ LET t == completer.job IN
       IF CompleteGuard(t.wp)
       THEN /\ leases' = [leases EXCEPT ![t.wp].status = "released"]
            /\ AppendWpEvent(t.wp, "DISPATCHED", "DONE", t.attempt)
            /\ Redispatch
       ELSE UNCHANGED <<leases, log, planner>>
  /\ UNCHANGED <<streams, worker, sweep, people, faults>>

\* The handler gives up before the commit: the message goes to the dead
\* letters, or its idempotency marker makes a redelivery a duplicate.
LoseCompletion ==
  /\ completer.busy /\ Fault
  /\ completer' = NoTicket
  /\ UNCHANGED <<leases, log, streams, planner, worker, sweep, people>>

-----------------------------------------------------------------------------
(* handleLeaseSweep. *)

ExpiredFlipped == {Ticket(w, leases[w].attempt) :
                     w \in {v \in Wps : leases[v].status = "active" /\ leases[v].live}}  \* mutant
Expired == {Ticket(w, leases[w].attempt) :
              w \in {v \in Wps : leases[v].status = "active" /\ ~leases[v].live}}

ReadExpired(s) ==
  /\ sweep[s] = {} /\ Expired # {}
  /\ sweep' = [sweep EXCEPT ![s] = Expired]
  /\ UNCHANGED <<leases, log, streams, planner, worker, completer, people, faults>>

SweepDone(s, t) == sweep' = [sweep EXCEPT ![s] = @ \ {t}]
SweepEnds(s) == sweep' = [sweep EXCEPT ![s] = {}]

\* recordReclaim: compare-and-set on the attempt, not on the expiry.
Reclaim(s, t) ==
  /\ t \in sweep[s] /\ HasTriesLeft(t)
  /\ IF ReclaimGuard(t)
     THEN /\ leases' = [leases EXCEPT ![t.wp] = ActiveLease(t.attempt + 1)]
          /\ AppendWpEvent(t.wp, "DISPATCHED", "DISPATCHED", t.attempt + 1)
          /\ \/ /\ signals' = signals \cup {Ticket(t.wp, t.attempt + 1)}
                /\ SweepDone(s, t) /\ UNCHANGED faults
             \/ Fault /\ SweepEnds(s) /\ UNCHANGED signals
     ELSE SweepDone(s, t) /\ UNCHANGED <<leases, log, signals, faults>>
  /\ UNCHANGED <<completions, planner, worker, completer, people>>

\* recordEscalation: guarded by the status only; then the defect brief, whose
\* failure is swallowed.  createRequest does nothing for an id it has seen.
Escalate(s, t) ==
  /\ t \in sweep[s] /\ ~HasTriesLeft(t)
  /\ SweepDone(s, t)
  /\ IF EscalateGuard(t.wp)
     THEN /\ leases' = [leases EXCEPT ![t.wp].status = "escalated"]
          /\ EscalatedEvent(t)
          /\ \/ /\ requested' = requested \cup {t}
                /\ briefs' = briefs \cup ({t} \ requested)
                /\ UNCHANGED faults
             \/ Fault /\ UNCHANGED <<requested, briefs>>
     ELSE UNCHANGED <<leases, log, requested, briefs, faults>>
  /\ UNCHANGED <<streams, planner, worker, completer, decisions>>

AbortSweep(s) ==
  /\ sweep[s] # {} /\ Fault /\ SweepEnds(s)
  /\ UNCHANGED <<leases, log, streams, planner, worker, completer, people>>

\* Time passes the expires_at of an active lease.
Expire(w) ==
  /\ leases[w].status = "active" /\ leases[w].live
  /\ leases' = [leases EXCEPT ![w].live = FALSE]
  /\ UNCHANGED <<log, streams, planner, worker, completer, sweep, people, faults>>

-----------------------------------------------------------------------------
(* Human decisions on a defect brief. *)

ChooseFix(t) ==
  /\ t \in briefs /\ t.attempt < AttemptBound
  /\ briefs' = briefs \ {t}
  /\ decisions' = decisions \cup {t}
  /\ UNCHANGED <<leases, log, streams, planner, worker, completer, sweep, requested, faults>>

\* Any other choice, or expiry: the lease is left as it is.
ChooseOther(t) ==
  /\ t \in briefs
  /\ briefs' = briefs \ {t}
  /\ UNCHANGED <<leases, log, streams, planner, worker, completer, sweep, requested,
                 decisions, faults>>

\* reopenLease and the signal.  Every exception is swallowed, so a decision
\* whose routing fails is gone.
RouteFix(t) ==
  /\ t \in decisions
  /\ decisions' = decisions \ {t}
  /\ LET n == ReopenAttempt(t.wp) IN
       \/ /\ leases[t.wp].status = "escalated"
          /\ leases' = [leases EXCEPT ![t.wp] = ActiveLease(n)]
          /\ AppendWpEvent(t.wp, "ESCALATED", "DISPATCHED", n)
          /\ \/ signals' = signals \cup {Ticket(t.wp, n)} /\ UNCHANGED faults
             \/ Fault /\ UNCHANGED signals
       \/ leases[t.wp].status # "escalated" /\ UNCHANGED <<leases, log, signals, faults>>
       \/ Fault /\ UNCHANGED <<leases, log, signals>>
  /\ UNCHANGED <<completions, planner, worker, completer, sweep, requested, briefs>>

-----------------------------------------------------------------------------
PlannerStep(p) == ReadPlan(p) \/ \E w \in Wps : RecordDispatch(p, w)

WorkerStep == (\E t \in signals : TakeSignal(t)) \/ WorkerSucceeds \/ WorkerFails
CompleterStep == (\E t \in completions : TakeCompletion(t)) \/ RecordCompletion
SweepStep(s) == ReadExpired(s) \/ \E t \in sweep[s] : Reclaim(s, t) \/ Escalate(s, t)
RouteStep == \E t \in decisions : RouteFix(t)
PersonStep == \E t \in briefs : ChooseFix(t) \/ ChooseOther(t)

Next ==
  \/ \E p \in Planners : Trigger(p) \/ PlannerStep(p) \/ AbortDispatch(p)
  \/ WorkerStep \/ Heartbeat
  \/ CompleterStep \/ LoseCompletion
  \/ \E s \in Sweepers : SweepStep(s) \/ AbortSweep(s)
  \/ \E w \in Wps : Expire(w)
  \/ PersonStep \/ RouteStep

Spec == Init /\ [][Next]_vars

\* The event loop runs every ready handler, timers fire and time passes.
\* Nothing makes a person decide, a trigger arrive or a heartbeat be in time.
Fairness ==
  /\ \A p \in Planners : WF_vars(PlannerStep(p))
  /\ WF_vars(WorkerStep) /\ WF_vars(CompleterStep) /\ WF_vars(RouteStep)
  /\ \A s \in Sweepers : WF_vars(SweepStep(s))
  /\ \A w \in Wps : WF_vars(Expire(w))

FairSpec == Spec /\ Fairness
-----------------------------------------------------------------------------
(* Safety. *)

\* The lease table and the transition log are written together and tell the
\* same story about every package: planning reads one, sweeping the other.
LeaseMatchesLog ==
  \A w \in Wps : Latest(w) = CASE leases[w].status = "none"      -> "DRAFTED"
                                [] leases[w].status = "active"    -> "DISPATCHED"
                                [] leases[w].status = "escalated" -> "ESCALATED"
                                [] leases[w].status = "released"  -> "DONE"

\* The audit log does not lie: every row starts where the row before it ended,
\* though each writer fills in from_state from what it assumes, not from the
\* log, and the guard in appendWpEvent looks at the two arguments only.
LogIsChain ==
  \A w \in Wps : \A i \in 1..Len(log[w]) :
    log[w][i].from = IF i = 1 THEN "DRAFTED" ELSE log[w][i - 1].to

\* No package is handed to a worker before everything it depends on is DONE,
\* although plans are made from snapshots that other handlers outdate.
DispatchedAfterDeps ==
  \A w \in Wps : log[w] # <<>> => w \in Oracled /\ Deps[w] \subseteq DoneSet

\* No attempt number is dispatched twice.  The idempotency key of the dispatch
\* signal is made of it, so a reused one would be dropped as a duplicate and
\* the package never executed (the warning in reopenLease).
AttemptsNeverReused ==
  \A w \in Wps : \A i, j \in 1..Len(log[w]) :
    i < j /\ log[w][i].to = "DISPATCHED" /\ log[w][j].to = "DISPATCHED"
      => log[w][i].attempt < log[w][j].attempt

\* DONE is final (WP_TRANSITIONS; wp-state.ts: "there is no re-dispatch after
\* completion"): no later dispatch, sweep, retry or completion writes a row.
DoneIsFinal == [][\A w \in Wps : Latest(w) = "DONE" => log'[w] = log[w]]_vars

\* An escalation is about the attempt that ran out: its row names the attempt
\* of the last dispatch, so that the defect brief a person reads, whose id is
\* made of it, is about that dispatch too.
EscalationsCurrent ==
  \A w \in Wps : \A i \in 1..Len(log[w]) :
    log[w][i].to = "ESCALATED" => log[w][i].attempt = log[w][i - 1].attempt

\* An escalation that is not cut short by a fault puts a new question to a
\* person: the brief is pending right after it.  createRequest ignores an id that was
\* used before, so this rests on attempts only ever advancing.
EscalationAsks ==
  [][\A w \in Wps :
       leases[w].status = "active" /\ leases'[w].status = "escalated" /\ faults' = faults
         => Ticket(w, leases'[w].attempt) \in briefs' \ briefs]_vars

\* The abstract view: the phase is the last logged state, and a package has
\* been tried once more often than the attempt number of its lease says.
Lifecycle == INSTANCE WpLifecycle WITH
  phase <- [w \in Wps |-> Latest(w)],
  tries <- [w \in Wps |-> IF leases[w].status = "none" THEN 0 ELSE leases[w].attempt + 1]

\* The dispatch loop implements the life cycle: among other things at most
\* MaxAttempts tries before a person is asked, and one try per grant.
ImplementsLifecycle == Lifecycle!Spec

-----------------------------------------------------------------------------
(* Liveness. *)

\* The lease is the backstop of every lost signal, failed run and failed
\* publish: what was dispatched ends DONE or in front of a person.
DispatchResolves ==
  \A w \in Wps : leases[w].status = "active" ~> leases[w].status \in {"released", "escalated"}

\* Completion closes the dispatch loop: once all it depends on is DONE, a
\* package is dispatched (completion.ts: a completion is reflected in the
\* done-set, its successors are unblocked and re-dispatched).
CompletionUnblocks ==
  \A w \in Oracled : Deps[w] # {} /\ Deps[w] \subseteq DoneSet ~> log[w] # <<>>

\* The same, as long as no handler fails between its two commits.
UnblocksWithoutFault ==
  \A w \in Oracled : Deps[w] # {} /\ Deps[w] \subseteq DoneSet ~> log[w] # <<>> \/ faults > 0
=============================================================================
