---------------------------- MODULE WpVerification ----------------------------
(***************************************************************************)
(* From the execution of a work package to the release gate: the worker    *)
(* with its verification channels (streams/worker.ts, streams/verify.ts),  *)
(* the evidence it records (db/release-gate.repo.ts), completion and the   *)
(* evaluation of the gate (streams/completion.ts, streams/release-gate.ts) *)
(* for one workflow whose graph may be replaced meanwhile.                 *)
(*                                                                         *)
(* The lease of TaskDispatch is reduced to its status and attempt, and the *)
(* commands of the sweep and of a person to their commits.  Verification   *)
(* and the release gate are on, and the workspace is known.                *)
(***************************************************************************)
EXTENDS Verdicts

CONSTANTS
  Wps,           \* work packages the decompositions contain
  RoleOf,        \* owningRole: developer, tester, builder, security, designer
  Enabled,       \* the optional channels that are switched on
  Risky,         \* packages at or above the risk at which mutation runs
  Workers,       \* dispatch consumers, one per Manager process
  MaxAttempts,   \* MANAGER_LEASE_MAX_ATTEMPTS
  MaxFaults      \* bound on lost messages, failed commands and crashes

Roles == {"developer", "tester", "builder", "security", "designer"}
Authored == {"conformance", "impact", "property"}
Channels == {"conformance", "impact", "property", "mutation", "security"}
Checks == {"build", "tests"} \cup Channels

ASSUME VerificationAssumption ==
  /\ RoleOf \in [Wps -> Roles]
  /\ Enabled \subseteq Channels /\ Risky \subseteq Wps
  /\ MaxAttempts \in Nat \ {0} /\ MaxFaults \in Nat

VARIABLES
  graph,        \* the packages of the stored graph
  leases,       \* leases[w]: status and attempt; "released" is DONE
  signals,      \* dispatch signals not yet taken
  workers,      \* workers[k]: where it is, its job, the checks left, its outcomes
                \* and, as a ghost, what the answers it accepted really showed
  approved,     \* packages whose story has approved baselines
  evidence,     \* wp_verification_results: package, attempt, channel, outcome
  completions,  \* packages whose completion is published and not handled
  gating,       \* the evaluation of the gate in the completion handler
  gates,        \* release_gates: version, status and the packages judged
  proved,       \* ghost: package, attempt and what its verification really showed
  missed,       \* ghost: an evaluation got lost or the graph lost its last open package
  faults

vars == <<graph, leases, signals, workers, approved, evidence, completions, gating, gates,
          proved, missed, faults>>

Attempts == 0..MaxAttempts - 1
Jobs == [wp : Wps, attempt : Attempts]
Job(w, n) == [wp |-> w, attempt |-> n]
Outcomes == {"passed", "skipped", "not_applicable"}
Kinds == Channels \cup {"tc", "design"}
NoWork == [pc |-> "idle"]
Done == {w \in Wps : leases[w].status = "released"}

TypeOK ==
  /\ graph \subseteq Wps /\ graph # {}
  /\ leases \in [Wps -> [status : {"none", "active", "released", "escalated"}, attempt : Attempts]]
  /\ signals \subseteq Jobs
  /\ \A k \in Workers :
       \/ workers[k] = NoWork
       \/ /\ workers[k].pc \in {"execute", "check", "record", "publish"}
          /\ workers[k].job \in Jobs
          /\ workers[k].todo \subseteq Checks
          /\ (workers[k].pc = "check" <=> workers[k].todo # {})
          /\ workers[k].got \subseteq Kinds \X Outcomes
          /\ workers[k].shown \subseteq Kinds
  /\ approved \subseteq Wps /\ completions \subseteq Wps
  /\ evidence \subseteq [wp : Wps, attempt : Attempts, channel : Kinds, outcome : Outcomes]
  /\ gating.pc \in {"idle", "graph", "states", "evidence"}
  /\ gates \subseteq [version : SUBSET Wps, status : {"passed", "blocked"}, wps : SUBSET Wps]
  /\ proved \subseteq Wps \X Attempts \X Kinds
  /\ missed \in BOOLEAN /\ faults \in 0..MaxFaults

Init ==
  /\ graph \in {g \in SUBSET Wps : g # {}}
  /\ leases = [w \in Wps |-> [status |-> "none", attempt |-> 0]]
  /\ signals = {} /\ workers = [k \in Workers |-> NoWork]
  /\ approved = {} /\ evidence = {} /\ completions = {}
  /\ gating = [pc |-> "idle"] /\ gates = {}
  /\ proved = {} /\ missed = FALSE /\ faults = 0

Fault == faults < MaxFaults /\ faults' = faults + 1

ghosts == <<proved, missed>>
leasing == <<graph, leases, signals>>
judging == <<completions, gating, gates>>

-----------------------------------------------------------------------------
(* The graph and the leases, as far as they act on the worker.             *)

\* recordDispatch and its signal.
Dispatch(w) ==
  /\ w \in graph /\ leases[w].status = "none"
  /\ leases' = [leases EXCEPT ![w].status = "active"]
  /\ signals' = signals \cup {Job(w, 0)}
  /\ UNCHANGED <<graph, workers, approved, evidence, judging, ghosts, faults>>

\* The sweep reclaims an expired lease, or escalates it.
Expire(w) ==
  /\ leases[w].status = "active"
  /\ LET next == leases[w].attempt + 1 IN
       IF next < MaxAttempts
       THEN /\ leases' = [leases EXCEPT ![w].attempt = next]
            /\ signals' = signals \cup {Job(w, next)}
       ELSE leases' = [leases EXCEPT ![w].status = "escalated"] /\ UNCHANGED signals
  /\ UNCHANGED <<graph, workers, approved, evidence, judging, ghosts, faults>>

\* A re-decomposition keeps what is dispatched, done or escalated.
Redecompose ==
  /\ \E next \in SUBSET Wps :
       /\ next # {} /\ next # graph
       /\ {w \in graph : leases[w].status # "none"} \subseteq next
       /\ graph' = next
       /\ missed' = (missed \/ (next \subseteq Done /\ ~(graph \subseteq Done)))
  /\ UNCHANGED <<leases, signals, workers, approved, evidence, judging, proved, faults>>

\* A person approves the oracle, the golden data and the invariants of a
\* story; only the channels of a developer's package read them.
Approve(w) ==
  /\ RoleOf[w] = "developer" /\ w \notin approved /\ approved' = approved \cup {w}
  /\ UNCHANGED <<leasing, workers, evidence, judging, ghosts, faults>>

-----------------------------------------------------------------------------
(* handleWpDispatchSignal.                                                 *)

\* The signal of a package that is gone, DONE or ESCALATED is skipped.
TakeSignal(k, t) ==
  /\ workers[k].pc = "idle" /\ t \in signals
  /\ signals' = signals \ {t}
  /\ workers' = [workers EXCEPT ![k] =
       IF t.wp \notin graph \/ leases[t.wp].status \in {"released", "escalated"} THEN NoWork
       ELSE [pc |-> "execute", job |-> t, todo |-> {}, got |-> {}, shown |-> {}]]
  /\ UNCHANGED <<graph, leases, approved, evidence, judging, ghosts, faults>>

\* What a channel that is switched off, or whose scope leaves the package
\* out, contributes: it is not run.
OutOfScope(w) ==
  {c \in Channels : c \notin Enabled \/ (c = "mutation" /\ w \notin Risky)}

\* planVerificationChecks, and the channels; RunBefore is the order of runChannelChecks.
PlanOf(w) == IF RoleOf[w] = "developer" THEN Checks \ OutOfScope(w) ELSE {}

RunBefore(check) ==
  LET order == <<"build", "tests", "conformance", "impact", "property", "mutation", "security">>
  IN  {order[i] : i \in 1..CHOOSE n \in DOMAIN order : order[n] = check} \ {check}

\* The numbers that occur in the answers; VerdictsProofs has every integer.
Numbers == 0..1

\* The answers of the package's own tool, whether judgePrimaryResult accepts
\* one, and whether it shows what the gate will require.
Answers(role) == {Unreadable} \cup
  CASE role = "tester" -> Tests(Numbers)   [] role = "designer" -> Designs(Numbers)
    [] role = "security" -> Audits(Numbers) [] role \in {"builder", "developer"} -> Builds
PrimaryOk(role, r) ==
  CASE role = "tester" -> TestsOk(r)       [] role = "designer" -> DesignOk(r)
    [] role = "security" -> AuditedOk(r)   [] role = "builder" -> BuildOk(r)
    [] role = "developer" -> r.readable
Proves(role, r) ==
  CASE role = "tester" -> TestsProve(r)    [] role = "designer" -> DesignProves(r)
    [] role = "security" -> AuditProves(r) [] role = "builder" -> BuildOk(r)
    [] role = "developer" -> FALSE

\* The worker has nothing left to check; the ghost keeps what was shown.
Verified(k, got, shown) ==
  LET t == workers[k].job IN
    /\ workers' = [workers EXCEPT ![k] =
         [@ EXCEPT !.pc = "record", !.todo = {}, !.got = got, !.shown = {}]]
    /\ proved' = proved \cup {<<t.wp, t.attempt, c>> : c \in shown}

\* agent_error or verification_failed: no completion, the lease is the
\* backstop.  What is published and kept about the reason decides nothing.
VerificationFailed(k) ==
  /\ workers' = [workers EXCEPT ![k] = NoWork]
  /\ UNCHANGED proved

Execute(k) ==
  /\ workers[k].pc = "execute"
  /\ LET w == workers[k].job.wp
         role == RoleOf[w]
         kind == RequiredChannel(role) IN
     /\ \E r \in Answers(role) :
          IF ~PrimaryOk(role, r) THEN VerificationFailed(k)
          ELSE IF role = "developer"
          THEN /\ workers' = [workers EXCEPT ![k] =
                    [@ EXCEPT !.pc = "check", !.todo = PlanOf(w),
                              !.got = {<<c, "not_applicable">> : c \in OutOfScope(w)}]]
               /\ UNCHANGED proved
          ELSE Verified(k, {<<kind, "passed">>}, IF Proves(role, r) THEN {kind} ELSE {})
  /\ UNCHANGED <<leasing, approved, evidence, judging, missed, faults>>

\* A check is accepted with an outcome, or none, and what it really showed.
Accept(k, check, outcomes, shown) ==
  LET got == workers[k].got \cup outcomes
      all == workers[k].shown \cup shown
      rest == workers[k].todo \ {check} IN
    IF rest = {} THEN Verified(k, got, all)
    ELSE /\ workers' = [workers EXCEPT ![k] =
              [@ EXCEPT !.todo = rest, !.got = got, !.shown = all]]
         /\ UNCHANGED proved

Checking(k, check) ==
  /\ workers[k].pc = "check" /\ check \in workers[k].todo
  /\ RunBefore(check) \cap workers[k].todo = {}

\* runDerivedChecks: build, then test, in the package's workspace.
CheckBuild(k) ==
  /\ Checking(k, "build")
  /\ \E r \in Builds \cup {Unreadable} :
       IF BuildOk(r) THEN Accept(k, "build", {}, {}) ELSE VerificationFailed(k)
  /\ UNCHANGED <<leasing, approved, evidence, judging, missed, faults>>

\* A channel's answer: recorded as passed when the judge accepts it.
Conclude(k, check, channel, accepted, shown) ==
  /\ IF accepted THEN Accept(k, check, {<<channel, "passed">>}, IF shown THEN {channel} ELSE {})
     ELSE VerificationFailed(k)
  /\ UNCHANGED <<leasing, approved, evidence, judging, missed, faults>>

CheckTests(k) ==
  /\ Checking(k, "tests")
  /\ \E r \in Tests(Numbers) \cup {Unreadable} :
       Conclude(k, "tests", "tc", TestsOk(r), TestsProve(r))

\* runAuthoredCheck without a baseline: no failure, but no proof either.
SkipAuthored(k) ==
  /\ \E c \in Authored :
       /\ Checking(k, c) /\ workers[k].job.wp \notin approved
       /\ Accept(k, c, {<<c, "skipped">>}, {})
  /\ UNCHANGED <<leasing, approved, evidence, judging, missed, faults>>

\* executeAuthoredTest: an independent run writes the tests, the tester runs
\* them; no test file or no answer is a failure.
CheckAuthored(k) ==
  \E c \in Authored \cup {"mutation"} :
    /\ Checking(k, c) /\ (c \in Authored => workers[k].job.wp \in approved)
    /\ \E r \in Tests(Numbers) \cup {Unreadable} : Conclude(k, c, c, TestsOk(r), TestsProve(r))

\* runSecurityCheck, for one artifact or none, in the workspace or outside.
CheckSecurity(k) ==
  /\ Checking(k, "security")
  /\ \E r \in Audits(Numbers) \cup {Unreadable}, sent \in 0..1, dropped \in 0..1 :
       Conclude(k, "security", "security", ChannelAuditOk(r, sent, dropped),
                ChannelAuditProves(r, sent, dropped))

\* persistVerificationEvidence: a failure is swallowed; a row that is there stays.
RecordEvidence(k) ==
  /\ workers[k].pc = "record"
  /\ LET t == workers[k].job
         rows == {[wp |-> t.wp, attempt |-> t.attempt, channel |-> o[1], outcome |-> o[2]] :
                    o \in workers[k].got} IN
       \/ /\ evidence' = evidence \cup
               {r \in rows : ~\E e \in evidence :
                  e.wp = r.wp /\ e.attempt = r.attempt /\ e.channel = r.channel}
          /\ UNCHANGED faults
       \/ Fault /\ UNCHANGED evidence
  /\ workers' = [workers EXCEPT ![k].pc = "publish", ![k].got = {}]
  /\ UNCHANGED <<leasing, approved, judging, ghosts>>

PublishCompletion(k) ==
  /\ workers[k].pc = "publish"
  /\ completions' = completions \cup {workers[k].job.wp}
  /\ workers' = [workers EXCEPT ![k] = NoWork]
  /\ UNCHANGED <<leasing, approved, evidence, gating, gates, ghosts, faults>>

\* A query or a publish throws, or the process dies.
WorkerDies(k) ==
  /\ workers[k].pc # "idle" /\ Fault
  /\ workers' = [workers EXCEPT ![k] = NoWork]
  /\ UNCHANGED <<leasing, approved, evidence, judging, ghosts>>

-----------------------------------------------------------------------------
(* handleCompletion and maybeEvaluateReleaseGate: one consumer.            *)

HandleCompletion(w) ==
  /\ gating.pc = "idle" /\ w \in completions
  /\ completions' = completions \ {w}
  /\ IF leases[w].status = "active"
     THEN /\ leases' = [leases EXCEPT ![w].status = "released"]
          /\ gating' = [pc |-> "graph"]
     ELSE UNCHANGED <<leases, gating>>
  /\ UNCHANGED <<graph, signals, workers, approved, evidence, gates, ghosts, faults>>

ReadGraph ==
  /\ gating.pc = "graph"
  /\ gating' = [pc |-> "states", wps |-> graph]
  /\ UNCHANGED <<leasing, workers, approved, evidence, completions, gates, ghosts, faults>>

AllWpDone(wps) == wps \subseteq Done

\* latestStates; the version of the gate is the set of DONE packages.
ReadStates ==
  /\ gating.pc = "states"
  /\ gating' = IF AllWpDone(gating.wps)
               THEN [pc |-> "evidence", wps |-> gating.wps, version |-> Done]
               ELSE [pc |-> "idle"]
  /\ UNCHANGED <<leasing, workers, approved, evidence, completions, gates, ghosts, faults>>

\* evidenceForWorkflow: per channel the row of the highest attempt.
OutcomesOf(w) ==
  {<<e.channel, e.outcome>> : e \in {f \in evidence : f.wp = w /\
     \A g \in evidence : g.wp = w /\ g.channel = f.channel => g.attempt <= f.attempt}}

JudgedEver(version) == gates # {}  \* mutant
\* ON CONFLICT (workflow_id, gate_version) DO NOTHING
JudgedBefore(version) == \E g \in gates : g.version = version

\* evaluateReleaseGate and recordGate: a version is judged once.
RecordGate ==
  /\ gating.pc = "evidence"
  /\ LET status == IF \A w \in gating.wps : Proven(RoleOf[w], OutcomesOf(w))
                   THEN "passed" ELSE "blocked" IN
       gates' = IF JudgedBefore(gating.version) THEN gates
                ELSE gates \cup {[version |-> gating.version, status |-> status,
                                  wps |-> gating.wps]}
  /\ gating' = [pc |-> "idle"]
  /\ UNCHANGED <<leasing, workers, approved, evidence, completions, ghosts, faults>>

\* The evaluation throws, which is swallowed, or the process dies.
GatingFails ==
  /\ gating.pc # "idle" /\ Fault
  /\ gating' = [pc |-> "idle"] /\ missed' = TRUE
  /\ UNCHANGED <<leasing, workers, approved, evidence, completions, gates, proved>>

-----------------------------------------------------------------------------
WorkerStep(k) ==
  \/ \E t \in signals : TakeSignal(k, t)
  \/ Execute(k) \/ CheckBuild(k) \/ CheckTests(k) \/ SkipAuthored(k) \/ CheckAuthored(k)
  \/ CheckSecurity(k) \/ RecordEvidence(k) \/ PublishCompletion(k) \/ WorkerDies(k)

VerificationNext ==
  \/ \E w \in Wps : \/ Dispatch(w) \/ Expire(w) \/ Approve(w)
                    \/ HandleCompletion(w)
  \/ Redecompose
  \/ \E k \in Workers : WorkerStep(k)
  \/ ReadGraph \/ ReadStates \/ RecordGate \/ GatingFails

Spec == Init /\ [][VerificationNext]_vars

-----------------------------------------------------------------------------
(* Properties.                                                             *)

\* What the configuration asks to be shown of a package, in one attempt.
Asked(w) ==
  {RequiredChannel(RoleOf[w])} \cup
  (IF RoleOf[w] = "developer" THEN Channels \ OutOfScope(w) ELSE {})
ShownIn(w, n, kinds) == \A c \in kinds : <<w, n, c>> \in proved

\* Verification fails closed (worker.ts, verify.ts): a package is DONE only if
\* the answers to one of its attempts show, by their own fields, what its role
\* requires, and every channel asked for that needs no baseline of a person.
DoneIsProven ==
  \A w \in Done : \E n \in Attempts : ShownIn(w, n, Asked(w) \ Authored)

\* A gate that passed rests on proof, not on a mixture: for every package it
\* judged there is one attempt that shows everything the configuration asks,
\* however attempts, failed records and approvals interleaved
\* (db/release-gate.repo.ts evidenceForWorkflow, release-gate.ts).
PassedIsProven ==
  \A g \in gates : g.status = "passed" =>
    \A w \in g.wps : \E n \in Attempts : ShownIn(w, n, Asked(w))

\* When all packages of the graph are DONE and the completion handler is at
\* rest, the set of DONE packages has been judged, unless the evaluation was
\* lost or a re-decomposition took away the last open package: completion.ts
\* evaluates nowhere else.
DoneIsJudged ==
  (gating.pc = "idle" /\ graph \subseteq Done /\ ~missed) =>
    \E g \in gates : g.version = Done

=============================================================================
