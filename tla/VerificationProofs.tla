--------------------------- MODULE VerificationProofs ---------------------------
(***************************************************************************)
(* Verdicts for all integers an answer may hold and all numbers of         *)
(* artifacts, and WpVerification for every set of packages, roles,         *)
(* switched-on channels and workers, every number of attempts and faults.  *)
(*                                                                         *)
(* The argument for the release gate: an attempt is signalled once and     *)
(* taken by one worker, which leaves its evidence as a whole or not at     *)
(* all; so the rows of the highest attempt per channel are the rows of     *)
(* one attempt, and each of its verdicts was shown.  For its evaluation:   *)
(* nothing becomes DONE while the one completion handler evaluates.        *)
(***************************************************************************)
EXTENDS WpVerification, TLAPS

\* Verification of a package's own answer fails closed: tests that pass have
\* run and none has failed, a design that passes has components of a model, and
\* an audit that passes has looked at what was asked for (verify.ts
\* judgePrimaryResult, judgeDesignUiWp, judgeSecurityAuditWp).
THEOREM VerdictsProve ==
  /\ \A r \in Tests(Int) : TestsOk(r) => TestsProve(r)
  /\ \A r \in Designs(Nat) : DesignOk(r) => DesignProves(r)
  /\ \A r \in Audits(Int) : AuditedOk(r) => AuditProves(r)
<1>1. ASSUME NEW r \in Tests(Int), TestsOk(r) PROVE TestsProve(r)
  BY <1>1 DEF TestsOk, TestsProve
<1>2. ASSUME NEW r \in Designs(Nat), DesignOk(r) PROVE DesignProves(r)
  BY <1>2 DEF Designs, DesignOk, DesignProves
<1>3. ASSUME NEW r \in Audits(Int), AuditedOk(r) PROVE AuditProves(r)
  <2>1. r.requested \in Int /\ r.scanned \in Int /\ r.scanned >= 0
    BY <1>3 DEF Audits, AuditedOk
  <2>2. r.readable /\ ~(r.requested > 0 /\ r.scanned = 0) /\ ~(r.scanned = 0 /\ r.deps # "ok")
    BY <1>3 DEF AuditedOk
  <2>3. QED
    BY <2>1, <2>2 DEF AuditProves
<1>4. QED
  BY <1>1, <1>2, <1>3

\* The security channel of a package that made code passes only if something of
\* it was scanned, nothing was dropped and nothing severe was found, whatever
\* numbers the agent reports (verify.ts judgeAuditable).
THEOREM ChannelProves ==
  \A r \in Audits(Int), sent \in Nat, dropped \in Nat :
    ChannelAuditOk(r, sent, dropped) => ChannelAuditProves(r, sent, dropped)
<1> SUFFICES ASSUME NEW r \in Audits(Int), NEW sent \in Nat, NEW dropped \in Nat,
                    ChannelAuditOk(r, sent, dropped)
             PROVE  ChannelAuditProves(r, sent, dropped)
  OBVIOUS
<1>1. r.requested \in Int /\ r.scanned \in Int
  BY DEF Audits
<1>2. sent > 0 => r.requested > 0
  BY <1>1 DEF ChannelAuditOk
<1>3. r.requested > 0 => r.scanned > 0
  BY <1>1 DEF ChannelAuditOk
<1>4. r.readable /\ dropped = 0 /\ ~r.issues
  BY DEF ChannelAuditOk
<1>5. QED
  BY <1>2, <1>3, <1>4 DEF ChannelAuditProves

\* An unreadable answer passes no verdict, and a package without evidence is
\* not proven: both ways the release stays shut (release-gate.ts).
LEMMA NothingProvesNothing ==
  /\ ~TestsOk(Unreadable) /\ ~BuildOk(Unreadable) /\ ~DesignOk(Unreadable) /\ ~AuditedOk(Unreadable)
  /\ \A sent, dropped \in Nat : ~ChannelAuditOk(Unreadable, sent, dropped)
  /\ \A role : ~Proven(role, {})
BY DEF Unreadable, TestsOk, BuildOk, DesignOk, AuditedOk, ChannelAuditOk, Proven

-----------------------------------------------------------------------------
(* The worker and the gate (WpVerification).                               *)

\* The attempt of the job has begun, and whether it left evidence.
Begun(t) == leases[t.wp].status # "none" /\ t.attempt <= leases[t.wp].attempt
Recorded(t) == \E e \in evidence : e.wp = t.wp /\ e.attempt = t.attempt

LeaseShapes ==
  /\ leases = [w \in Wps |-> leases[w]]
  /\ \A w \in Wps : /\ leases[w] = [x \in {"status", "attempt"} |-> leases[w][x]]
                    /\ leases[w].attempt \in Nat

SignalsAreFresh == \A t \in signals : t \in Jobs /\ Begun(t) /\ ~Recorded(t)

\* What a worker has collected for package w: an outcome for all that is asked,
\* unless its check is still to come; of that, only a channel without a baseline
\* may be skipped.
Collected(w, got, todo) ==
  /\ \A c \in Asked(w) :
       \/ \E o \in got : o[1] = c
       \/ c \in todo \/ (c = "tc" /\ "tests" \in todo)
  /\ \A o \in got : \/ o[2] = "passed"
                    \/ o[2] = "skipped" /\ o[1] \in Authored
                    \/ o[2] = "not_applicable" /\ o[1] \notin Asked(w)

IsWork(x) ==
  /\ x = [f \in {"pc", "job", "todo", "got", "shown"} |-> x[f]]
  /\ x.pc \in {"execute", "check", "record", "publish"} /\ x.job \in Jobs

\* What needs no baseline was shown.
IsShown(w, n) == ShownIn(w, n, Asked(w) \ Authored)

IsSound(x) ==
  /\ x.pc # "publish" => ~Recorded(x.job)
  /\ x.pc = "check" =>
       /\ RoleOf[x.job.wp] = "developer" /\ Collected(x.job.wp, x.got, x.todo)
       /\ \A o \in x.got : o[2] = "passed" => o[1] \in x.shown
  /\ x.pc = "record" =>
       /\ Collected(x.job.wp, x.got, {})
       /\ \A o \in x.got : o[2] = "passed" => <<x.job.wp, x.job.attempt, o[1]>> \in proved
  /\ x.pc = "publish" => IsShown(x.job.wp, x.job.attempt)

WorkersAreSound ==
  /\ workers = [k \in Workers |-> workers[k]]
  /\ \A k \in Workers :
       workers[k] = NoWork \/ (IsWork(workers[k]) /\ Begun(workers[k].job) /\ IsSound(workers[k]))

\* An attempt is signalled once and taken by one worker.
JobsAreSingle ==
  \A k \in Workers : workers[k] # NoWork =>
    /\ workers[k].job \notin signals
    /\ \A l \in Workers \ {k} : workers[l] # NoWork => workers[l].job # workers[k].job

EvidenceIsWhole ==
  \A e \in evidence :
    /\ e.wp \in Wps /\ e.attempt \in Attempts /\ Begun(e)
    /\ \A c \in Asked(e.wp) :
         \E f \in evidence : f.wp = e.wp /\ f.attempt = e.attempt /\ f.channel = c
    /\ e.outcome = "passed" => <<e.wp, e.attempt, e.channel>> \in proved
    /\ e.outcome = "not_applicable" => e.channel \notin Asked(e.wp)

\* What an evaluation under way has read still says that all was DONE.
EvaluationIsCurrent ==
  /\ DoneIsJudged
  /\ (gating.pc = "states" /\ graph \subseteq Done /\ ~missed) => gating.wps \subseteq Done
  /\ gating.pc = "evidence" => gating.version = Done

JobInv ==
  /\ LeaseShapes /\ SignalsAreFresh /\ WorkersAreSound /\ JobsAreSingle /\ EvidenceIsWhole
\* The same of a package whose completion is published or handled.
ClosedIsProven == \A w \in completions \cup Done : \E n \in Attempts : IsShown(w, n)

VerificationInv == JobInv /\ EvaluationIsCurrent /\ PassedIsProven /\ ClosedIsProven

LEMMA JobFacts ==
  /\ Attempts \subseteq Nat
  /\ \A t \in Jobs : t.wp \in Wps /\ t.attempt \in Attempts
  /\ \A t, u \in Jobs : t.wp = u.wp /\ t.attempt = u.attempt => t = u
  /\ \A w \in Wps, n \in Attempts :
       Job(w, n) \in Jobs /\ Job(w, n).wp = w /\ Job(w, n).attempt = n
<1> USE VerificationAssumption
<1>1. Attempts \subseteq Nat
  BY DEF Attempts
<1> USE DEF Jobs, Job
<1>2. \A t \in Jobs : /\ t = [x \in {"wp", "attempt"} |-> t[x]]
                      /\ t.wp \in Wps /\ t.attempt \in Attempts
  OBVIOUS
<1>3. \A t, u \in Jobs : t.wp = u.wp /\ t.attempt = u.attempt => t = u
  <2> TAKE t, u \in Jobs
  <2>1. ASSUME t.wp = u.wp, t.attempt = u.attempt
        PROVE  \A x \in {"wp", "attempt"} : t[x] = u[x]
    BY <2>1
  <2> QED BY <1>2, <2>1
<1>4. \A w \in Wps, n \in Attempts :
        Job(w, n) \in Jobs /\ Job(w, n).wp = w /\ Job(w, n).attempt = n
  OBVIOUS
<1> QED BY <1>1, <1>2, <1>3, <1>4

LEMMA AskedFacts ==
  /\ \A w : OutOfScope(w) \subseteq Channels
  /\ "tc" \notin Channels /\ "tests" \notin Channels
  /\ \A w : RoleOf[w] = "developer" => Asked(w) = {"tc"} \cup (Channels \ OutOfScope(w))
  /\ \A w : RoleOf[w] # "developer" => Asked(w) = {RequiredChannel(RoleOf[w])}
  BY DEF OutOfScope, Channels, Asked, RequiredChannel

\* Steps that leave the jobs and their evidence alone.
LEMMA JobsUntouched ==
  ASSUME JobInv, UNCHANGED <<leases, signals, workers, evidence, proved>>
  PROVE  JobInv'
<1> USE DEF JobInv
<1>1. LeaseShapes' /\ SignalsAreFresh'
  BY DEF LeaseShapes, SignalsAreFresh, Begun, Recorded
<1>2. WorkersAreSound'
  <2>1. \A y : IsSound(y) => IsSound(y)'
    BY DEF IsSound, Recorded, IsShown, ShownIn
  <2> QED BY <2>1 DEF WorkersAreSound, Begun
<1>3. JobsAreSingle'
  BY DEF JobsAreSingle
<1>4. EvidenceIsWhole'
  BY DEF EvidenceIsWhole, Begun
<1> QED BY <1>1, <1>2, <1>3, <1>4

\* Worker k goes on with its job, or is done with it.
LEMMA WorkerMoves ==
  ASSUME JobInv, NEW k \in Workers, NEW x, workers' = [workers EXCEPT ![k] = x],
         UNCHANGED <<leases, signals, evidence>>, proved \subseteq proved',
         \/ x = NoWork
         \/ workers[k] # NoWork /\ IsWork(x) /\ x.job = workers[k].job /\ IsSound(x)'
  PROVE  JobInv'
<1> USE DEF JobInv
<1>1. LeaseShapes' /\ SignalsAreFresh'
  BY DEF LeaseShapes, SignalsAreFresh, Begun, Recorded
<1>2. \A y : IsSound(y) => IsSound(y)'
  BY DEF IsSound, Recorded, IsShown, ShownIn
<1>3. WorkersAreSound'
  BY <1>2 DEF WorkersAreSound, Begun
<1>4. JobsAreSingle'
  BY DEF JobsAreSingle, WorkersAreSound
<1>5. EvidenceIsWhole'
  BY DEF EvidenceIsWhole, Begun
<1> QED BY <1>1, <1>3, <1>4, <1>5

\* Worker k fails, dies or has published.
LEMMA WorkerStops ==
  ASSUME JobInv, NEW k \in Workers, workers' = [workers EXCEPT ![k] = NoWork],
         UNCHANGED <<leases, signals, evidence, proved>>
  PROVE  JobInv'
  BY WorkerMoves

\* A check is accepted with what it was asked for.
LEMMA CheckAccepted ==
  ASSUME JobInv, NEW k \in Workers, NEW check, NEW outcomes, NEW shown,
         Checking(k, check), Accept(k, check, outcomes, shown),
         \/ check = "build"
         \/ \E o \in outcomes : o[1] = IF check = "tests" THEN "tc" ELSE check,
         \A o \in outcomes : \/ o[2] = "passed" /\ o[1] \in shown
                             \/ o[2] = "skipped" /\ o[1] \in Authored,
         UNCHANGED <<leases, signals, evidence>>
  PROVE  JobInv'
<1> USE DEF JobInv
<1> PICK t, got, all, rest :
         /\ t = workers[k].job /\ rest = workers[k].todo \ {check}
         /\ got = workers[k].got \cup outcomes /\ all = workers[k].shown \cup shown
  OBVIOUS
<1>1. /\ workers[k] # NoWork /\ IsWork(workers[k]) /\ IsSound(workers[k])
      /\ workers[k].pc = "check" /\ ~Recorded(t)
  BY DEF Checking, WorkersAreSound, NoWork, IsSound
<1>2. Collected(t.wp, got, rest) /\ RoleOf[t.wp] = "developer"
  <2>1. Collected(t.wp, workers[k].got, workers[k].todo) /\ RoleOf[t.wp] = "developer"
    BY <1>1 DEF IsSound
  <2>2. "build" \notin Asked(t.wp) /\ "tests" \notin Asked(t.wp)
    BY <2>1, AskedFacts DEF Channels
  <2> QED BY <2>1, <2>2 DEF Collected
<1>3. \A o \in got : o[2] = "passed" => o[1] \in all
  BY <1>1 DEF IsSound
<1>4. CASE rest = {}
  <2> PICK x : x = [workers[k] EXCEPT !.pc = "record", !.todo = {}, !.got = got, !.shown = {}]
    OBVIOUS
  <2>1. /\ workers' = [workers EXCEPT ![k] = x]
        /\ proved' = proved \cup {<<t.wp, t.attempt, c>> : c \in all}
    BY <1>4 DEF Accept, Verified
  <2>2. IsWork(x) /\ x.job = t /\ x.pc = "record" /\ x.got = got
    BY <1>1 DEF IsWork
  <2>3. IsSound(x)'
    <3>1. Collected(t.wp, got, {}) /\ ~Recorded(t)'
      BY <1>1, <1>2, <1>4 DEF Recorded
    <3>2. \A o \in got : o[2] = "passed" => <<t.wp, t.attempt, o[1]>> \in proved'
      BY <1>3, <2>1
    <3> QED BY <2>2, <3>1, <3>2 DEF IsSound
  <2> QED BY <1>1, <2>1, <2>2, <2>3, WorkerMoves
<1>5. CASE rest # {}
  <2> PICK x : x = [workers[k] EXCEPT !.todo = rest, !.got = got, !.shown = all]
    OBVIOUS
  <2>1. workers' = [workers EXCEPT ![k] = x] /\ UNCHANGED proved
    BY <1>5 DEF Accept
  <2>2. IsWork(x) /\ x.job = t /\ x.pc = "check" /\ x.got = got /\ x.todo = rest /\ x.shown = all
    BY <1>1 DEF IsWork
  <2>3. IsSound(x)'
    <3>1. ~Recorded(t)'
      BY <1>1 DEF Recorded
    <3> QED BY <1>2, <1>3, <2>2, <3>1 DEF IsSound
  <2> QED BY <1>1, <2>1, <2>2, <2>3, WorkerMoves
<1> QED BY <1>4, <1>5

\* A channel is judged by what its answer shows.
LEMMA ChannelConcluded ==
  ASSUME JobInv, NEW k \in Workers, NEW check, NEW channel, NEW accepted, NEW shown,
         Checking(k, check), Conclude(k, check, channel, accepted, shown), accepted => shown,
         channel = IF check = "tests" THEN "tc" ELSE check
  PROVE  JobInv'
<1>1. UNCHANGED <<leases, signals, evidence>>
  BY DEF Conclude, leasing
<1>2. CASE accepted
  <2> PICK outcomes, kinds : outcomes = {<<channel, "passed">>} /\ kinds = {channel}
    OBVIOUS
  <2>1. Accept(k, check, outcomes, kinds)
    BY <1>2 DEF Conclude
  <2>2. /\ check = "build" \/ \E o \in outcomes : o[1] = IF check = "tests" THEN "tc" ELSE check
        /\ \A o \in outcomes : o[2] = "passed" /\ o[1] \in kinds
    OBVIOUS
  <2> QED BY <1>1, <2>1, <2>2, CheckAccepted
<1>3. CASE ~accepted
  BY <1>1, <1>3, WorkerStops DEF Conclude, VerificationFailed
<1> QED BY <1>2, <1>3

LEMMA JobTaken ==
  ASSUME JobInv, NEW k \in Workers, NEW t \in signals, TakeSignal(k, t)
  PROVE  JobInv'
<1> USE DEF JobInv
<1> DEFINE x == [pc |-> "execute", job |-> t, todo |-> {}, got |-> {}, shown |-> {}]
<1>1. /\ signals' = signals \ {t} /\ UNCHANGED <<leases, evidence, proved>>
      /\ workers' = [workers EXCEPT ![k] = NoWork] \/ workers' = [workers EXCEPT ![k] = x]
  BY DEF TakeSignal, ghosts
<1>2. t \in Jobs /\ Begun(t) /\ ~Recorded(t)
  BY DEF SignalsAreFresh
<1>3. IsWork(x) /\ x.job = t /\ x.pc = "execute" /\ x # NoWork
  BY <1>2 DEF IsWork, NoWork
<1> HIDE DEF x
<1>4. LeaseShapes' /\ SignalsAreFresh' /\ EvidenceIsWhole'
  BY <1>1 DEF LeaseShapes, SignalsAreFresh, EvidenceIsWhole, Begun, Recorded
<1>5. \A y : IsSound(y) => IsSound(y)'
  BY <1>1 DEF IsSound, Recorded, IsShown, ShownIn
<1>6. IsSound(x)'
  BY <1>1, <1>2, <1>3 DEF IsSound, Recorded
<1>7. WorkersAreSound'
  BY <1>1, <1>2, <1>3, <1>5, <1>6 DEF WorkersAreSound, Begun
<1>8. JobsAreSingle'
  BY <1>1, <1>3 DEF JobsAreSingle, WorkersAreSound
<1> QED BY <1>4, <1>7, <1>8

\* The attempt n of package w begins and is signalled.
LEMMA AttemptBegins ==
  ASSUME JobInv, NEW w \in Wps, NEW n \in Attempts, NEW lease,
         leases' = [leases EXCEPT ![w] = lease],
         lease = [x \in {"status", "attempt"} |-> lease[x]],
         lease.status # "none" /\ lease.attempt \in Nat /\ n <= lease.attempt,
         leases[w].status # "none" => leases[w].attempt < n /\ leases[w].attempt <= lease.attempt,
         signals' = signals \cup {Job(w, n)},
         UNCHANGED <<workers, evidence, proved>>
  PROVE  JobInv'
<1> USE DEF JobInv
<1>1. \A t : t.wp \in Wps /\ t.attempt \in Nat /\ Begun(t) => Begun(t)' /\ (t.wp # w \/ t.attempt # n)
  BY JobFacts DEF Begun, LeaseShapes
<1>2. Begun(Job(w, n))' /\ Job(w, n) \in Jobs
  BY JobFacts DEF Begun, LeaseShapes
<1>3. ~Recorded(Job(w, n))
  BY ZenonT(40), <1>1, JobFacts DEF Recorded, EvidenceIsWhole
<1>4. LeaseShapes'
  BY DEF LeaseShapes
<1>5. SignalsAreFresh'
  BY <1>1, <1>2, <1>3, JobFacts DEF SignalsAreFresh, Recorded
<1>6. \A k \in Workers : workers[k] # NoWork =>
        Begun(workers[k].job)' /\ workers[k].job # Job(w, n)
  BY <1>1, JobFacts DEF WorkersAreSound, IsWork
<1>7. WorkersAreSound'
  BY <1>6 DEF WorkersAreSound, IsSound, Recorded, IsShown, ShownIn
<1>8. JobsAreSingle'
  BY <1>6 DEF JobsAreSingle
<1>9. EvidenceIsWhole'
  <2>1. \A e \in evidence : Begun(e)'
    BY <1>1, JobFacts DEF EvidenceIsWhole
  <2> QED BY <2>1 DEF EvidenceIsWhole
<1> QED BY <1>4, <1>5, <1>7, <1>8, <1>9

\* The status of a lease that has begun changes, its attempt does not.
LEMMA LeaseEnds ==
  ASSUME JobInv, NEW w \in Wps, NEW status, status # "none", leases[w].status # "none",
         leases' = [leases EXCEPT ![w].status = status],
         UNCHANGED <<signals, workers, evidence, proved>>
  PROVE  JobInv'
<1> USE DEF JobInv
<1> DEFINE lease == [leases[w] EXCEPT !.status = status]
<1>1. /\ leases' = [leases EXCEPT ![w] = lease]
      /\ lease = [x \in {"status", "attempt"} |-> lease[x]]
      /\ lease.status = status /\ lease.attempt = leases[w].attempt
  BY DEF LeaseShapes
<1> HIDE DEF lease
<1>2. LeaseShapes'
  BY <1>1 DEF LeaseShapes
<1>3. \A t : t.wp \in Wps /\ Begun(t) => Begun(t)'
  BY <1>1 DEF Begun, LeaseShapes
<1>4. SignalsAreFresh'
  BY <1>3, JobFacts DEF SignalsAreFresh, Recorded
<1>5. WorkersAreSound'
  BY <1>3, JobFacts DEF WorkersAreSound, IsWork, IsSound, Recorded, IsShown, ShownIn
<1>6. JobsAreSingle' /\ EvidenceIsWhole'
  BY <1>3 DEF JobsAreSingle, EvidenceIsWhole
<1> QED BY <1>2, <1>4, <1>5, <1>6

LEMMA LeaseMoves ==
  ASSUME JobInv, NEW w \in Wps, Dispatch(w) \/ Expire(w)
  PROVE  JobInv' /\ UNCHANGED Done
<1> USE DEF JobInv
<1>1. CASE Dispatch(w)
  <2> DEFINE lease == [leases[w] EXCEPT !.status = "active"]
  <2>1. /\ leases' = [leases EXCEPT ![w] = lease] /\ leases[w].status = "none"
        /\ signals' = signals \cup {Job(w, 0)} /\ UNCHANGED <<workers, evidence, proved>>
    BY <1>1 DEF Dispatch, ghosts
  <2>2. /\ lease = [x \in {"status", "attempt"} |-> lease[x]]
        /\ lease.status = "active" /\ lease.attempt = leases[w].attempt /\ lease.attempt \in Nat
    BY DEF LeaseShapes
  <2> HIDE DEF lease
  <2>3. 0 \in Attempts /\ 0 <= lease.attempt
    BY <2>2, VerificationAssumption DEF Attempts
  <2>4. JobInv'
    BY <2>1, <2>2, <2>3, AttemptBegins
  <2>5. UNCHANGED Done
    BY <2>1, <2>2 DEF Done, LeaseShapes
  <2> QED BY <2>4, <2>5
<1>2. CASE Expire(w) /\ leases[w].attempt + 1 < MaxAttempts
  <2> DEFINE n == leases[w].attempt + 1
             lease == [leases[w] EXCEPT !.attempt = n]
  <2>1. /\ leases' = [leases EXCEPT ![w] = lease] /\ leases[w].status = "active"
        /\ signals' = signals \cup {Job(w, n)} /\ UNCHANGED <<workers, evidence, proved>>
    BY <1>2 DEF Expire, ghosts
  <2>2. /\ lease = [x \in {"status", "attempt"} |-> lease[x]]
        /\ lease.status = leases[w].status /\ lease.attempt = n /\ leases[w].attempt \in Nat
    BY DEF LeaseShapes
  <2>3. n \in Attempts /\ n \in Nat /\ leases[w].attempt < n /\ n <= lease.attempt
    BY <1>2, <2>2, VerificationAssumption DEF Attempts
  <2> HIDE DEF lease, n
  <2>4. JobInv'
    BY <2>1, <2>2, <2>3, AttemptBegins
  <2>5. UNCHANGED Done
    BY <2>1, <2>2 DEF Done, LeaseShapes
  <2> QED BY <2>4, <2>5
<1>3. CASE Expire(w) /\ ~(leases[w].attempt + 1 < MaxAttempts)
  <2>1. /\ leases' = [leases EXCEPT ![w].status = "escalated"] /\ leases[w].status = "active"
        /\ UNCHANGED <<signals, workers, evidence, proved>>
    BY <1>3 DEF Expire, ghosts
  <2>2. JobInv'
    BY <2>1, LeaseEnds
  <2>3. UNCHANGED Done
    BY <2>1 DEF Done, LeaseShapes
  <2> QED BY <2>2, <2>3
<1> QED BY <1>1, <1>2, <1>3

\* What the worker accepts of the agents' answers shows what it stands for.
LEMMA AnswersShow ==
  /\ \A r \in Tests(Numbers) \cup {Unreadable} : TestsOk(r) => TestsProve(r)
  /\ \A r \in Audits(Numbers) \cup {Unreadable}, sent, dropped \in 0..1 :
       ChannelAuditOk(r, sent, dropped) => ChannelAuditProves(r, sent, dropped)
  /\ \A role \in Roles : \A r \in Answers(role) :
       PrimaryOk(role, r) => role = "developer" \/ Proves(role, r)
<1>1. /\ Tests(Numbers) \subseteq Tests(Int) /\ Designs(Numbers) \subseteq Designs(Nat)
      /\ Audits(Numbers) \subseteq Audits(Int) /\ 0..1 \subseteq Nat
  <2>1. Numbers \subseteq Int /\ Numbers \subseteq Nat
    BY DEF Numbers
  <2>2. Tests(Numbers) \subseteq Tests(Int)
    BY <2>1 DEF Tests
  <2>3. Designs(Numbers) \subseteq Designs(Nat)
    BY <2>1 DEF Designs
  <2>4. Audits(Numbers) \subseteq Audits(Int)
    BY <2>1 DEF Audits
  <2> QED BY <2>2, <2>3, <2>4
<1>2. \A r \in Tests(Numbers) \cup {Unreadable} : TestsOk(r) => TestsProve(r)
  BY <1>1, VerdictsProve, NothingProvesNothing
<1>3. \A r \in Audits(Numbers) \cup {Unreadable}, sent, dropped \in 0..1 :
        ChannelAuditOk(r, sent, dropped) => ChannelAuditProves(r, sent, dropped)
  BY <1>1, ChannelProves, NothingProvesNothing
<1>4. ASSUME NEW role \in Roles, NEW r \in Answers(role), PrimaryOk(role, r)
      PROVE  role = "developer" \/ Proves(role, r)
  <2>1. CASE role = "tester"
    BY <1>2, <1>4, <2>1 DEF Answers, PrimaryOk, Proves
  <2>2. CASE role = "designer"
    BY <1>1, <1>4, <2>2, VerdictsProve, NothingProvesNothing DEF Answers, PrimaryOk, Proves
  <2>3. CASE role = "security"
    BY <1>1, <1>4, <2>3, VerdictsProve, NothingProvesNothing DEF Answers, PrimaryOk, Proves
  <2>4. CASE role = "builder"
    BY <1>4, <2>4 DEF PrimaryOk, Proves
  <2> QED BY <2>1, <2>2, <2>3, <2>4 DEF Roles
<1> QED BY <1>2, <1>3, <1>4

LEMMA Executed ==
  ASSUME JobInv, NEW k \in Workers, Execute(k)
  PROVE  JobInv'
<1> USE DEF JobInv
<1> PICK t, role, kind : /\ t = workers[k].job /\ role = RoleOf[t.wp]
                         /\ kind = RequiredChannel(role)
  OBVIOUS
<1>1. /\ workers[k] # NoWork /\ IsWork(workers[k]) /\ ~Recorded(t)
      /\ UNCHANGED <<leases, signals, evidence>>
  BY DEF Execute, WorkersAreSound, NoWork, IsSound, leasing
<1>2. role \in Roles /\ t \in Jobs
  BY <1>1, JobFacts, VerificationAssumption DEF IsWork
<1>3. PICK r \in Answers(role) :
        IF ~PrimaryOk(role, r) THEN VerificationFailed(k)
        ELSE IF role = "developer"
        THEN /\ workers' = [workers EXCEPT ![k] =
                  [@ EXCEPT !.pc = "check", !.todo = PlanOf(t.wp),
                            !.got = {<<c, "not_applicable">> : c \in OutOfScope(t.wp)}]]
             /\ UNCHANGED proved
        ELSE Verified(k, {<<kind, "passed">>}, IF Proves(role, r) THEN {kind} ELSE {})
  BY DEF Execute
<1>4. CASE ~PrimaryOk(role, r)
  BY <1>1, <1>3, <1>4, WorkerStops DEF VerificationFailed
<1>5. CASE PrimaryOk(role, r) /\ role = "developer"
  <2> PICK plan, got : plan = PlanOf(t.wp) /\ got = {<<c, "not_applicable">> : c \in OutOfScope(t.wp)}
    OBVIOUS
  <2> PICK x : x = [workers[k] EXCEPT !.pc = "check", !.todo = plan, !.got = got]
    OBVIOUS
  <2>1. workers' = [workers EXCEPT ![k] = x] /\ UNCHANGED proved
    BY <1>3, <1>5
  <2>2. IsWork(x) /\ x.job = t /\ x.pc = "check" /\ x.got = got /\ x.todo = plan
    BY <1>1 DEF IsWork
  <2>3. Collected(t.wp, got, plan)
    <3>1. Asked(t.wp) = {"tc"} \cup (Channels \ OutOfScope(t.wp))
      BY <1>5, AskedFacts
    <3>2. "tests" \in plan /\ Channels \ OutOfScope(t.wp) \subseteq plan
      BY <1>5, AskedFacts DEF PlanOf, Checks
    <3>3. \A o \in got : o[1] \in OutOfScope(t.wp)
      OBVIOUS
    <3> QED BY <3>1, <3>2, <3>3, AskedFacts DEF Collected
  <2>4. \A o \in got : o[2] # "passed"
    OBVIOUS
  <2>5. IsSound(x)'
    <3>1. ~Recorded(t)'
      BY <1>1 DEF Recorded
    <3> QED BY <1>5, <2>2, <2>3, <2>4, <3>1 DEF IsSound
  <2> QED BY <1>1, <2>1, <2>2, <2>5, WorkerMoves
<1>6. CASE PrimaryOk(role, r) /\ role # "developer"
  <2> PICK got : got = {<<kind, "passed">>}
    OBVIOUS
  <2> PICK x : x = [workers[k] EXCEPT !.pc = "record", !.todo = {}, !.got = got, !.shown = {}]
    OBVIOUS
  <2>1. /\ workers' = [workers EXCEPT ![k] = x]
        /\ proved' = proved \cup {<<t.wp, t.attempt, kind>>}
    <3>1. Proves(role, r)
      BY <1>2, <1>6, AnswersShow
    <3>2. Verified(k, got, {kind})
      BY <1>3, <1>6, <3>1
    <3> QED BY <3>2 DEF Verified
  <2>2. IsWork(x) /\ x.job = t /\ x.pc = "record" /\ x.got = got
    BY <1>1 DEF IsWork
  <2>3. Collected(t.wp, got, {})
    BY <1>6, AskedFacts DEF Collected
  <2>4. \A o \in got : <<t.wp, t.attempt, o[1]>> \in proved'
    BY <2>1
  <2>5. IsSound(x)'
    <3>1. ~Recorded(t)'
      BY <1>1 DEF Recorded
    <3> QED BY <2>2, <2>3, <2>4, <3>1 DEF IsSound
  <2> QED BY <1>1, <2>1, <2>2, <2>5, WorkerMoves
<1> QED BY <1>4, <1>5, <1>6

LEMMA Checked ==
  ASSUME JobInv, NEW k \in Workers,
         \/ CheckBuild(k) \/ CheckTests(k) \/ SkipAuthored(k) \/ CheckAuthored(k)
         \/ CheckSecurity(k)
  PROVE  JobInv'
<1>1. CASE CheckBuild(k)
  <2>1. /\ UNCHANGED <<leases, signals, evidence>> /\ Checking(k, "build")
        /\ Accept(k, "build", {}, {}) \/ VerificationFailed(k)
    BY <1>1 DEF CheckBuild, leasing
  <2>2. CASE VerificationFailed(k)
    BY <2>1, <2>2, WorkerStops DEF VerificationFailed
  <2>3. CASE Accept(k, "build", {}, {})
    BY <2>1, <2>3, CheckAccepted
  <2> QED BY <2>1, <2>2, <2>3
<1>2. CASE CheckTests(k)
  <2>1. PICK r \in Tests(Numbers) \cup {Unreadable} :
          Conclude(k, "tests", "tc", TestsOk(r), TestsProve(r))
    BY <1>2 DEF CheckTests
  <2>2. Checking(k, "tests") /\ (TestsOk(r) => TestsProve(r))
    BY <1>2, AnswersShow DEF CheckTests
  <2> PICK ok, shown : ok = TestsOk(r) /\ shown = TestsProve(r)
    OBVIOUS
  <2> QED BY <2>1, <2>2, ChannelConcluded
<1>3. CASE SkipAuthored(k)
  <2>1. PICK c \in Authored : Checking(k, c) /\ Accept(k, c, {<<c, "skipped">>}, {})
    BY <1>3 DEF SkipAuthored
  <2> PICK outcomes, kinds : outcomes = {<<c, "skipped">>} /\ kinds = {}
    OBVIOUS
  <2>2. /\ \E o \in outcomes : o[1] = IF c = "tests" THEN "tc" ELSE c
        /\ \A o \in outcomes : o[2] = "skipped" /\ o[1] \in Authored
    BY DEF Authored
  <2>3. UNCHANGED <<leases, signals, evidence>>
    BY <1>3 DEF SkipAuthored, leasing
  <2> QED BY <2>1, <2>2, <2>3, CheckAccepted
<1>4. CASE CheckAuthored(k)
  <2>1. PICK c \in Authored \cup {"mutation"}, r \in Tests(Numbers) \cup {Unreadable} :
          Checking(k, c) /\ Conclude(k, c, c, TestsOk(r), TestsProve(r))
    BY <1>4 DEF CheckAuthored
  <2>2. (TestsOk(r) => TestsProve(r)) /\ c # "tests"
    BY AnswersShow DEF Authored
  <2> PICK ok, shown : ok = TestsOk(r) /\ shown = TestsProve(r)
    OBVIOUS
  <2> QED BY <2>1, <2>2, ChannelConcluded
<1>5. CASE CheckSecurity(k)
  <2>1. PICK r \in Audits(Numbers) \cup {Unreadable}, sent \in 0..1, dropped \in 0..1 :
          Conclude(k, "security", "security", ChannelAuditOk(r, sent, dropped),
                   ChannelAuditProves(r, sent, dropped))
    BY <1>5 DEF CheckSecurity
  <2>2. /\ Checking(k, "security")
        /\ ChannelAuditOk(r, sent, dropped) => ChannelAuditProves(r, sent, dropped)
    BY <1>5, AnswersShow DEF CheckSecurity
  <2> PICK ok, shown : /\ ok = ChannelAuditOk(r, sent, dropped)
                       /\ shown = ChannelAuditProves(r, sent, dropped)
    OBVIOUS
  <2> QED BY <2>1, <2>2, ChannelConcluded
<1> QED BY <1>1, <1>2, <1>3, <1>4, <1>5

LEMMA EvidenceRecorded ==
  ASSUME JobInv, NEW k \in Workers, RecordEvidence(k)
  PROVE  JobInv'
<1> USE DEF JobInv
<1> PICK t, got : t = workers[k].job /\ got = workers[k].got
  OBVIOUS
<1> DEFINE rows == {[wp |-> t.wp, attempt |-> t.attempt, channel |-> o[1], outcome |-> o[2]] :
                      o \in got}
<1>1. /\ workers[k] # NoWork /\ IsWork(workers[k]) /\ ~Recorded(t) /\ t \in Jobs /\ Begun(t)
      /\ Collected(t.wp, got, {})
      /\ \A o \in got : o[2] = "passed" => <<t.wp, t.attempt, o[1]>> \in proved
  BY DEF RecordEvidence, WorkersAreSound, NoWork, IsSound, IsWork
<1> PICK x : x = [workers[k] EXCEPT !.pc = "publish", !.got = {}]
  OBVIOUS
<1>2. workers' = [workers EXCEPT ![k] = x] /\ UNCHANGED <<leases, signals, proved>>
  BY DEF RecordEvidence, leasing, ghosts
<1>3. IsWork(x) /\ x.job = t /\ x.pc = "publish"
  BY <1>1 DEF IsWork
<1>4. IsSound(x)'
  <2>1. IsShown(t.wp, t.attempt)'
    BY <1>1, <1>2 DEF Collected, IsShown, ShownIn
  <2> QED BY <1>3, <2>1 DEF IsSound
<1>5. CASE UNCHANGED evidence
  BY <1>1, <1>2, <1>3, <1>4, <1>5, WorkerMoves
<1>6. CASE evidence' # evidence
  <2>1. evidence' = evidence \cup rows
    <3>1. \A r \in rows : r.wp = t.wp /\ r.attempt = t.attempt
      OBVIOUS
    <3>2. evidence' = evidence \cup
            {r \in rows : ~\E e \in evidence :
               e.wp = r.wp /\ e.attempt = r.attempt /\ e.channel = r.channel}
      BY <1>6 DEF RecordEvidence
    <3> QED BY <1>1, <3>1, <3>2 DEF Recorded
  <2>2. \A e \in rows : \E o \in got : /\ e.wp = t.wp /\ e.attempt = t.attempt
                                      /\ e.channel = o[1] /\ e.outcome = o[2]
    OBVIOUS
  <2>3. \A c \in Asked(t.wp) : \E e \in rows : e.channel = c
    <3> TAKE c \in Asked(t.wp)
    <3>1. PICK o \in got : o[1] = c
      BY <1>1 DEF Collected
    <3> DEFINE e == [wp |-> t.wp, attempt |-> t.attempt, channel |-> o[1], outcome |-> o[2]]
    <3>2. e \in rows /\ e.channel = c
      BY <3>1
    <3> QED BY <3>2
  <2> HIDE DEF rows
  <2>4. LeaseShapes'
    BY <1>2 DEF LeaseShapes
  <2>5. \A u \in Jobs : u # t /\ ~Recorded(u) => ~Recorded(u)'
    BY <1>1, <2>1, <2>2, JobFacts DEF Recorded
  <2>6. SignalsAreFresh'
    BY <1>1, <1>2, <2>5 DEF SignalsAreFresh, JobsAreSingle, Begun
  <2>7. WorkersAreSound'
    <3>1. \A l \in Workers \ {k} : workers[l] # NoWork => IsSound(workers[l])'
      BY <1>1, <1>2, <2>5 DEF WorkersAreSound, JobsAreSingle, IsSound, IsWork, IsShown, ShownIn
    <3> QED BY <1>1, <1>2, <1>3, <1>4, <3>1 DEF WorkersAreSound, Begun
  <2>8. JobsAreSingle'
    BY <1>1, <1>2, <1>3 DEF JobsAreSingle, WorkersAreSound, IsWork, NoWork
  <2>9. EvidenceIsWhole'
    <3>1. \A e \in rows : /\ e.wp \in Wps /\ e.attempt \in Attempts /\ Begun(e)
                          /\ e.outcome = "passed" => <<e.wp, e.attempt, e.channel>> \in proved
                          /\ e.outcome = "not_applicable" => e.channel \notin Asked(e.wp)
      BY <1>1, <2>2, JobFacts DEF Begun, Collected
    <3>2. \A e \in rows : \A c \in Asked(e.wp) :
            \E f \in rows : f.wp = e.wp /\ f.attempt = e.attempt /\ f.channel = c
      BY <2>2, <2>3
    <3>3. \A e \in evidence' : e.wp \in Wps /\ e.attempt \in Attempts /\ Begun(e)'
      BY <1>2, <2>1, <3>1 DEF EvidenceIsWhole, Begun
    <3>4. \A e \in evidence' : \A c \in Asked(e.wp) :
            \E f \in evidence' : f.wp = e.wp /\ f.attempt = e.attempt /\ f.channel = c
      <4>1. \A e \in evidence : \A c \in Asked(e.wp) :
              \E f \in evidence : f.wp = e.wp /\ f.attempt = e.attempt /\ f.channel = c
        BY DEF EvidenceIsWhole
      <4>2. \A e \in evidence' : e \in evidence \/ e \in rows
        BY <2>1
      <4>3. evidence \subseteq evidence' /\ rows \subseteq evidence'
        BY <2>1
      <4> HIDE DEF JobInv
      <4> QED BY <3>2, <4>1, <4>2, <4>3
    <3>5. \A e \in evidence' :
            /\ e.outcome = "passed" => <<e.wp, e.attempt, e.channel>> \in proved'
            /\ e.outcome = "not_applicable" => e.channel \notin Asked(e.wp)
      BY <1>2, <2>1, <3>1 DEF EvidenceIsWhole
    <3> QED BY <3>3, <3>4, <3>5 DEF EvidenceIsWhole
  <2> QED BY <2>4, <2>6, <2>7, <2>8, <2>9
<1> QED BY <1>5, <1>6

\* The outcomes of the highest attempt per channel are those of one attempt.
LEMMA ProvenIsShown ==
  ASSUME JobInv, NEW w, Proven(RoleOf[w], OutcomesOf(w))
  PROVE  \E n \in Attempts : ShownIn(w, n, Asked(w))
<1> USE DEF JobInv
<1> DEFINE Latest(f) == \A g \in evidence :
                          g.wp = w /\ g.channel = f.channel => g.attempt <= f.attempt
           main == RequiredChannel(RoleOf[w])
<1>1. /\ <<main, "passed">> \in OutcomesOf(w)
      /\ \A o \in OutcomesOf(w) : o[2] \in {"passed", "not_applicable"}
  BY DEF Proven
<1>2. \A f \in evidence : f.wp = w /\ Latest(f) => <<f.channel, f.outcome>> \in OutcomesOf(w)
  BY DEF OutcomesOf
<1>3. PICK e \in evidence : e.wp = w /\ Latest(e) /\ e.channel = main
  BY <1>1 DEF OutcomesOf
<1>4. main \in Asked(w)
  BY DEF Asked
<1>5. e.attempt \in Attempts /\ \A f \in evidence : f.attempt \in Nat
  BY JobFacts DEF EvidenceIsWhole
<1>6. ASSUME NEW c \in Asked(w)
      PROVE  <<w, e.attempt, c>> \in proved
  <2>1. PICK f \in evidence : f.wp = w /\ f.attempt = e.attempt /\ f.channel = c
    BY <1>3 DEF EvidenceIsWhole
  <2>2. Latest(f)
    <3>1. ASSUME NEW g \in evidence, g.wp = w
          PROVE  \E h \in evidence : h.wp = w /\ h.attempt = g.attempt /\ h.channel = main
      BY <1>4, <3>1 DEF EvidenceIsWhole
    <3>2. \A g \in evidence : g.wp = w => g.attempt <= e.attempt
      BY <1>3, <3>1
    <3> QED BY <2>1, <3>2
  <2>3. f.outcome \in {"passed", "not_applicable"}
    <3>1. <<f.channel, f.outcome>>[2] \in {"passed", "not_applicable"}
      BY <1>1, <1>2, <2>1, <2>2
    <3> QED BY <3>1
  <2> QED BY <2>1, <2>3 DEF EvidenceIsWhole
<1> QED BY <1>5, <1>6 DEF ShownIn

\* Steps that change neither the leases nor the gates, and let no evaluation
\* end: the workers, and what people do.
LEMMA GatesUntouched ==
  ASSUME PassedIsProven, EvaluationIsCurrent, ClosedIsProven, proved \subseteq proved',
         UNCHANGED <<graph, Done, missed, gating, gates>>,
         \A w \in completions' \ completions : (\E n \in Attempts : IsShown(w, n))'
  PROVE  PassedIsProven' /\ EvaluationIsCurrent' /\ ClosedIsProven'
<1>1. \A w, n : IsShown(w, n) => IsShown(w, n)'
  BY DEF IsShown, ShownIn
<1>2. ClosedIsProven'
  BY <1>1 DEF ClosedIsProven
<1>3. PassedIsProven' /\ EvaluationIsCurrent'
  BY DEF PassedIsProven, ShownIn, EvaluationIsCurrent, DoneIsJudged
<1> QED BY <1>2, <1>3

LEMMA WorkerStepKeeps ==
  ASSUME VerificationInv, NEW k \in Workers, WorkerStep(k)
  PROVE  VerificationInv'
<1> USE DEF VerificationInv
<1>1. JobInv'
  <2>1. CASE \E t \in signals : TakeSignal(k, t)
    BY <2>1, JobTaken
  <2>2. CASE Execute(k)
    BY <2>2, Executed
  <2>3. CASE \/ CheckBuild(k) \/ CheckTests(k) \/ SkipAuthored(k) \/ CheckAuthored(k)
             \/ CheckSecurity(k)
    BY <2>3, Checked
  <2>4. CASE RecordEvidence(k)
    BY <2>4, EvidenceRecorded
  <2>5. CASE PublishCompletion(k) \/ WorkerDies(k)
    BY <2>5, WorkerStops DEF PublishCompletion, WorkerDies, leasing, ghosts
  <2> QED BY <2>1, <2>2, <2>3, <2>4, <2>5 DEF WorkerStep
<1>2. /\ proved \subseteq proved' /\ UNCHANGED <<graph, leases, missed, gating, gates>>
      /\ UNCHANGED completions \/ PublishCompletion(k)
  <2>1. \A got, shown : Verified(k, got, shown) => proved \subseteq proved'
    BY DEF Verified
  <2>2. \A check, outcomes, shown : Accept(k, check, outcomes, shown) => proved \subseteq proved'
    BY <2>1 DEF Accept
  <2>3. \A check, c, ok, shown : Conclude(k, check, c, ok, shown) =>
          proved \subseteq proved' /\ UNCHANGED <<graph, leases, missed, gating, gates, completions>>
    BY <2>2 DEF Conclude, VerificationFailed, leasing, judging
  <2>4. CASE \E t \in signals : TakeSignal(k, t)
    BY <2>4 DEF TakeSignal, judging, ghosts
  <2>5. CASE Execute(k)
    BY <2>1, <2>5 DEF Execute, VerificationFailed, leasing, judging
  <2>6. CASE CheckBuild(k) \/ SkipAuthored(k)
    BY <2>2, <2>6 DEF CheckBuild, SkipAuthored, VerificationFailed, leasing, judging
  <2>7. CASE CheckTests(k) \/ CheckAuthored(k) \/ CheckSecurity(k)
    BY <2>3, <2>7 DEF CheckTests, CheckAuthored, CheckSecurity
  <2>8. CASE RecordEvidence(k) \/ PublishCompletion(k) \/ WorkerDies(k)
    BY <2>8 DEF RecordEvidence, PublishCompletion, WorkerDies, leasing, judging, ghosts
  <2> QED BY <2>4, <2>5, <2>6, <2>7, <2>8 DEF WorkerStep
<1>3. ASSUME PublishCompletion(k)
      PROVE  \A w \in completions' \ completions : (\E n \in Attempts : IsShown(w, n))'
  <2>1. workers[k].pc = "publish" /\ completions' = completions \cup {workers[k].job.wp}
    BY <1>3 DEF PublishCompletion
  <2>2. IsShown(workers[k].job.wp, workers[k].job.attempt) /\ workers[k].job.attempt \in Attempts
    BY <2>1, JobFacts DEF JobInv, WorkersAreSound, NoWork, IsWork, IsSound
  <2> PICK t : t = workers[k].job
    OBVIOUS
  <2>3. IsShown(t.wp, t.attempt)' /\ t.attempt \in Attempts
    BY <1>2, <2>2 DEF IsShown, ShownIn
  <2> QED BY <2>1, <2>3
<1> QED BY <1>1, <1>2, <1>3, GatesUntouched DEF Done

\* Nothing is closed but what was.
LEMMA ClosedUntouched ==
  ASSUME ClosedIsProven, proved \subseteq proved', completions' \subseteq completions,
         Done' \subseteq Done \cup completions
  PROVE  ClosedIsProven'
<1>1. \A w, n : IsShown(w, n) => IsShown(w, n)'
  BY DEF IsShown, ShownIn
<1> QED BY <1>1 DEF ClosedIsProven

\* Completion, and the evaluation of the gate.
LEMMA GateStepKeeps ==
  ASSUME VerificationInv,
         \/ \E w \in Wps : HandleCompletion(w)
         \/ ReadGraph \/ ReadStates \/ RecordGate \/ GatingFails
  PROVE  VerificationInv'
<1> USE DEF VerificationInv
<1>1. ASSUME NEW w \in Wps, HandleCompletion(w) PROVE VerificationInv'
  <2>1. CASE leases[w].status = "active"
    <3>1. JobInv'
      BY <1>1, <2>1, LeaseEnds DEF HandleCompletion, ghosts
    <3>2. gating' = [pc |-> "graph"]
      BY <1>1, <2>1 DEF HandleCompletion
    <3>3. PassedIsProven'
      BY <1>1 DEF HandleCompletion, ghosts, PassedIsProven, ShownIn
    <3>4. ClosedIsProven'
      <4>1. leases' = [leases EXCEPT ![w].status = "released"] /\ w \in completions
            /\ completions' = completions \ {w} /\ UNCHANGED proved
        BY <1>1, <2>1 DEF HandleCompletion, ghosts
      <4>2. Done' \subseteq Done \cup {w}
        BY <4>1 DEF Done, JobInv, LeaseShapes
      <4> QED BY <4>1, <4>2, ClosedUntouched
    <3> QED BY <3>1, <3>2, <3>3, <3>4 DEF EvaluationIsCurrent, DoneIsJudged
  <2>2. CASE leases[w].status # "active"
    BY <1>1, <2>2, JobsUntouched, GatesUntouched DEF HandleCompletion, ghosts, Done
  <2> QED BY <2>1, <2>2
<1>2. CASE ReadGraph
  <2>1. JobInv'
    BY <1>2, JobsUntouched DEF ReadGraph, leasing, ghosts
  <2>2. gating' = [pc |-> "states", wps |-> graph] /\ UNCHANGED <<graph, Done, missed, gates, proved>>
    BY <1>2 DEF ReadGraph, leasing, ghosts, Done
  <2>3. ClosedIsProven'
    BY <1>2, <2>2, ClosedUntouched DEF ReadGraph
  <2> QED BY <2>1, <2>2, <2>3 DEF EvaluationIsCurrent, DoneIsJudged, PassedIsProven, ShownIn
<1>3. CASE ReadStates
  <2>1. JobInv'
    BY <1>3, JobsUntouched DEF ReadStates, leasing, ghosts
  <2>2. UNCHANGED <<graph, Done, missed, gates, proved>>
    BY <1>3 DEF ReadStates, leasing, ghosts, Done
  <2>3. ClosedIsProven'
    BY <1>3, <2>2, ClosedUntouched DEF ReadStates
  <2>4. CASE AllWpDone(gating.wps)
    <3>1. gating' = [pc |-> "evidence", wps |-> gating.wps, version |-> Done]
      BY <1>3, <2>4 DEF ReadStates
    <3> QED BY <2>1, <2>2, <2>3, <3>1 DEF EvaluationIsCurrent, DoneIsJudged, PassedIsProven, ShownIn
  <2>5. CASE ~AllWpDone(gating.wps)
    <3>1. gating' = [pc |-> "idle"] /\ ~(graph \subseteq Done /\ ~missed)
      BY <1>3, <2>5 DEF ReadStates, AllWpDone, EvaluationIsCurrent
    <3> QED BY <2>1, <2>2, <2>3, <3>1 DEF EvaluationIsCurrent, DoneIsJudged, PassedIsProven, ShownIn
  <2> QED BY <2>4, <2>5
<1>4. CASE RecordGate
  <2>1. JobInv'
    BY <1>4, JobsUntouched DEF RecordGate, leasing, ghosts
  <2>2. UNCHANGED <<graph, Done, missed, proved>> /\ gating' = [pc |-> "idle"]
    BY <1>4 DEF RecordGate, leasing, ghosts, Done
  <2>3. gating.version = Done
    BY <1>4 DEF RecordGate, EvaluationIsCurrent
  <2> PICK status : status = IF \A w \in gating.wps : Proven(RoleOf[w], OutcomesOf(w))
                             THEN "passed" ELSE "blocked"
    OBVIOUS
  <2> PICK gate : gate = [version |-> gating.version, status |-> status, wps |-> gating.wps]
    OBVIOUS
  <2>4. gates' = IF JudgedBefore(gating.version) THEN gates ELSE gates \cup {gate}
    BY <1>4 DEF RecordGate
  <2>5. \E g \in gates' : g.version = Done
    BY <2>3, <2>4 DEF JudgedBefore
  <2>6. gate.status = "passed" => \A w \in gate.wps : \E n \in Attempts : ShownIn(w, n, Asked(w))
    BY ProvenIsShown
  <2>7. PassedIsProven'
    BY <2>2, <2>4, <2>6 DEF PassedIsProven, ShownIn
  <2>8. EvaluationIsCurrent'
    BY <2>2, <2>5 DEF EvaluationIsCurrent, DoneIsJudged
  <2>9. ClosedIsProven'
    BY <1>4, <2>2, ClosedUntouched DEF RecordGate
  <2> QED BY <2>1, <2>7, <2>8, <2>9
<1>5. CASE GatingFails
  <2>1. JobInv'
    BY <1>5, JobsUntouched DEF GatingFails, leasing
  <2>2. ClosedIsProven'
    BY <1>5, ClosedUntouched DEF GatingFails, leasing, Done
  <2> QED BY <1>5, <2>1, <2>2 DEF GatingFails, EvaluationIsCurrent, DoneIsJudged, PassedIsProven, ShownIn
<1> QED BY <1>1, <1>2, <1>3, <1>4, <1>5

\* Jobs are single, evidence is of whole attempts, and an evaluation under way
\* is about what is DONE.
THEOREM VerificationInvariant == Spec => []VerificationInv
<1>1. Init => VerificationInv
  <2> SUFFICES ASSUME Init PROVE VerificationInv
    OBVIOUS
  <2>1. LeaseShapes
    BY DEF Init, LeaseShapes
  <2>2. SignalsAreFresh /\ JobsAreSingle /\ EvidenceIsWhole /\ PassedIsProven
    BY DEF Init, SignalsAreFresh, JobsAreSingle, EvidenceIsWhole, PassedIsProven
  <2>3. WorkersAreSound
    BY DEF Init, WorkersAreSound
  <2>4. EvaluationIsCurrent
    <3>1. Done = {} /\ graph # {} /\ gating.pc = "idle"
      BY DEF Init, Done
    <3> QED BY <3>1 DEF EvaluationIsCurrent, DoneIsJudged
  <2>5. ClosedIsProven
    BY DEF Init, ClosedIsProven, Done
  <2> QED BY <2>1, <2>2, <2>3, <2>4, <2>5 DEF VerificationInv, JobInv
<1>2. VerificationInv /\ [VerificationNext]_vars => VerificationInv'
  <2> SUFFICES ASSUME VerificationInv, [VerificationNext]_vars PROVE VerificationInv'
    OBVIOUS
  <2> USE DEF VerificationInv
  <2>1. CASE UNCHANGED vars
    BY <2>1, JobsUntouched, GatesUntouched DEF vars, Done
  <2>2. ASSUME NEW w \in Wps, Dispatch(w) \/ Expire(w) PROVE VerificationInv'
    <3>1. UNCHANGED <<graph, missed, gating, gates, proved, completions>>
      BY <2>2 DEF Dispatch, Expire, judging, ghosts
    <3> QED BY <2>2, <3>1, LeaseMoves, GatesUntouched
  <2>3. ASSUME NEW w \in Wps, Approve(w) PROVE VerificationInv'
    BY <2>3, JobsUntouched, GatesUntouched DEF Approve, leasing, judging, ghosts, Done
  <2>4. CASE Redecompose
    <3>1. JobInv'
      BY <2>4, JobsUntouched DEF Redecompose
    <3>2. PICK next : /\ graph' = next
                      /\ missed' = (missed \/ (next \subseteq Done /\ ~(graph \subseteq Done)))
      BY <2>4 DEF Redecompose
    <3>3. UNCHANGED <<Done, gating, gates, proved>>
      BY <2>4 DEF Redecompose, judging, Done
    <3>4. (graph' \subseteq Done /\ ~missed') => (graph \subseteq Done /\ ~missed)
      BY <3>2
    <3>5. ClosedIsProven'
      BY <2>4, <3>3, ClosedUntouched DEF Redecompose, judging
    <3> QED BY <3>1, <3>3, <3>4, <3>5 DEF EvaluationIsCurrent, DoneIsJudged, PassedIsProven, ShownIn
  <2>5. ASSUME NEW k \in Workers, WorkerStep(k) PROVE VerificationInv'
    BY <2>5, WorkerStepKeeps
  <2>6. CASE \/ \E w \in Wps : HandleCompletion(w)
             \/ ReadGraph \/ ReadStates \/ RecordGate \/ GatingFails
    BY <2>6, GateStepKeeps
  <2> QED BY <2>1, <2>2, <2>3, <2>4, <2>5, <2>6 DEF VerificationNext
<1> QED BY <1>1, <1>2, PTL DEF Spec

\* A gate passes only on proof that one attempt gave, for whatever channels are
\* switched on and however attempts, lost evidence and approvals interleave
\* (db/release-gate.repo.ts, release-gate.ts).
THEOREM PassedRestsOnProof == Spec => []PassedIsProven
  BY VerificationInvariant, PTL DEF VerificationInv

\* When all is DONE and nothing was lost, the gate has been evaluated
\* (completion.ts).
THEOREM DoneGetsJudged == Spec => []DoneIsJudged
  BY VerificationInvariant, PTL DEF VerificationInv, EvaluationIsCurrent

\* A package is DONE only if the answers to one of its attempts show what its
\* role and the configuration ask and no person has to approve (worker.ts).
THEOREM DoneRestsOnProof == Spec => []DoneIsProven
<1>1. VerificationInv => DoneIsProven
  BY DEF VerificationInv, ClosedIsProven, IsShown, DoneIsProven
<1> QED BY <1>1, VerificationInvariant, PTL
=================================================================================
