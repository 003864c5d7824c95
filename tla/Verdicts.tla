------------------------------- MODULE Verdicts -------------------------------
(***************************************************************************)
(* How the worker of the Manager judges what an agent answers              *)
(* (streams/verify.ts) and how the release gate judges the recorded        *)
(* evidence (streams/release-gate.ts).  Next to each verdict stands what   *)
(* it has to show, defined on its own: Proves(tool, r).                    *)
(*                                                                         *)
(* An answer is reduced to the fields the code reads.  Unreadable stands   *)
(* for one that does not parse, lacks a field the judge needs, or for a    *)
(* call that throws.                                                       *)
(***************************************************************************)
EXTENDS Integers

Unreadable == [readable |-> FALSE]

Tests(numbers) ==
  [readable : {TRUE}, success : BOOLEAN, passed : numbers, failed : numbers]
Builds == [readable : {TRUE}, success : BOOLEAN]
Designs(numbers) ==
  [readable : {TRUE}, source : {"llm", "fallback"}, counted : numbers, components : numbers]
\* issues: whether a finding of static analysis or of the dependencies is at
\* or above the configured severity; findings of the model do not count.
Audits(numbers) ==
  [readable : {TRUE}, requested : numbers, scanned : numbers,
   deps : {"ok", "unavailable", "not_applicable", "absent"}, issues : BOOLEAN]

-----------------------------------------------------------------------------
(* judgePrimaryResult, judgeDesignUiWp, judgeSecurityAuditWp: the answer   *)
(* of the package's own tool.                                              *)

TestsOkVacuous(r) == r.readable /\ r.success /\ r.failed <= 0  \* mutant
TestsOk(r) == r.readable /\ r.success /\ r.failed <= 0 /\ r.passed > 0

BuildOk(r) == r.readable /\ r.success

DesignOk(r) ==
  /\ r.readable /\ r.source # "fallback"
  /\ r.components # 0 /\ r.counted = r.components

AuditedOk(r) ==
  /\ r.readable /\ r.requested >= 0 /\ r.scanned >= 0
  /\ ~(r.requested > 0 /\ r.scanned = 0)
  /\ ~(r.scanned = 0 /\ r.deps # "ok")

\* judgeAuditable and the findings, for the security channel of a package
\* that made code: artifacts sent, and artifacts dropped as out of reach.
ChannelAuditOk(r, sent, dropped) ==
  /\ r.readable /\ dropped = 0
  /\ r.requested >= 0 /\ r.scanned >= 0 /\ r.scanned <= r.requested
  /\ ~(sent > 0 /\ r.requested = 0)
  /\ ~(r.requested > 0 /\ r.scanned = 0)
  /\ r.deps \notin {"unavailable", "absent"}
  /\ ~r.issues

-----------------------------------------------------------------------------
(* What a verdict has to show.                                             *)

TestsProve(r) == r.readable /\ r.passed > 0 /\ r.failed <= 0
DesignProves(r) == r.readable /\ r.source = "llm" /\ r.components > 0
\* Something was looked at, and what was asked for was not passed over.
AuditProves(r) ==
  r.readable /\ (r.scanned > 0 \/ r.deps = "ok") /\ (r.requested > 0 => r.scanned > 0)
ChannelAuditProves(r, sent, dropped) ==
  r.readable /\ dropped = 0 /\ (sent > 0 => r.scanned > 0) /\ ~r.issues

-----------------------------------------------------------------------------
(* The release gate.                                                       *)

\* requiredChannelFor
RequiredChannel(role) ==
  IF role = "security" THEN "security" ELSE IF role = "designer" THEN "design" ELSE "tc"

\* evaluateReleaseGate for one package: outcomes are pairs of a channel and
\* what came of it.
ProvenLenient(role, outcomes) ==  \* mutant
  <<RequiredChannel(role), "passed">> \in outcomes
Proven(role, outcomes) ==
  /\ outcomes # {}
  /\ <<RequiredChannel(role), "passed">> \in outcomes
  /\ \A o \in outcomes : o[2] \in {"passed", "not_applicable"}
=============================================================================
