---------------------------- MODULE SecurityAudit ----------------------------
(***************************************************************************)
(* The audit that the agent Security makes of a set of files               *)
(* (xzawedSecurity/src/security.ts): three analyzers run side by side, the *)
(* rules over the files (analyzers/static.ts), the audit of the            *)
(* dependencies (analyzers/deps.ts) and the language model                 *)
(* (claude/runner.ts).  Any of them may fail.  The report goes to the      *)
(* Manager, whose security channel judges it (Verdicts).                   *)
(*                                                                         *)
(* What a rule matches, what a package manager reports and what the model  *)
(* says are inputs; of an issue its source and severity are kept.          *)
(***************************************************************************)
EXTENDS Integers, Verdicts

CONSTANTS
  MaxFiles,    \* bound on the artifacts of a package
  MaxAudits    \* bound on audits of one process

ASSUME AuditAssumption == MaxFiles \in Nat /\ MaxAudits \in Nat

VARIABLES
  audit,   \* the audit in progress
  tools,   \* the paths of npm and pnpm that this process has looked up
  report,  \* the last audit_complete, with what it was about
  audits   \* number of audits so far

auditVars == <<audit, tools, report, audits>>

Severities == <<"low", "medium", "high", "critical">>
Rank(sev) == CHOOSE i \in 1..4 : Severities[i] = sev
Findings == {{}, {"low"}, {"high"}}
Skips == {"path", "stat", "oversize", "read"}
Outcomes == Skips \cup {"scanned"}
Package == {"outside", "none", "npm", "pnpm"}
NoAudit == [pc |-> "idle"]
NoReport == [requested |-> 0]

AuditTypeOK ==
  /\ audit.pc \in {"idle", "running"}
  /\ tools \in [{"npm", "pnpm"} -> {"unknown", "found", "missing"}]
  /\ audits \in 0..MaxAudits

AuditInit ==
  /\ audit = NoAudit /\ report = NoReport /\ audits = 0
  /\ tools = [t \in {"npm", "pnpm"} |-> "unknown"]

\* The number of artifacts, the project, and the least severity to report.
\* left, scanned: how many files; found: what the rules matched in them.
StartAudit ==
  /\ audit = NoAudit /\ audits < MaxAudits /\ audits' = audits + 1
  /\ \E files \in 0..MaxFiles, kind \in Package, least \in {"low", "high"} :
       audit' = [pc |-> "running", files |-> files, kind |-> kind, least |-> least,
                 left |-> files, scanned |-> 0, found |-> {}, static |-> "running",
                 deps |-> "running", depsFound |-> {}, llm |-> "running", llmFound |-> {}]
  /\ report' = NoReport
  /\ UNCHANGED tools

-----------------------------------------------------------------------------
(* The analyzers.                                                          *)

\* analyzeFile, batch by batch: a file is skipped for a reason, or scanned, and
\* the rules match what they match.
ScanFile(outcome) ==
  /\ audit.pc = "running" /\ audit.static = "running" /\ audit.left > 0
  /\ IF outcome = "scanned"
     THEN \E found \in Findings :
            audit' = [audit EXCEPT !.left = @ - 1, !.scanned = @ + 1, !.found = @ \cup found]
     ELSE audit' = [audit EXCEPT !.left = @ - 1]
  /\ UNCHANGED <<tools, report, audits>>

StaticEnds ==
  /\ audit.pc = "running" /\ audit.static = "running"
  /\ audit' = [audit EXCEPT !.static = IF audit.left = 0 THEN "ended" ELSE "rejected"]
  /\ UNCHANGED <<tools, report, audits>>

\* getPnpmPath, getNpmPath: looked up once; a lookup that fails is remembered.
Lookup(tool) ==
  IF tools[tool] = "unknown"
  THEN \E found \in {"found", "missing"} : tools' = [tools EXCEPT ![tool] = found]
  ELSE UNCHANGED tools

\* runNpmAudit, runPnpmAudit: no output, output that does not parse or without
\* the expected key, or the vulnerabilities found.
Unusable == {"exec", "parse", "no_expected_key"}
DepsRun ==
  \/ \E why \in Unusable : audit' = [audit EXCEPT !.deps = "unavailable"]
  \/ \E found \in Findings : audit' = [audit EXCEPT !.deps = "ok", !.depsFound = found]

\* auditDeps.  With a lock file of pnpm, npm is asked when pnpm is missing.
AuditDeps ==
  /\ audit.pc = "running" /\ audit.deps = "running"
  /\ CASE audit.kind = "outside" -> audit' = [audit EXCEPT !.deps = "unavailable"] /\ UNCHANGED tools
       [] audit.kind = "none" -> audit' = [audit EXCEPT !.deps = "not_applicable"] /\ UNCHANGED tools
       [] audit.kind = "pnpm" /\ tools["pnpm"] # "missing" ->
            /\ Lookup("pnpm")
            /\ IF tools'["pnpm"] = "found" THEN DepsRun ELSE UNCHANGED audit
       [] OTHER ->
            /\ Lookup("npm")
            /\ IF tools'["npm"] = "found" THEN DepsRun
               ELSE audit' = [audit EXCEPT !.deps = "unavailable"]
  /\ UNCHANGED <<report, audits>>

\* analyzeArtifacts: whatever goes wrong in the call or the answer, no issue.
AskModel ==
  /\ audit.pc = "running" /\ audit.llm = "running"
  /\ \E found \in IF audit.files = 0 THEN {{}} ELSE Findings :
       audit' = [audit EXCEPT !.llm = "ended", !.llmFound = found]
  /\ UNCHANGED <<tools, report, audits>>

\* A rejected promise of Promise.allSettled.
Rejects(analyzer) ==
  /\ audit.pc = "running"
  /\ IF analyzer = "deps"
     THEN audit.deps = "running" /\ audit' = [audit EXCEPT !.deps = "rejected"]
     ELSE audit.llm = "running" /\ audit' = [audit EXCEPT !.llm = "rejected"]
  /\ UNCHANGED <<tools, report, audits>>

-----------------------------------------------------------------------------
(* runMain of Security: the report.                                        *)

AllSettled == audit.static # "running" /\ audit.deps # "running" /\ audit.llm # "running"

\* A rejected static analysis scanned nothing of what was asked for, and what it
\* found is lost; a rejected audit of the dependencies was unavailable.
StaticIssues == IF audit.static = "rejected" THEN {} ELSE {"static"} \X audit.found
ScannedCount == IF audit.static = "rejected" THEN 0 ELSE audit.scanned
DepsStatusHopeful == IF audit.deps = "rejected" THEN "not_applicable" ELSE audit.deps  \* mutant
DepsStatus == IF audit.deps = "rejected" THEN "unavailable" ELSE audit.deps
AllIssues == StaticIssues \cup ({"deps"} \X audit.depsFound) \cup ({"llm"} \X audit.llmFound)

\* filterBySeverity
Reported == {i \in AllIssues : Rank(i[2]) >= Rank(audit.least)}

Publish ==
  /\ audit.pc = "running" /\ AllSettled
  /\ audit' = NoAudit
  /\ report' = [requested |-> audit.files, truth |-> audit,
                answer |->
       IF audit.static = "rejected" /\ audit.deps = "rejected" /\ audit.llm = "rejected"
       THEN Unreadable
       ELSE [readable |-> TRUE, requested |-> audit.files, scanned |-> ScannedCount,
             deps |-> DepsStatus,
             issues |-> \E i \in Reported : i[1] # "llm" /\ Rank(i[2]) >= Rank("high")]]
  /\ UNCHANGED <<tools, audits>>

AuditNext ==
  \/ StartAudit \/ StaticEnds \/ AuditDeps \/ AskModel \/ Publish
  \/ \E outcome \in Outcomes : ScanFile(outcome)
  \/ \E analyzer \in {"deps", "llm"} : Rejects(analyzer)

AuditSpec == AuditInit /\ [][AuditNext]_auditVars

-----------------------------------------------------------------------------
(* Properties.                                                             *)

\* The report as the security channel of the Manager reads it, all artifacts
\* sent and none dropped.
Accepted == report # NoReport /\ ChannelAuditOk(report.answer, report.requested, 0)

\* What the channel accepts was looked at: some file was scanned if there was
\* one, no scanned file holds a serious finding, and the dependencies were
\* audited and are free of one, or the project has none.  "Could not look" never
\* passes for "found nothing" (security.ts: "감사 불능 ≠ 안전").
AcceptedWasAudited ==
  Accepted =>
    /\ report.requested > 0 => report.truth.scanned > 0
    /\ "high" \notin report.truth.found
    /\ \/ report.truth.kind = "none"
       \/ report.truth.deps = "ok" /\ "high" \notin report.truth.depsFound
=============================================================================
