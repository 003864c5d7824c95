-------------------------------- MODULE MCGraph --------------------------------
(***************************************************************************)
(* A graph of packages from its algorithms (TaskGraph) over its            *)
(* replacement by a re-decomposition (Redecompose) to the verification of  *)
(* its packages with the release gate (WpVerification) and the deployment  *)
(* to GitHub (GitPushes), explored one at a time: focus says whose turn it *)
(* is.                                                                     *)
(***************************************************************************)
EXTENDS WpVerification, TaskGraph, Redecompose, GitPushes, TLC

CONSTANTS a, b, c, c1, dev, audit, k1, main, other, d1, d2, p1, m1

VARIABLE focus

MCRoleOf == (dev :> "developer") @@ (audit :> "security")

\* Chains in both directions, a graph without the first package, one with a
\* dependency it lacks and one with a cycle.
MCIncoming ==
  {(a :> {}) @@ (b :> {a}), (b :> {}) @@ (a :> {b}), (b :> {}) @@ (c :> {b}),
   (c :> {a}), (a :> {b}) @@ (b :> {a})}

MCVars == <<focus, vars, graphVars, redecomposeVars, gitVars>>
MCInit ==
  /\ focus \in {"verify", "graph", "merge", "git"}
  /\ Init /\ GraphInit /\ RedecomposeInit /\ GitInit
  /\ focus # "graph" => nodes = {}
  /\ focus # "git" => repo = "absent" /\ \A x \in DOMAIN calls : calls[x].branch = Main
VerifyStep ==
  focus = "verify" /\ VerificationNext /\ UNCHANGED <<focus, graphVars, redecomposeVars, gitVars>>
GraphStep == focus = "graph" /\ GraphNext /\ UNCHANGED <<focus, vars, redecomposeVars, gitVars>>
MergeStep == focus = "merge" /\ RedecomposeNext /\ UNCHANGED <<focus, vars, graphVars, gitVars>>
GitStep ==
  focus = "git" /\ GitNext /\ UNCHANGED <<focus, vars, graphVars, redecomposeVars>>
MCNext == VerifyStep \/ GraphStep \/ MergeStep \/ GitStep
MCSpec == MCInit /\ [][MCNext]_MCVars
=============================================================================
