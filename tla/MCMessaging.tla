------------------------------ MODULE MCMessaging ------------------------------
(***************************************************************************)
(* What carries messages between the Manager and its agents, and what the  *)
(* agents do with them, explored one at a time: the stream consumers every *)
(* process is built on (StreamConsumer), the sessions and calls of an      *)
(* agent (AgentRpc), the work of an agent on its requests (AgentWork), an  *)
(* audit of Security (SecurityAudit), the watchers of the Watcher          *)
(* (FileWatch) and the loop in the Manager that hears of changed files     *)
(* (WatchEvents).  They share no state here; focus says whose turn it is.  *)
(***************************************************************************)
EXTENDS StreamConsumer, AgentRpc, AgentWork, SecurityAudit, FileWatch, WatchEvents, TLC

CONSTANTS m1, c1, c2, o1, s1, s2, r1, a1, i1, i2, i3, p1, p2, out, f1

\* What the Developer may propose: two files, a file that is written over after
\* it was deleted, and a change that is refused after one that was applied.
Write(p) == [path |-> p, op |-> "write"]
Delete(p) == [path |-> p, op |-> "delete"]
MCPlans ==
  {<<Write(p1), Delete(p2)>>, <<Delete(p1), Write(p1)>>, <<Write(p2), Write(out)>>}

VARIABLE focus

MCVars == <<focus, vars, rpcVars, workVars, auditVars, watchVars, hearVars>>
MCInit ==
  /\ focus \in {"stream", "rpc", "work", "audit", "watch", "hear"}
  /\ Init /\ RpcInit /\ WorkInit /\ AuditInit /\ WatchInit /\ HearInit
  /\ focus # "rpc" => agent = "up"
  /\ focus # "work" => role = "builder"
StreamStep ==
  /\ focus = "stream" /\ Next
  /\ UNCHANGED <<focus, rpcVars, workVars, auditVars, watchVars, hearVars>>
RpcStep ==
  /\ focus = "rpc" /\ RpcNext
  /\ UNCHANGED <<focus, vars, workVars, auditVars, watchVars, hearVars>>
WorkStep ==
  /\ focus = "work" /\ WorkNext
  /\ UNCHANGED <<focus, vars, rpcVars, auditVars, watchVars, hearVars>>
AuditStep ==
  /\ focus = "audit" /\ AuditNext
  /\ UNCHANGED <<focus, vars, rpcVars, workVars, watchVars, hearVars>>
WatchStep ==
  /\ focus = "watch" /\ WatchNext
  /\ UNCHANGED <<focus, vars, rpcVars, workVars, auditVars, hearVars>>
HearStep ==
  /\ focus = "hear" /\ HearNext
  /\ UNCHANGED <<focus, vars, rpcVars, workVars, auditVars, watchVars>>
MCNext == StreamStep \/ RpcStep \/ WorkStep \/ AuditStep \/ WatchStep \/ HearStep
MCSpec == MCInit /\ [][MCNext]_MCVars

Objects == Permutations({c1, c2}) \cup Permutations({i1, i2, i3})
=============================================================================
