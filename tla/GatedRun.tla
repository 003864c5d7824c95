------------------------------- MODULE GatedRun -------------------------------
(***************************************************************************)
(* One run of the Manager's Claude loop (claude/runner.ts) with the tools  *)
(* that Claude calls and the gates at which a person decides               *)
(* (gates/approval-gate.ts).  Writes to the outside (deploy_project, the   *)
(* write actions of github_ops) are asked about before they run, what an   *)
(* agent made is reviewed before Claude sees it, an agent may want a       *)
(* clarification or ask another agent, and the session may be aborted at   *)
(* any time.                                                               *)
(*                                                                         *)
(* What Claude asks for, what a tool answers and what a person decides are *)
(* inputs.  The session's entry (SessionStore) is reduced to whether it is *)
(* there; ManagedSession has the rest.  MANAGER_GATE_FAILSAFE is on, its   *)
(* default.                                                                *)
(***************************************************************************)
EXTENDS Integers, Sequences, SequencesExt

CONSTANTS
  Agents,         \* GATED_TOOLS: the tools that dispatch to an agent
  Writes,         \* deploy_project and the write actions of github_ops
  Plain,          \* the tools without a gate
  Ask,            \* request_info
  MaxIterations,  \* MAX_ITERATIONS
  MaxRevises,     \* MAX_GATE_REVISES
  MaxReasks,      \* MAX_GATE_REASKS
  MaxBlocks       \* bound on the tool calls in one response of Claude

ASSUME GatedRunAssumption ==
  /\ {MaxIterations, MaxRevises, MaxReasks, MaxBlocks} \subseteq Nat \ {0}
  /\ Agents \cap Writes = {} /\ Plain \cap (Agents \cup Writes) = {}
  /\ Ask \notin Agents \cup Writes \cup Plain

Tools == Agents \cup Writes \cup Plain \cup {Ask}

VARIABLES
  phase,      \* where the run is
  todo,       \* the tool calls of the response that are not begun
  calls,      \* the tool calls of the response
  results,    \* the tool results collected for it
  iterations, \* calls of Claude so far
  block,      \* the tool call at hand: its number and its tool
  redo,       \* it is executed again by reExecuteWithContext
  version,    \* executions of it so far, the version of its result
  revises, reasks,
  auto,       \* stages whose gate is set to auto
  present,    \* the session's entry is in the store
  cancelled,  \* the abort signal of the run has fired
  writes,     \* executions of writes: number and version of the call
  approvals,  \* what a person approved: number and version, 0 before a write
  waived,     \* results that passed a gate set to auto
  handed      \* results of agents that Claude was given

gate == <<revises, reasks>>
ghosts == <<writes, approvals, waived, handed>>
vars == <<phase, todo, calls, results, iterations, block, redo, version, gate, auto, present,
          cancelled, ghosts>>

Waits == {"info", "pre", "clarify", "review"}
Over == {"done", "failed", "aborted"}
Numbers == 0..MaxIterations * MaxBlocks
Versions == 0..2 * (MaxRevises + 1)

TypeOK ==
  /\ phase \in {"model", "next", "tool", "gate", "query"} \cup Waits \cup Over
  /\ todo \in BoundedSeq(Tools, MaxBlocks)
  /\ {calls, results} \subseteq 0..MaxBlocks
  /\ iterations \in 0..MaxIterations
  /\ block \in [n : Numbers, tool : Tools]
  /\ redo \in BOOLEAN
  /\ version \in Versions
  /\ revises \in 0..MaxRevises /\ reasks \in 0..MaxReasks
  /\ auto \subseteq Agents
  /\ present \in BOOLEAN /\ cancelled \in BOOLEAN
  /\ \A set \in {writes, approvals, waived, handed} : set \subseteq Numbers \X Versions

\* setGateDefaultMode: the default mode of the gates comes with the request.
Init ==
  /\ phase = "model" /\ todo = <<>> /\ calls = 0 /\ results = 0 /\ iterations = 0
  /\ block = [n |-> 0, tool |-> Ask] /\ redo = FALSE /\ version = 0
  /\ revises = 0 /\ reasks = 0
  /\ auto \in {{}, Agents}
  /\ present = TRUE /\ cancelled = FALSE
  /\ writes = {} /\ approvals = {} /\ waived = {} /\ handed = {}

This == <<block.n, version>>

-----------------------------------------------------------------------------
(* The loop of run(): ask Claude, work through the tool calls, hand the    *)
(* results back.                                                           *)

ClaudeCalls ==
  /\ phase = "model" /\ ~cancelled /\ iterations < MaxIterations
  /\ iterations' = iterations + 1
  /\ \E blocks \in BoundedSeq(Tools, MaxBlocks) \ {<<>>} :
       todo' = blocks /\ calls' = Len(blocks)
  /\ results' = 0 /\ phase' = "next"
  /\ UNCHANGED <<block, redo, version, gate, auto, present, cancelled, ghosts>>

ClaudeEnds ==
  /\ phase = "model" /\ ~cancelled /\ iterations < MaxIterations
  /\ iterations' = iterations + 1 /\ phase' = "done"
  /\ UNCHANGED <<todo, calls, results, block, redo, version, gate, auto, present, cancelled, ghosts>>

\* Aborted, out of iterations, or the call failed.
RunFails ==
  /\ phase = "model" /\ phase' = "failed"
  /\ UNCHANGED <<todo, calls, results, iterations, block, redo, version, gate, auto, present,
                 cancelled, ghosts>>

\* processToolUseBlocks: the next call; its input is checked first.
FirstPhase(tool) ==
  IF tool = Ask THEN "info" ELSE IF tool \in Writes THEN "pre" ELSE "tool"

Fresh(tool) ==
  /\ block' = [n |-> block.n + 1, tool |-> tool]
  /\ redo' = FALSE /\ version' = 0 /\ revises' = 0 /\ reasks' = 0

TakeBlock ==
  /\ phase = "next" /\ todo # <<>>
  /\ todo' = Tail(todo) /\ Fresh(Head(todo))
  /\ phase' = FirstPhase(Head(todo))
  /\ UNCHANGED <<calls, results, iterations, auto, present, cancelled, ghosts>>

InvalidInput ==
  /\ phase = "next" /\ todo # <<>> /\ Head(todo) # Ask
  /\ todo' = Tail(todo) /\ Fresh(Head(todo))
  /\ results' = results + 1 /\ phase' = "next"
  /\ UNCHANGED <<calls, iterations, auto, present, cancelled, ghosts>>

BlocksDone ==
  /\ phase = "next" /\ todo = <<>> /\ phase' = "model"
  /\ UNCHANGED <<todo, calls, results, iterations, block, redo, version, gate, auto, present,
                 cancelled, ghosts>>

\* A result for this tool call, be it an error, and on to the next.
Conclude == results' = results + 1 /\ phase' = "next"

\* The session ends at a gate: escalateGate aborts it and throws.
EscalateGate == phase' = "aborted" /\ cancelled' = TRUE /\ UNCHANGED results

-----------------------------------------------------------------------------
(* Executing a tool, for the first time, after a revision, or again with   *)
(* the context that was missing.                                           *)

Execute ==
  /\ phase = "tool"
  /\ version' = version + 1
  /\ writes' = IF block.tool \in Writes THEN writes \cup {<<block.n, version + 1>>} ELSE writes

ToolSucceedsUngated ==  \* mutant
  /\ Execute
  /\ IF block.tool \in Agents /\ ~redo
     THEN phase' = "gate" /\ UNCHANGED <<results, handed>>
     ELSE /\ Conclude
          /\ handed' = IF block.tool \in Agents THEN handed \cup {<<block.n, version + 1>>} ELSE handed
  /\ UNCHANGED <<todo, calls, iterations, block, redo, gate, auto, present, cancelled, approvals,
                 waived>>

\* finalizeAgentResult: what an agent made goes to the gate.
ToolSucceeds ==
  /\ Execute
  /\ IF block.tool \in Agents THEN phase' = "gate" /\ UNCHANGED results ELSE Conclude
  /\ UNCHANGED <<todo, calls, iterations, block, redo, gate, auto, present, cancelled, approvals,
                 waived, handed>>

ToolFails ==
  /\ Execute /\ Conclude
  /\ UNCHANGED <<todo, calls, iterations, block, redo, gate, auto, present, cancelled, approvals,
                 waived, handed>>

\* The agent wants a clarification, or asks another agent; a second time,
\* after the re-execution, that is a failure like any other.
AgentAsks(kind) ==
  /\ block.tool \in Agents /\ ~redo
  /\ Execute /\ phase' = kind
  /\ UNCHANGED <<todo, calls, results, iterations, block, redo, gate, auto, present, cancelled,
                 approvals, waived, handed>>

ReExecute ==
  /\ phase' = "tool" /\ redo' = TRUE /\ revises' = 0 /\ reasks' = 0

QueryAnswered ==
  /\ phase = "query" /\ ReExecute
  /\ UNCHANGED <<todo, calls, results, iterations, block, version, auto, present, cancelled, ghosts>>

QueryFailsSilently ==  \* mutant
  /\ phase = "query" /\ phase' = "next"
  /\ UNCHANGED <<todo, calls, results, iterations, block, redo, version, gate, auto, present,
                 cancelled, ghosts>>

\* The agent asked does not exist, or its answer is an error.
QueryFails ==
  /\ phase = "query" /\ Conclude
  /\ UNCHANGED <<todo, calls, iterations, block, redo, version, gate, auto, present, cancelled,
                 ghosts>>

-----------------------------------------------------------------------------
(* The gate behind an agent, applyApprovalGate.                            *)

Mode(stage) == IF present /\ stage \in auto THEN "auto" ELSE "manual"

PassAuto ==
  /\ phase = "gate" /\ Mode(block.tool) = "auto"
  /\ Conclude
  /\ waived' = waived \cup {This} /\ handed' = handed \cup {This}
  /\ UNCHANGED <<todo, calls, iterations, block, redo, version, gate, auto, present, cancelled,
                 writes, approvals>>

AskReview ==
  /\ phase = "gate" /\ Mode(block.tool) = "manual"
  /\ phase' = "review"
  /\ UNCHANGED <<todo, calls, results, iterations, block, redo, version, gate, auto, present,
                 cancelled, ghosts>>

\* handleApprove: the stage may be set to auto for the rest of the session.
ReviewApprove(remember) ==
  /\ phase = "review" /\ present
  /\ Conclude
  /\ auto' = IF remember THEN auto \cup {block.tool} ELSE auto
  /\ approvals' = approvals \cup {This} /\ handed' = handed \cup {This}
  /\ UNCHANGED <<todo, calls, iterations, block, redo, version, gate, present, cancelled, writes,
                 waived>>

ReviewRevise ==
  /\ phase = "review" /\ present
  /\ IF revises < MaxRevises
     THEN revises' = revises + 1 /\ phase' = "tool" /\ UNCHANGED <<cancelled, results>>
     ELSE EscalateGate /\ UNCHANGED revises
  /\ UNCHANGED <<todo, calls, iterations, block, redo, version, reasks, auto, present, ghosts>>

-----------------------------------------------------------------------------
(* The gate in front of a write, applyPreExecutionGate.                    *)

PreApprove ==
  /\ phase = "pre" /\ present
  /\ phase' = "tool"
  /\ approvals' = approvals \cup {This}
  /\ UNCHANGED <<todo, calls, results, iterations, block, redo, version, gate, auto, present,
                 cancelled, writes, waived, handed>>

PreReviseWrites ==  \* mutant
  /\ phase = "pre" /\ present
  /\ phase' = "tool"
  /\ UNCHANGED <<todo, calls, results, iterations, block, redo, version, gate, auto, present,
                 cancelled, ghosts>>

\* A revision would be a second write: it is returned to Claude as an error.
PreRevise ==
  /\ phase = "pre" /\ present
  /\ Conclude
  /\ UNCHANGED <<todo, calls, iterations, block, redo, version, gate, auto, present, cancelled,
                 ghosts>>

-----------------------------------------------------------------------------
(* What both gates share, and the other waits.                             *)

GateAbort ==
  /\ phase \in {"pre", "review"} /\ present
  /\ EscalateGate
  /\ UNCHANGED <<todo, calls, iterations, block, redo, version, gate, auto, present, ghosts>>

\* needs_human: the answer cannot be read; the same thing is asked again.
CountReask == reasks' = reasks + 1

GateUnclear ==
  /\ phase \in {"pre", "review"} /\ present
  /\ IF reasks < MaxReasks
     THEN /\ CountReask
          /\ phase' = IF phase = "review" THEN "gate" ELSE "pre"
          /\ UNCHANGED <<cancelled, results>>
     ELSE EscalateGate /\ UNCHANGED reasks
  /\ UNCHANGED <<todo, calls, iterations, block, redo, version, revises, auto, present, ghosts>>

\* The answer of a person to a question of Claude or of an agent.
InfoAnswered ==
  /\ phase = "info" /\ present /\ Conclude
  /\ UNCHANGED <<todo, calls, iterations, block, redo, version, gate, auto, present, cancelled,
                 ghosts>>

Clarified ==
  /\ phase = "clarify" /\ present /\ ReExecute
  /\ UNCHANGED <<todo, calls, results, iterations, block, version, auto, present, cancelled, ghosts>>

\* The session is aborted from outside, its entry deleted: a wait is
\* rejected.  At a gate that is one more tool error; a question is outside
\* of the try and takes the run with it.
Abort ==
  /\ phase \notin Over /\ present
  /\ present' = FALSE /\ cancelled' = TRUE
  /\ UNCHANGED <<phase, todo, calls, results, iterations, block, redo, version, gate, auto, ghosts>>

WaitRejected ==
  /\ phase \in Waits /\ ~present
  /\ IF phase \in {"pre", "review"} THEN Conclude ELSE phase' = "failed" /\ UNCHANGED results
  /\ UNCHANGED <<todo, calls, iterations, block, redo, version, gate, auto, present, cancelled,
                 ghosts>>

-----------------------------------------------------------------------------
Claude == ClaudeCalls \/ ClaudeEnds \/ RunFails \/ TakeBlock \/ InvalidInput \/ BlocksDone

Tool == ToolSucceeds \/ ToolFails \/ AgentAsks("clarify") \/ AgentAsks("query")
        \/ QueryAnswered \/ QueryFails \/ PassAuto \/ AskReview

Person == ReviewApprove(TRUE) \/ ReviewApprove(FALSE) \/ ReviewRevise \/ PreApprove \/ PreRevise
          \/ GateAbort \/ GateUnclear \/ InfoAnswered \/ Clarified

Next == Claude \/ Tool \/ Person \/ Abort \/ WaitRejected

Spec == Init /\ [][Next]_vars

-----------------------------------------------------------------------------
(* A write that cannot be taken back runs only when a person approved that *)
(* very call before, and at most once for each approval: neither a         *)
(* revision nor a repeated execution writes again (approval-gate.ts:46-47).*)
WritesApproved == \A w \in writes : w[2] = 1 /\ <<w[1], 0>> \in approvals

(* The result of an agent that Claude goes on with is the version that a   *)
(* person approved, or its stage was set to auto: re-executions after a    *)
(* clarification, a query or a revision do not slip past the gate.         *)
HandedReviewed == handed \subseteq approvals \cup waived

(* When Claude is called again, every tool call of its response has        *)
(* exactly one result, whichever branch it took: the API refuses a         *)
(* conversation with a call left open.                                     *)
EveryCallAnswered ==
  /\ phase = "model" => results = calls
  /\ phase \in Waits \cup {"next", "tool", "gate", "query"} =>
       calls = results + Len(todo) + (IF phase = "next" THEN 0 ELSE 1)
=============================================================================
