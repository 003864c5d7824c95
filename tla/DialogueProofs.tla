--------------------------- MODULE DialogueProofs ---------------------------
(***************************************************************************)
(* Proofs about what happens on behalf of a user: the gates of a run of    *)
(* Claude in the Manager (GatedRun), the tokens that keep a user logged in *)
(* (UserSessions), the calls of the Manager about projects (Projects), the *)
(* sockets of a session (OrchestratorSession) and the MCP servers of the   *)
(* desktop application (McpProcesses).                                     *)
(***************************************************************************)
EXTENDS GatedRun, UserSessions, Projects, OrchestratorSession, McpProcesses, SequenceTheorems, TLAPS

-----------------------------------------------------------------------------
(* GatedRun, for every set of tools, responses of any length, and any      *)
(* number of iterations, revisions and repeated questions: only a tool of  *)
(* an agent comes to the gates behind it, to a clarification or a query,   *)
(* and is executed again; a write comes to its execution from its own      *)
(* approval alone, once.                                                   *)

Behind == {"gate", "review", "clarify", "query"}
Open == Waits \cup {"next", "tool", "gate", "query"}

Types ==
  /\ phase \in {"model", "next", "tool", "gate", "query"} \cup Waits \cup Over
  /\ todo \in Seq(Tools) /\ calls \in Nat /\ results \in Nat
  /\ block \in [n : Nat, tool : Tools] /\ version \in Nat

\* Which tools may be where.
PhaseFitsTool ==
  /\ phase \in Behind => block.tool \in Agents
  /\ phase = "pre" => block.tool \in Writes /\ version = 0

\* A write that is about to run has been approved and has not run.
WriteIsDue ==
  phase = "tool" /\ block.tool \in Writes => version = 0 /\ <<block.n, 0>> \in approvals

RunInv == Types /\ PhaseFitsTool /\ WriteIsDue /\ WritesApproved /\ HandedReviewed /\ EveryCallAnswered

-----------------------------------------------------------------------------
LEMMA InitHolds == Init => RunInv
  BY GatedRunAssumption DEF Init, RunInv, Types, Tools, PhaseFitsTool, WriteIsDue, WritesApproved,
     HandedReviewed, EveryCallAnswered, Behind, Waits, Over

LEMMA Responses == \A blocks \in BoundedSeq(Tools, MaxBlocks) : blocks \in Seq(Tools)
<1> SUFFICES ASSUME NEW m \in 0..MaxBlocks, NEW blocks \in [1..m -> Tools] PROVE blocks \in Seq(Tools)
  BY DEF BoundedSeq, SeqOf
<1>1. m \in Nat
  BY GatedRunAssumption
<1>2. QED
  BY <1>1, SeqDef

LEMMA StepHolds == RunInv /\ [Next]_vars => RunInv'
<1> SUFFICES ASSUME RunInv, [Next]_vars PROVE RunInv'
  OBVIOUS
<1> USE GatedRunAssumption
    DEF RunInv, Types, PhaseFitsTool, WriteIsDue, WritesApproved, HandedReviewed, EveryCallAnswered,
        Behind, Waits, Over, gate, ghosts
<1>1. CASE ClaudeCalls
  <2>1. PICK blocks \in BoundedSeq(Tools, MaxBlocks) : todo' = blocks /\ calls' = Len(blocks)
    BY <1>1 DEF ClaudeCalls
  <2>2. todo' \in Seq(Tools) /\ calls' = Len(todo') /\ Len(todo') \in Nat
    BY <2>1, Responses
  <2>3. QED
    BY <1>1, <2>2 DEF ClaudeCalls
<1>2. CASE ClaudeEnds \/ RunFails
  BY <1>2 DEF ClaudeEnds, RunFails
<1>3. CASE TakeBlock \/ InvalidInput
  <2>1. /\ todo # <<>> /\ todo' = Tail(todo) /\ todo' \in Seq(Tools) /\ Head(todo) \in Tools
        /\ Len(todo) \in Nat /\ Len(todo') \in Nat /\ Len(todo) = Len(todo') + 1
    <3>1. todo \in Seq(Tools) /\ todo # <<>> /\ todo' = Tail(todo)
      BY <1>3 DEF TakeBlock, InvalidInput
    <3>2. QED
      BY ONLY <3>1
  <2>2. block' = [n |-> block.n + 1, tool |-> Head(todo)] /\ version' = 0 /\ phase = "next"
    BY <1>3 DEF TakeBlock, InvalidInput, Fresh
  <2>3. CASE TakeBlock
    BY <2>1, <2>2, <2>3 DEF TakeBlock, FirstPhase, Tools
  <2>4. CASE InvalidInput
    BY <2>1, <2>2, <2>4 DEF InvalidInput
  <2>5. QED
    BY <1>3, <2>3, <2>4
<1>4. CASE BlocksDone
  <2>1. Len(todo) = 0
    BY <1>4 DEF BlocksDone
  <2>2. QED
    BY <1>4, <2>1 DEF BlocksDone
<1>5. ASSUME Execute, UNCHANGED <<todo, calls, block, approvals, waived, handed>>
      PROVE  /\ phase = "tool" /\ version' \in Nat /\ WritesApproved'
             /\ HandedReviewed' /\ calls = results + Len(todo) + 1 /\ Len(todo) \in Nat
  <2>1. phase = "tool" /\ version' = version + 1 /\ Len(todo) \in Nat
    BY <1>5 DEF Execute
  <2>2. WritesApproved'
    <3> SUFFICES ASSUME NEW w \in writes' PROVE w[2] = 1 /\ <<w[1], 0>> \in approvals
      BY <1>5
    <3>1. CASE w \in writes
      BY <3>1
    <3>2. CASE w \notin writes
      <4>1. block.tool \in Writes /\ w = <<block.n, version + 1>>
        BY <1>5, <3>2 DEF Execute
      <4>2. version = 0 /\ <<block.n, 0>> \in approvals
        BY <2>1, <4>1
      <4>3. QED
        BY <4>1, <4>2
    <3>3. QED
      BY <3>1, <3>2
  <2>3. QED
    BY <1>5, <2>1, <2>2
<1>6. CASE ToolSucceeds
  BY <1>5, <1>6 DEF ToolSucceeds, Conclude
<1>7. CASE ToolFails
  BY <1>5, <1>7 DEF ToolFails, Conclude
<1>8. ASSUME NEW kind \in {"clarify", "query"}, AgentAsks(kind) PROVE RunInv'
  BY <1>5, <1>8 DEF AgentAsks
<1>9. CASE QueryAnswered \/ Clarified
  BY <1>9 DEF QueryAnswered, Clarified, ReExecute
<1>10. CASE QueryFails
  BY <1>10 DEF QueryFails, Conclude
<1>11. CASE PassAuto
  BY <1>11 DEF PassAuto, Conclude
<1>12. CASE AskReview
  BY <1>12 DEF AskReview
<1>13. ASSUME NEW remember \in BOOLEAN, ReviewApprove(remember) PROVE RunInv'
  BY <1>13 DEF ReviewApprove, Conclude
<1>14. CASE ReviewRevise
  BY <1>14 DEF ReviewRevise, EscalateGate
<1>15. CASE PreApprove
  BY <1>15 DEF PreApprove, This
<1>16. CASE PreRevise
  BY <1>16 DEF PreRevise, Conclude
<1>17. CASE GateAbort
  BY <1>17 DEF GateAbort, EscalateGate
<1>18. CASE GateUnclear
  BY <1>18 DEF GateUnclear, EscalateGate
<1>19. CASE InfoAnswered
  BY <1>19 DEF InfoAnswered, Conclude
<1>20. CASE Abort
  BY <1>20 DEF Abort
<1>21. CASE WaitRejected
  BY SMTT(30), <1>21 DEF WaitRejected, Conclude
<1>22. CASE UNCHANGED vars
  BY <1>22 DEF vars
<1>23. QED
  BY <1>1, <1>2, <1>3, <1>4, <1>6, <1>7, <1>8, <1>9, <1>10, <1>11, <1>12, <1>13, <1>14, <1>15,
     <1>16, <1>17, <1>18, <1>19, <1>20, <1>21, <1>22 DEF Next, Claude, Tool, Person

-----------------------------------------------------------------------------
\* The inductive invariant.
THEOREM RunInvariant == Spec => []RunInv
<1>1. RunInv /\ [Next]_vars => RunInv'
  BY StepHolds
<1>2. QED
  BY <1>1, InitHolds, PTL DEF Spec

\* Every execution of a write is the first of a call that a person approved
\* (approval-gate.ts, runner.ts applyPreExecutionGate).
THEOREM WritesAreApproved == Spec => []WritesApproved
<1>1. RunInv => WritesApproved
  BY DEF RunInv
<1>2. QED
  BY <1>1, RunInvariant, PTL

\* Claude is given no result of an agent that did not pass its gate
\* (runner.ts finalizeAgentResult, reExecuteWithContext).
THEOREM ResultsAreReviewed == Spec => []HandedReviewed
<1>1. RunInv => HandedReviewed
  BY DEF RunInv
<1>2. QED
  BY <1>1, RunInvariant, PTL

\* Each tool call of a response has exactly one result when Claude is called
\* again (runner.ts processToolUseBlocks).
THEOREM CallsAreAnswered == Spec => []EveryCallAnswered
<1>1. RunInv => EveryCallAnswered
  BY DEF RunInv
<1>2. QED
  BY <1>1, RunInvariant, PTL

-----------------------------------------------------------------------------
(* Sequences of anything.                                                  *)

IsSequence(s) == s \in Seq({s[i] : i \in DOMAIN s})

LEMMA SequenceDomain ==
  ASSUME NEW s, IsSequence(s)
  PROVE  Len(s) \in Nat /\ DOMAIN s = 1..Len(s)
<1> DEFINE S == {s[i] : i \in DOMAIN s}
<1>1. s \in Seq(S)
  BY DEF IsSequence
<1> HIDE DEF S
<1>2. QED
  BY <1>1

(* What a sequence is after an Append, other entries, and a Tail.          *)
LEMMA SequenceGrows ==
  ASSUME NEW s, IsSequence(s), NEW e
  PROVE  /\ IsSequence(Append(s, e)) /\ Len(Append(s, e)) = Len(s) + 1 /\ Len(s) \in Nat
         /\ Append(s, e)[Len(s) + 1] = e
         /\ \A i \in 1..Len(s) : Append(s, e)[i] = s[i]
<1> DEFINE S == {s[i] : i \in DOMAIN s} \cup {e}
<1>1. s \in Seq(S) /\ e \in S
  <2>1. s \in Seq({s[i] : i \in DOMAIN s})
    BY DEF IsSequence
  <2>2. QED
    BY <2>1
<1> HIDE DEF S
<1>2. /\ Append(s, e) \in Seq(S) /\ Len(Append(s, e)) = Len(s) + 1 /\ Len(s) \in Nat
      /\ Append(s, e)[Len(s) + 1] = e
      /\ \A i \in 1..Len(s) : Append(s, e)[i] = s[i]
  BY <1>1
<1>3. IsSequence(Append(s, e))
  <2> DEFINE t == Append(s, e)
  <2>1. t \in Seq(S)
    BY <1>2
  <2> HIDE DEF t
  <2>2. t \in Seq({t[i] : i \in DOMAIN t})
    BY <2>1
  <2>3. QED
    BY <2>2 DEF IsSequence, t
<1>4. QED
  BY <1>2, <1>3

LEMMA SequenceReplaced ==
  ASSUME NEW s, IsSequence(s), NEW t, t = [i \in DOMAIN s |-> t[i]]
  PROVE  /\ IsSequence(t) /\ DOMAIN t = DOMAIN s /\ Len(t) = Len(s)
         /\ Len(s) \in Nat /\ DOMAIN s = 1..Len(s)
<1> DEFINE S == {s[i] : i \in DOMAIN s}
           T == {t[i] : i \in DOMAIN t}
<1>1. s \in Seq(S)
  BY DEF IsSequence
<1> HIDE DEF S
<1>2. Len(s) \in Nat /\ DOMAIN s = 1..Len(s)
  BY <1>1
<1>3. t \in [1..Len(s) -> T]
  BY <1>2
<1> HIDE DEF T
<1>4. t \in Seq(T) /\ Len(t) = Len(s)
  BY <1>2, <1>3
<1>5. QED
  BY <1>2, <1>4 DEF IsSequence, T

LEMMA SequenceShrinks ==
  ASSUME NEW s, IsSequence(s), s # << >>
  PROVE  /\ IsSequence(Tail(s)) /\ Len(Tail(s)) = Len(s) - 1 /\ Len(s) \in Nat
         /\ Head(s) = s[1] /\ 1 \in DOMAIN s /\ (Len(s) = 1 => Tail(s) = << >>)
         /\ \A i \in DOMAIN Tail(s) : i + 1 \in DOMAIN s /\ Tail(s)[i] = s[i + 1]
<1> DEFINE S == {s[i] : i \in DOMAIN s}
           t == Tail(s)
<1>1. s \in Seq(S)
  BY DEF IsSequence
<1> HIDE DEF S
<1>2. /\ t \in Seq(S) /\ Len(t) = Len(s) - 1 /\ Len(s) \in Nat /\ Head(s) = s[1] /\ 1 \in DOMAIN s
      /\ \A i \in DOMAIN t : i + 1 \in DOMAIN s /\ t[i] = s[i + 1]
  BY <1>1
<1> HIDE DEF t
<1>3. t \in Seq({t[i] : i \in DOMAIN t})
  BY <1>2
<1>4. Len(s) = 1 => t = << >>
  BY <1>2
<1>5. QED
  BY <1>2, <1>3, <1>4 DEF IsSequence, t


-----------------------------------------------------------------------------
(* Tokens.  Who has read a row for update holds it until the transaction   *)
(* ends, so the row stays valid; and a valid row has no successor.         *)

IsRow(r) == r = [x \in {"state", "from"} |-> r[x]]
IsAct(a) == a = [x \in {"at", "old", "new"} |-> a[x]]
RowTypes ==
  IsSequence(tokens) /\ \A t \in DOMAIN tokens : IsRow(tokens[t]) /\ tokens[t].from \in Nat
ActTypes == acts = [w \in Windows |-> acts[w]] /\ \A w \in Windows : IsAct(acts[w])
TokenTypes == RowTypes /\ ActTypes

Locked(w) == acts[w].at \in {"found", "write"}

LockedAreValid ==
  \A w \in Windows : Locked(w) =>
    acts[w].old \in DOMAIN tokens /\ tokens[acts[w].old].state = "valid"
LockIsExclusive ==
  \A w, v \in Windows : Locked(w) /\ Locked(v) /\ acts[w].old = acts[v].old => w = v
SuccessorIsLater == \A t \in DOMAIN tokens : tokens[t].from < t
ValidIsUnused ==
  \A t, u \in DOMAIN tokens : tokens[t].from = u => tokens[u].state # "valid"

TokenInv ==
  /\ TokenTypes
  /\ LockedAreValid /\ LockIsExclusive /\ SuccessorIsLater /\ ValidIsUnused
  /\ TokenRotatesOnce

(* A step that leaves tokens and requests alone keeps the invariant.       *)
LEMMA TokensUntouched ==
  ASSUME TokenInv, UNCHANGED <<tokens, acts>>
  PROVE  TokenInv'
BY DEF TokenInv, TokenTypes, RowTypes, ActTypes, Locked, LockedAreValid, LockIsExclusive, SuccessorIsLater,
       ValidIsUnused, TokenRotatesOnce

(* So does one in which a request goes on without the row it may have read. *)
LEMMA RequestGoesOn ==
  ASSUME TokenInv, UNCHANGED tokens, ActTypes',
         \A w \in Windows : acts'[w] = acts[w] \/ acts'[w].at \notin {"found", "write"}
                            \/ (Locked(w) /\ acts'[w].old = acts[w].old)
  PROVE  TokenInv'
BY DEF TokenInv, TokenTypes, RowTypes, Locked, LockedAreValid, LockIsExclusive, SuccessorIsLater,
       ValidIsUnused, TokenRotatesOnce

(* Rows that nobody has read for update stop being valid.                  *)
LEMMA RowsEnd ==
  ASSUME TokenInv, RowTypes', ActTypes', DOMAIN tokens' = DOMAIN tokens,
         \A w \in Windows : acts'[w] = acts[w] \/ acts'[w].at \notin {"found", "write"},
         \A t \in DOMAIN tokens :
           \/ tokens'[t] = tokens[t]
           \/ /\ tokens'[t].from = tokens[t].from /\ tokens'[t].state # "valid"
              /\ \A w \in Windows : Locked(w) => acts[w].old # t
  PROVE  TokenInv'
<1>1. LockedAreValid'
  BY DEF TokenInv, LockedAreValid, Locked
<1>2. LockIsExclusive'
  BY DEF TokenInv, LockIsExclusive, Locked
<1>3. SuccessorIsLater' /\ ValidIsUnused' /\ TokenRotatesOnce'
  BY DEF TokenInv, SuccessorIsLater, ValidIsUnused, TokenRotatesOnce
<1>4. QED
  BY <1>1, <1>2, <1>3 DEF TokenInv, TokenTypes

(* The inductive invariant: a row that a transaction has read is valid and *)
(* read by no other, and a valid row was replaced by none.                 *)
THEOREM TokenInvariant == UserSpec => []TokenInv
<1>1. UserInit => TokenInv
  <2>1. IsSequence(<< >>) /\ DOMAIN << >> = {}
    BY DEF IsSequence
  <2>2. QED
    BY <2>1 DEF UserInit, TokenInv, TokenTypes, RowTypes, ActTypes, IsAct, Locked, LockedAreValid,
         LockIsExclusive, SuccessorIsLater, ValidIsUnused, TokenRotatesOnce, Quiet
<1>2. TokenInv /\ [UserNext]_userVars => TokenInv'
  <2> SUFFICES ASSUME TokenInv, [UserNext]_userVars PROVE TokenInv'
    OBVIOUS
  <2>a. /\ RowTypes /\ ActTypes /\ IsSequence(tokens)
        /\ Len(tokens) \in Nat /\ DOMAIN tokens = 1..Len(tokens)
    <3>1. RowTypes /\ ActTypes /\ IsSequence(tokens)
      BY DEF TokenInv, TokenTypes, RowTypes
    <3>2. tokens \in Seq({tokens[i] : i \in DOMAIN tokens})
      BY <3>1 DEF IsSequence
    <3>3. QED
      BY <3>1, <3>2
  <2>b. ASSUME NEW ts, Revoke(ts)
        PROVE  /\ RowTypes' /\ DOMAIN tokens' = DOMAIN tokens
               /\ \A t \in DOMAIN tokens :
                    \/ tokens'[t] = tokens[t]
                    \/ t \in ts /\ tokens'[t].from = tokens[t].from /\ tokens'[t].state # "valid"
    <3>1. tokens' = [t \in DOMAIN tokens |-> tokens'[t]]
      BY <2>b DEF Revoke
    <3>2. \A t \in DOMAIN tokens :
            \/ tokens'[t] = tokens[t]
            \/ /\ t \in ts /\ tokens'[t].from = tokens[t].from /\ tokens'[t].state # "valid"
               /\ IsRow(tokens'[t])
      <4>1. \A t \in DOMAIN tokens : IsRow(tokens[t])
        BY <2>a DEF RowTypes
      <4>2. \A t \in DOMAIN tokens :
               tokens'[t] = IF t \in ts /\ tokens[t].state = "valid"
                            THEN [tokens[t] EXCEPT !.state = "revoked"] ELSE tokens[t]
        BY <2>b DEF Revoke
      <4>3. QED
        BY <4>1, <4>2 DEF IsRow
    <3>3. IsSequence(tokens') /\ DOMAIN tokens' = DOMAIN tokens
      BY <2>a, <3>1, SequenceReplaced
    <3>4. QED
      <4>1. ASSUME NEW t \in DOMAIN tokens PROVE IsRow(tokens'[t]) /\ tokens'[t].from \in Nat
        <5>1. IsRow(tokens[t]) /\ tokens[t].from \in Nat
          BY <2>a DEF RowTypes
        <5>2. CASE tokens'[t] = tokens[t]
          BY <5>1, <5>2
        <5>3. CASE tokens'[t].from = tokens[t].from /\ IsRow(tokens'[t])
          BY <5>1, <5>3
        <5>4. QED
          BY <3>2, <5>2, <5>3
      <4>2. RowTypes'
        BY <3>3, <4>1 DEF RowTypes
      <4>3. QED
        BY <3>2, <3>3, <4>2
  <2>1. CASE UNCHANGED userVars
    BY <2>1, TokensUntouched DEF userVars
  <2>2. CASE LogOut
    <3> PICK ts \in {{t} : t \in Valid} \cup {Valid} :
          ts # {} /\ (\A t \in ts : ~RowLocked(t)) /\ Revoke(ts)
      BY <2>2 DEF LogOut
    <3>1. \A t \in ts, w \in Windows : Locked(w) => acts[w].old # t
      BY DEF RowLocked, Locked
    <3>2. QED
      BY <2>2, <2>a, <2>b, <3>1, RowsEnd DEF LogOut, ActTypes
  <2>3. CASE AccessExpires \/ ForgetTokens
    BY <2>3, TokensUntouched DEF AccessExpires, ForgetTokens
  <2>4. CASE ServerExits
    <3>1. ActTypes' /\ UNCHANGED tokens /\ \A w \in Windows : acts'[w].at \notin {"found", "write"}
      BY <2>4 DEF ServerExits, ActTypes, IsAct, Quiet
    <3>2. QED
      BY <3>1, RequestGoesOn
  <2>5. ASSUME NEW t \in DOMAIN tokens, TokenExpires(t) PROVE TokenInv'
    <3>1. /\ tokens' = [u \in DOMAIN tokens |-> tokens'[u]] /\ UNCHANGED acts
          /\ \A u \in DOMAIN tokens \ {t} : tokens'[u] = tokens[u]
      BY <2>5 DEF TokenExpires
    <3>2. tokens'[t].from = tokens[t].from /\ tokens'[t].state # "valid" /\ IsRow(tokens'[t])
      BY <2>5, <2>a DEF TokenExpires, RowTypes, IsRow
    <3>3. RowTypes' /\ DOMAIN tokens' = DOMAIN tokens
      BY <2>a, <3>1, <3>2, SequenceReplaced DEF RowTypes
    <3>4. \A w \in Windows : Locked(w) => acts[w].old # t
      BY <2>5 DEF TokenExpires, RowLocked, Locked
    <3>5. QED
      BY <2>a, <3>1, <3>2, <3>3, <3>4, RowsEnd DEF ActTypes
  <2>6. ASSUME NEW w \in Windows,
               AskRegister(w) \/ LookUp(w) \/ CreateUser(w) \/ AskLogin(w) \/ FindByEmail(w)
               \/ CountByUser(w) \/ ConnectRefresh(w) \/ Restore(w)
        PROVE  TokenInv'
    <3> DEFINE next == {"register", "login", "error", "insert user", "create", "count", "evict",
                        "begun", "me"}
    <3>1. UNCHANGED tokens
      BY <2>6 DEF AskRegister, LookUp, CreateUser, AskLogin, FindByEmail, CountByUser,
           ConnectRefresh, Restore
    <3>2. CASE \E at \in next : Begins(w, at, NoToken)
      <4>1. PICK at \in next : acts' = [acts EXCEPT ![w] = [Quiet EXCEPT !.at = at, !.old = NoToken]]
        BY <3>2 DEF Begins
      <4>2. /\ acts' = [v \in Windows |-> acts'[v]] /\ \A v \in Windows \ {w} : acts'[v] = acts[v]
            /\ acts'[w] = [Quiet EXCEPT !.at = at, !.old = NoToken]
        BY <4>1, <2>a DEF ActTypes
      <4>3. IsAct(acts'[w]) /\ acts'[w].at = at
        BY <4>2 DEF Quiet, IsAct
      <4>4. QED
        BY <3>1, <4>2, <4>3, <2>a, RequestGoesOn DEF ActTypes
    <3>3. CASE \E at \in next : Advances(w, at)
      <4>1. PICK at \in next : acts' = [acts EXCEPT ![w].at = at]
        BY <3>3 DEF Advances
      <4>2. /\ acts' = [v \in Windows |-> acts'[v]] /\ \A v \in Windows \ {w} : acts'[v] = acts[v]
            /\ IsAct(acts'[w]) /\ acts'[w].at = at
        BY <4>1, <2>a DEF ActTypes, IsAct
      <4>3. QED
        BY <3>1, <4>2, <2>a, RequestGoesOn DEF ActTypes
    <3>4. (\E at \in next : Begins(w, at, NoToken)) \/ \E at \in next : Advances(w, at)
      BY <2>6 DEF AskRegister, LookUp, CreateUser, AskLogin, FindByEmail, CountByUser,
           ConnectRefresh, Restore
    <3>5. QED
      BY <3>2, <3>3, <3>4
  <2>7. ASSUME NEW w \in Windows, RevokeOldest(w) PROVE TokenInv'
    <3> DEFINE oldest == {t \in Valid : \A u \in Valid : t <= u}
    <3>1. (\A t \in oldest : ~RowLocked(t)) /\ Revoke(oldest)
      BY <2>7 DEF RevokeOldest
    <3>2. /\ ActTypes'
          /\ \A v \in Windows : acts'[v] = acts[v] \/ acts'[v].at \notin {"found", "write"}
      BY <2>7, <2>a DEF RevokeOldest, Advances, ActTypes, IsAct
    <3>3. \A t \in oldest, v \in Windows : Locked(v) => acts[v].old # t
      BY <3>1 DEF RowLocked, Locked
    <3> HIDE DEF oldest
    <3>4. QED
      BY <2>b, <3>1, <3>2, <3>3, RowsEnd
  <2>8. ASSUME NEW w \in Windows, CreateToken(w) PROVE TokenInv'
    <3> DEFINE n == Len(tokens) + 1
    <3>1. /\ tokens' = Append(tokens, [state |-> "valid", from |-> 0]) 
          /\ acts' = [acts EXCEPT ![w].at = "answer", ![w].new = n]
      BY <2>8 DEF CreateToken, InsertToken, NoToken
    <3>2. /\ IsSequence(tokens') /\ DOMAIN tokens' = 1..n
          /\ \A t \in DOMAIN tokens : tokens'[t] = tokens[t]
          /\ tokens'[n] = [state |-> "valid", from |-> 0]
      BY <3>1, <2>a, SequenceGrows, SequenceDomain
    <3>3. RowTypes'
      <4>1. IsRow(tokens'[n]) /\ tokens'[n].from = 0
        BY <3>2 DEF IsRow
      <4>2. \A t \in DOMAIN tokens' : t \in DOMAIN tokens \/ t = n
        BY <3>2, <2>a
      <4>3. QED
        BY <3>2, <4>1, <4>2, <2>a DEF RowTypes
    <3>4. /\ ActTypes'
          /\ \A v \in Windows : acts'[v] = acts[v] \/ acts'[v].at \notin {"found", "write"}
      BY SMTT(30), <3>1, <2>a DEF ActTypes, IsAct
    <3>5. tokens'[n].from = 0 /\ \A t \in DOMAIN tokens' : t \in Nat /\ t > 0 /\ (t \in DOMAIN tokens \/ t = n)
      BY <3>2, <2>a
    <3>6. LockedAreValid' /\ LockIsExclusive'
      BY <2>a, <3>2, <3>4, <3>5 DEF TokenInv, LockedAreValid, LockIsExclusive, Locked
    <3>7. SuccessorIsLater' /\ ValidIsUnused' /\ TokenRotatesOnce'
      BY <2>a, <3>2, <3>5 DEF TokenInv, SuccessorIsLater, ValidIsUnused, TokenRotatesOnce, NoToken,
           RowTypes
    <3>8. QED
      BY <3>3, <3>4, <3>6, <3>7 DEF TokenInv, TokenTypes
  <2>9. ASSUME NEW w \in Windows, FindValid(w) \/ FindUser(w) PROVE TokenInv'
    <3>1. CASE FindUser(w)
      <4>1. /\ ActTypes' /\ Locked(w) /\ acts'[w].old = acts[w].old
            /\ \A v \in Windows \ {w} : acts'[v] = acts[v]
        BY <3>1, <2>a DEF FindUser, Advances, Locked, ActTypes, IsAct
      <4>2. QED
        BY <3>1, <4>1, RequestGoesOn DEF FindUser
    <3>2. CASE FindValid(w) /\ acts[w].old \notin Valid
      <4>1. /\ ActTypes' /\ acts'[w].at = "refused"
            /\ \A v \in Windows \ {w} : acts'[v] = acts[v]
        BY <3>2, <2>a DEF FindValid, Advances, ActTypes, IsAct
      <4>2. QED
        BY <3>2, <4>1, RequestGoesOn DEF FindValid
    <3>3. CASE FindValid(w) /\ acts[w].old \in Valid
      <4>1. /\ ActTypes'
            /\ acts'[w].at = "found" /\ acts'[w].old = acts[w].old
            /\ \A v \in Windows \ {w} : acts'[v] = acts[v]
        BY <3>3, <2>a DEF FindValid, Advances, ActTypes, IsAct
      <4>2. acts[w].old \in DOMAIN tokens /\ tokens[acts[w].old].state = "valid"
        BY <3>3 DEF Valid
      <4>3. \A v \in Windows : Locked(v) => acts[v].old # acts[w].old
        BY <3>3 DEF FindValid, RowLocked, Locked
      <4>4. UNCHANGED tokens
        BY <3>3 DEF FindValid
      <4>5. QED
        BY <4>1, <4>2, <4>3, <4>4 DEF TokenInv, TokenTypes, RowTypes, Locked, LockedAreValid,
             LockIsExclusive, SuccessorIsLater, ValidIsUnused, TokenRotatesOnce
    <3>4. QED
      BY <2>9, <3>1, <3>2, <3>3
  <2>10. ASSUME NEW w \in Windows, Rotate(w) PROVE TokenInv'
    <3> DEFINE n == Len(tokens) + 1
               old == acts[w].old
    <3>1. old \in DOMAIN tokens /\ tokens[old].state = "valid" /\ Locked(w)
      BY <2>10 DEF Rotate, TokenInv, LockedAreValid, Locked
    <3> DEFINE used == [tokens EXCEPT ![old].state = "revoked"]
    <3>2. /\ tokens' = Append(used, [state |-> "valid", from |-> old])
          /\ acts' = [acts EXCEPT ![w].at = "answer", ![w].new = n]
      BY <2>10 DEF Rotate
    <3>3. /\ used = [t \in DOMAIN tokens |-> used[t]] /\ IsRow(used[old])
          /\ used[old].state = "revoked" /\ used[old].from = tokens[old].from
          /\ \A t \in DOMAIN tokens \ {old} : used[t] = tokens[t]
      BY ZenonT(40), <3>1, <2>a DEF RowTypes, IsRow
    <3> HIDE DEF used
    <3>3a. IsSequence(used) /\ Len(used) = Len(tokens) /\ DOMAIN used = DOMAIN tokens
      BY <3>3, <2>a, SequenceReplaced
    <3>4. /\ IsSequence(tokens') /\ DOMAIN tokens' = 1..n
          /\ \A t \in DOMAIN tokens \ {old} : tokens'[t] = tokens[t]
          /\ tokens'[old].state = "revoked" /\ tokens'[old].from = tokens[old].from
          /\ tokens'[n].state = "valid" /\ tokens'[n].from = old
          /\ IsRow(tokens'[old]) /\ IsRow(tokens'[n])
      <4>1. /\ IsSequence(tokens') /\ DOMAIN tokens' = 1..n
            /\ \A t \in DOMAIN tokens : tokens'[t] = used[t]
            /\ tokens'[n] = [state |-> "valid", from |-> old]
        BY <3>2, <3>3a, <2>a, SequenceGrows, SequenceDomain
      <4>2. IsRow([state |-> "valid", from |-> old])
        BY DEF IsRow
      <4>3. QED
        BY <3>1, <3>3, <4>1, <4>2
    <3>4d. \A t \in DOMAIN tokens : t \in DOMAIN tokens'
      BY <3>4, <2>a
    <3>4a. \A t \in DOMAIN tokens' : t \in Nat /\ (t \in DOMAIN tokens \/ t = n)
      BY <3>4, <2>a
    <3>4b. old \in Nat /\ old < n /\ n \in Nat /\ n \notin DOMAIN tokens
      BY <3>1, <2>a
    <3>4c. RowTypes'
      <4> HIDE DEF old
      <4>1. QED
        BY <3>1, <3>4, <3>4a, <3>4b, <2>a DEF RowTypes
    <3>5. /\ ActTypes' /\ acts'[w].at = "answer"
          /\ \A v \in Windows \ {w} : acts'[v] = acts[v]
      BY <3>2, <2>a DEF ActTypes, IsAct
    <3>6. \A v \in Windows \ {w} : Locked(v) => acts[v].old # old
      BY <3>1 DEF TokenInv, LockIsExclusive
    <3>7. \A t \in DOMAIN tokens : tokens[t].from # old
      BY <3>1, <2>a DEF TokenInv, ValidIsUnused
    <3> HIDE DEF old, n
    <3>8. LockedAreValid' /\ LockIsExclusive'
      <4>1. \A v \in Windows : Locked(v)' => v # w /\ acts'[v] = acts[v] /\ Locked(v)
        BY <3>5 DEF Locked
      <4>2. \A v \in Windows : Locked(v)' =>
               acts[v].old \in DOMAIN tokens \ {old} /\ tokens[acts[v].old].state = "valid"
        BY <3>6, <4>1 DEF TokenInv, LockedAreValid
      <4>3. LockedAreValid'
        BY <3>4, <3>4d, <4>1, <4>2 DEF LockedAreValid
      <4>4. LockIsExclusive'
        BY <4>1 DEF TokenInv, LockIsExclusive
      <4>5. QED
        BY <4>3, <4>4
    <3>9. SuccessorIsLater'
      BY <3>1, <3>4, <3>4a, <3>4b DEF TokenInv, SuccessorIsLater
    <3>10. \A t \in DOMAIN tokens' : tokens'[t].from = old => t = n
      BY <3>1, <3>4, <3>4a, <3>7
    <3>11. \A t \in DOMAIN tokens : tokens'[t].from = tokens[t].from /\ tokens[t].from # n
      BY <3>1, <3>4, <3>4a, <3>4b, <2>a DEF TokenInv, SuccessorIsLater, RowTypes
    <3>12. ValidIsUnused'
      BY <3>1, <3>4, <3>4a, <3>4b, <3>7, <3>11 DEF TokenInv, ValidIsUnused
    <3>13. TokenRotatesOnce'
      BY <3>4, <3>4a, <3>10, <3>11 DEF TokenInv, TokenRotatesOnce
    <3>14. QED
      BY <3>4c, <3>5, <3>8, <3>9, <3>12, <3>13 DEF TokenInv, TokenTypes
  <2>11. ASSUME NEW w \in Windows, MeAnswered(w) \/ TakeAnswer(w) PROVE TokenInv'
    <3>1. UNCHANGED tokens /\ acts = [v \in Windows |-> acts[v]] /\ IsAct(acts[w])
      BY <2>11, <2>a DEF MeAnswered, TakeAnswer, ActTypes
    <3>2. PICK a : acts' = [acts EXCEPT ![w] = a] /\ IsAct(a) /\ a.at \in {"quiet", "refresh"}
      <4>1. CASE TakeAnswer(w)
        <5>1. IsAct(Quiet) /\ Quiet.at = "quiet"
          BY DEF IsAct, Quiet
        <5>2. QED
          BY <4>1, <5>1 DEF TakeAnswer
      <4>2. CASE MeAnswered(w)
        <5>1. CASE Advances(w, "quiet")
          <6> DEFINE a == [acts[w] EXCEPT !.at = "quiet"]
          <6>1. acts' = [acts EXCEPT ![w] = a] /\ IsAct(a) /\ a.at \in {"quiet", "refresh"}
            BY <5>1, <3>1 DEF Advances, IsAct
          <6>2. QED
            BY <6>1
        <5>2. CASE acts' = [acts EXCEPT ![w].at = "refresh", ![w].old = kept.refresh]
          <6> DEFINE a == [acts[w] EXCEPT !.at = "refresh", !.old = kept.refresh]
          <6>1. IsAct(a) /\ a.at \in {"quiet", "refresh"}
            BY <3>1 DEF IsAct
          <6>2. acts' = [acts EXCEPT ![w] = a]
            BY <5>2, <3>1
          <6>3. QED
            BY <6>1, <6>2
        <5>3. QED
          BY <4>2, <5>1, <5>2 DEF MeAnswered
      <4>3. QED
        BY <2>11, <4>1, <4>2
    <3>3. /\ acts' = [v \in Windows |-> acts'[v]] /\ acts'[w] = a
          /\ \A v \in Windows \ {w} : acts'[v] = acts[v]
      BY <3>1, <3>2
    <3>4. ActTypes'
      BY <3>2, <3>3, <2>a DEF ActTypes
    <3>5. QED
      BY <3>1, <3>2, <3>3, <3>4, RequestGoesOn
  <2>12. QED
    BY <2>1, <2>2, <2>3, <2>4, <2>5, <2>6, <2>7, <2>8, <2>9, <2>10, <2>11 DEF UserNext
<1>3. QED
  BY <1>1, <1>2, PTL DEF UserSpec

(* A refresh token is replaced at most once, however many windows present  *)
(* it, whatever the size of the pool and the bounds                        *)
(* (auth.route.ts:101-115).                                                *)
THEOREM TokensRotateOnce == UserSpec => []TokenRotatesOnce
<1>1. TokenInv => TokenRotatesOnce
  BY DEF TokenInv
<1>2. QED
  BY <1>1, TokenInvariant, PTL

-----------------------------------------------------------------------------
(* Calls of the Manager.  While a call is under way, whatever is on its way *)
(* to be answered, and every answer it has not read yet, is for a request  *)
(* of its own or of a call beside it, however many of them there are.      *)

IsJob(j) == j = [x \in {"op", "stage", "input", "title", "project", "call"} |-> j[x]]
IsCall(r) == r = [x \in {"op", "stage", "tip", "got"} |-> r[x]]
Free == jobs[Gateway] = Idle

RpcShapes == rpcCalls = [c \in Calls |-> rpcCalls[c]] /\ \A c \in Calls : IsCall(rpcCalls[c])
RpcTypes ==
  /\ beside = [c \in Calls |-> beside[c]]
  /\ \A c \in Calls : rpcCalls[c].tip \in Nat
StreamShapes ==
  /\ IsSequence(toGateway) /\ IsSequence(replies)
  /\ \A i \in DOMAIN toGateway : toGateway[i].op \in {"register", "switch"}
JobShapes ==
  /\ jobs = [h \in Handlers |-> jobs[h]]
  /\ Free \/ (jobs[Gateway].op \in {"register", "switch"} /\ IsJob(jobs[Gateway]))
CallTypes == RpcShapes /\ RpcTypes /\ StreamShapes /\ JobShapes

Known(c) == {c} \cup beside[c]
Ahead(c) == {i \in DOMAIN replies : i > rpcCalls[c].tip}
RequestsKnown == \A c \in Calls : UnderWay(c) => Outstanding \subseteq Known(c)
AnswersKnown == \A c \in Calls : UnderWay(c) => \A i \in Ahead(c) : replies[i].call \in Known(c)

CallInv == CallTypes /\ RequestsKnown /\ AnswersKnown /\ AnswersAreOwn

(* A step that leaves the calls and both streams alone, and in which the   *)
(* gateway goes on with its request or drops it.                           *)
LEMMA CallsUntouched ==
  ASSUME CallInv, UNCHANGED <<rpcCalls, beside, toGateway, replies>>,
         jobs' = [h \in Handlers |-> jobs'[h]],
         \/ jobs'[Gateway] = jobs[Gateway]
         \/ jobs'[Gateway] = Idle
         \/ /\ ~Free /\ jobs'[Gateway].op = jobs[Gateway].op
            /\ jobs'[Gateway].call = jobs[Gateway].call /\ IsJob(jobs'[Gateway])
  PROVE  CallInv'
<1>1. CallTypes'
  BY DEF CallInv, CallTypes, RpcShapes, RpcTypes, StreamShapes, JobShapes, Free, Idle
<1>2. Outstanding' \subseteq Outstanding
  BY DEF Outstanding, Free
<1>3. RequestsKnown'
  BY <1>2 DEF CallInv, RequestsKnown, UnderWay, Known
<1>4. AnswersKnown' /\ AnswersAreOwn'
  BY DEF CallInv, AnswersKnown, AnswersAreOwn, UnderWay, Known, Ahead
<1> QED BY <1>1, <1>3, <1>4 DEF CallInv

(* A step in which some handler answers.                                   *)
LEMMA CallsAnswered ==
  ASSUME CallInv, UNCHANGED <<rpcCalls, beside, toGateway>>,
         NEW h \in Handlers, NEW type, Answer(h, type), jobs[h].op # "idle"
  PROVE  CallInv'
<1>1. CASE h = Gateway
  <2>1. PICK e : replies' = Append(replies, e) /\ e.call = jobs[Gateway].call
    BY <1>1 DEF Answer
  <2>2. jobs' = [jobs EXCEPT ![Gateway] = Idle] /\ ~Free
    BY <1>1 DEF Answer, Free, Idle
  <2>3. /\ IsSequence(replies') /\ Len(replies') = Len(replies) + 1 /\ Len(replies) \in Nat
        /\ replies'[Len(replies) + 1] = e
        /\ \A i \in 1..Len(replies) : replies'[i] = replies[i]
    BY <2>1, SequenceGrows DEF CallInv, CallTypes, StreamShapes
  <2>4. jobs' = [g \in Handlers |-> jobs'[g]] /\ Free'
    BY <2>2 DEF CallInv, CallTypes, JobShapes, Free, Handlers
  <2>5. CallTypes'
    BY <2>3, <2>4 DEF CallInv, CallTypes, RpcShapes, RpcTypes, StreamShapes, JobShapes
  <2>6. Outstanding' \subseteq Outstanding /\ e.call \in Outstanding
    BY <2>1, <2>2, <2>4 DEF Outstanding, Free
  <2>7. RequestsKnown'
    BY <2>6 DEF CallInv, RequestsKnown, UnderWay, Known
  <2>8. AnswersKnown'
    <3> SUFFICES ASSUME NEW c \in Calls, UnderWay(c), NEW i \in Ahead(c)'
                 PROVE  replies'[i].call \in Known(c)
      BY DEF AnswersKnown, UnderWay, Known
    <3>1. DOMAIN replies = 1..Len(replies) /\ DOMAIN replies' = 1..Len(replies) + 1
      BY <2>3, SequenceDomain DEF CallInv, CallTypes, StreamShapes
    <3>2. CASE i = Len(replies) + 1
      BY <2>3, <2>6, <3>2 DEF CallInv, RequestsKnown
    <3>3. CASE i # Len(replies) + 1
      <4>1. i \in 1..Len(replies) /\ i \in Ahead(c)
        BY <2>3, <3>1, <3>3 DEF Ahead
      <4> QED BY <2>3, <4>1 DEF CallInv, AnswersKnown
    <3> QED BY <3>2, <3>3
  <2>9. AnswersAreOwn'
    BY DEF CallInv, AnswersAreOwn
  <2> QED BY <2>5, <2>7, <2>8, <2>9 DEF CallInv
<1>2. CASE h # Gateway
  <2>1. UNCHANGED replies /\ jobs'[Gateway] = jobs[Gateway] /\ jobs' = [g \in Handlers |-> jobs'[g]]
    BY <1>2 DEF Answer, CallInv, CallTypes, JobShapes, Handlers
  <2>2. QED
    BY <2>1, CallsUntouched
<1>3. QED
  BY <1>1, <1>2

(* Any step of a handler is one of these two.                              *)
LEMMA HandlersKeepCalls ==
  ASSUME CallInv, NEW h \in Handlers, HandlerStep(h) \/ (h \in Requests /\ RequestStep(h))
  PROVE  CallInv'
<1>1. ASSUME UNCHANGED <<rpcCalls, beside, toGateway, replies>>, NEW j, jobs' = [jobs EXCEPT ![h] = j],
             h # Gateway \/ (~Free /\ j.op = jobs[h].op /\ j.call = jobs[h].call /\ IsJob(j))
      PROVE  CallInv'
  <2>1. jobs' = [g \in Handlers |-> jobs'[g]]
    BY <1>1 DEF CallInv, CallTypes, JobShapes
  <2>2. h # Gateway => jobs'[Gateway] = jobs[Gateway]
    BY <1>1 DEF CallInv, CallTypes, JobShapes, Handlers
  <2>3. h = Gateway => jobs'[Gateway] = j
    BY <1>1 DEF CallInv, CallTypes, JobShapes, Handlers
  <2>4. QED
    BY <1>1, <2>1, <2>2, <2>3, CallsUntouched
<1>2. ASSUME UNCHANGED <<rpcCalls, beside, toGateway, replies>>, NEW stage, Goto(h, stage),
             jobs[h].op \in {"register", "switch", "workspace"}
      PROVE  CallInv'
  <2> DEFINE j == [jobs[h] EXCEPT !.stage = stage]
  <2>1. jobs' = [jobs EXCEPT ![h] = j]
    BY <1>2 DEF Goto
  <2>2. h = Gateway => ~Free /\ j.op = jobs[h].op /\ j.call = jobs[h].call /\ IsJob(j)
    <3>1. h = Gateway => ~Free /\ IsJob(jobs[h])
      BY <1>2 DEF CallInv, CallTypes, JobShapes, Free, Idle
    <3>2. QED
      BY <3>1 DEF IsJob
  <2> HIDE DEF j
  <2>3. QED
    BY <1>1, <1>2, <2>1, <2>2
<1>3. CASE CheckRegistration(h)
  BY <1>3, <1>2, CallsAnswered DEF CheckRegistration, At, Refuse
<1>4. CASE CreateRow(h)
  <2>1. CASE Clashes(jobs[h].title)
    BY <1>4, <2>1, CallsAnswered DEF CreateRow, At, Refuse
  <2>2. CASE ~Clashes(jobs[h].title)
    <3> DEFINE j == [jobs[h] EXCEPT !.stage = After("create"), !.project = NextId]
    <3>1. jobs' = [jobs EXCEPT ![h] = j] /\ UNCHANGED <<rpcCalls, beside, toGateway, replies>>
          /\ jobs[h].op = "register"
      BY <1>4, <2>2 DEF CreateRow, At
    <3>2. h = Gateway => ~Free /\ j.op = jobs[h].op /\ j.call = jobs[h].call /\ IsJob(j)
      <4>1. h = Gateway => ~Free /\ IsJob(jobs[h])
        BY <3>1 DEF CallInv, CallTypes, JobShapes, Free, Idle
      <4>2. IsJob(jobs[h]) => IsJob(j) /\ j.op = jobs[h].op /\ j.call = jobs[h].call
        BY DEF IsJob
      <4>3. QED
        BY <4>1, <4>2
    <3> HIDE DEF j
    <3>3. QED
      BY <1>1, <3>1, <3>2
  <2>3. QED
    BY <2>1, <2>2
<1>5. CASE UpdateRow(h)
  BY <1>5, <1>2 DEF UpdateRow, At
<1>6. CASE LinkRegistered(h) \/ LinkSwitched(h)
  BY <1>6, CallsAnswered DEF LinkRegistered, LinkSwitched, At, Refuse
<1>7. CASE FindProject(h)
  <2>1. CASE session # None /\ Named(jobs[h].title) # {}
    <3> DEFINE j == [jobs[h] EXCEPT !.stage = "link", !.project = Newest(Named(jobs[h].title))]
    <3>1. jobs' = [jobs EXCEPT ![h] = j] /\ UNCHANGED <<rpcCalls, beside, toGateway, replies>>
          /\ jobs[h].op = "switch"
      BY <1>7, <2>1 DEF FindProject, At
    <3>2. h = Gateway => ~Free /\ j.op = jobs[h].op /\ j.call = jobs[h].call /\ IsJob(j)
      <4>1. h = Gateway => ~Free /\ IsJob(jobs[h])
        BY <3>1 DEF CallInv, CallTypes, JobShapes, Free, Idle
      <4>2. IsJob(jobs[h]) => IsJob(j) /\ j.op = jobs[h].op /\ j.call = jobs[h].call
        BY DEF IsJob
      <4>3. QED
        BY <4>1, <4>2
    <3> HIDE DEF j
    <3>3. QED
      BY <1>1, <3>1, <3>2
  <2>2. CASE ~(session # None /\ Named(jobs[h].title) # {})
    BY <1>7, <2>2, CallsAnswered DEF FindProject, At, Refuse
  <2>3. QED
    BY <2>1, <2>2
<1>8. CASE QueryFailsOf(h)
  BY <1>8, CallsAnswered DEF QueryFailsOf, Refuse
<1>9. CASE h \in Requests /\ RequestStep(h)
  <2>0. h # Gateway
    BY <1>9, GatewayIsNoRequest
  <2>1. CASE WorkspaceCloned(h)
    BY <2>1, <1>2, CallsAnswered DEF WorkspaceCloned, At, Refuse
  <2>2. CASE UpdateWorkspace(h)
    BY <2>2, CallsAnswered DEF UpdateWorkspace, At
  <2>3. CASE RequestRegister(h) \/ RequestSwitch(h) \/ RequestWorkspace(h) \/ CreateProject(h)
    <3>1. UNCHANGED <<rpcCalls, beside, toGateway, replies>> /\ \E j : jobs' = [jobs EXCEPT ![h] = j]
      BY <2>3 DEF RequestRegister, RequestSwitch, RequestWorkspace, CreateProject
    <3>2. QED
      BY <3>1, <2>0, <1>1
  <2>4. CASE RenameProject(h) \/ DeleteProject(h)
    <3>1. UNCHANGED <<rpcCalls, beside, toGateway, replies, jobs>>
      BY <2>4 DEF RenameProject, DeleteProject
    <3>2. QED
      BY <3>1, CallsUntouched DEF CallInv, CallTypes, JobShapes
  <2>5. QED
    BY <1>9, <2>1, <2>2, <2>3, <2>4 DEF RequestStep
<1>10. QED
  BY <1>3, <1>4, <1>5, <1>6, <1>7, <1>8, <1>9 DEF HandlerStep

(* The inductive invariant.                                                *)
THEOREM CallInvariant == ProjectsSpec => []CallInv
<1>1. ProjectsInit => CallInv
  <2> SUFFICES ASSUME ProjectsInit PROVE CallInv
    OBVIOUS
  <2>1. IsSequence(<< >>)
    BY DEF IsSequence
  <2>2. /\ rpcCalls = [c \in Calls |-> [op |-> None, stage |-> "unmade", tip |-> 0, got |-> None]]
        /\ jobs = [h \in Handlers |-> Idle] /\ toGateway = << >> /\ replies = << >>
        /\ beside = [c \in Calls |-> {}] /\ Gateway \in Handlers
    BY DEF ProjectsInit, Handlers
  <2>3. RpcShapes /\ RpcTypes
    BY <2>2 DEF RpcShapes, RpcTypes, IsCall
  <2>4. StreamShapes /\ JobShapes
    BY <2>1, <2>2 DEF StreamShapes, JobShapes, Free
  <2>5. \A c \in Calls : ~UnderWay(c) /\ rpcCalls[c].stage # "ended"
    BY <2>2 DEF UnderWay
  <2> QED BY <2>3, <2>4, <2>5 DEF CallInv, CallTypes, RequestsKnown, AnswersKnown, AnswersAreOwn
<1>2. CallInv /\ [ProjectsNext]_projectVars => CallInv'
  <2> SUFFICES ASSUME CallInv, [ProjectsNext]_projectVars PROVE CallInv'
    OBVIOUS
  <2>1. CASE UNCHANGED <<rpcCalls, beside, toGateway, replies, jobs>>
    BY <2>1, CallsUntouched DEF CallInv, CallTypes, JobShapes
  <2>2. CASE GatewayTakes
    <3> DEFINE r == Head(toGateway)
               j == Job(r.op, r.input, r.title, r.call)
    <3>1. /\ jobs' = [jobs EXCEPT ![Gateway] = j] /\ toGateway' = Tail(toGateway)
          /\ toGateway # << >> /\ Free /\ UNCHANGED <<rpcCalls, beside, replies>>
      BY <2>2 DEF GatewayTakes, Free
    <3>2. /\ IsSequence(toGateway') /\ r = toGateway[1] /\ 1 \in DOMAIN toGateway
          /\ \A i \in DOMAIN toGateway' : i + 1 \in DOMAIN toGateway /\ toGateway'[i] = toGateway[i + 1]
      BY <3>1, SequenceShrinks DEF CallInv, CallTypes, StreamShapes
    <3>3. j.op = r.op /\ j.call = r.call /\ IsJob(j)
      BY DEF Job, IsJob
    <3> HIDE DEF j, r
    <3>4. jobs'[Gateway] = j /\ jobs' = [h \in Handlers |-> jobs'[h]]
      BY <3>1 DEF CallInv, CallTypes, JobShapes, Handlers
    <3>5. r.op \in {"register", "switch"}
      BY <3>2 DEF CallInv, CallTypes, StreamShapes
    <3>6. CallTypes'
      BY <3>1, <3>2, <3>3, <3>4, <3>5 DEF CallInv, CallTypes, RpcShapes, RpcTypes, StreamShapes, JobShapes, Free
    <3>7. Outstanding' \subseteq Outstanding
      <4>1. \A i \in DOMAIN toGateway' : toGateway'[i].call \in Outstanding
        BY <3>2 DEF Outstanding
      <4>2. jobs'[Gateway].call \in Outstanding
        BY <3>2, <3>3, <3>4 DEF Outstanding
      <4> QED BY <4>1, <4>2 DEF Outstanding
    <3>8. RequestsKnown'
      BY <3>1, <3>7 DEF CallInv, RequestsKnown, UnderWay, Known
    <3>9. AnswersKnown' /\ AnswersAreOwn'
      BY <3>1 DEF CallInv, AnswersKnown, AnswersAreOwn, UnderWay, Known, Ahead
    <3> QED BY <3>6, <3>8, <3>9 DEF CallInv
  <2>3. CASE Exit
    <3>1. UNCHANGED <<rpcCalls, beside, toGateway, replies>>
          /\ jobs' = [h \in Handlers |-> IF jobs[h].op = "answered" THEN jobs[h] ELSE Idle]
      BY <2>3 DEF Exit
    <3>2. jobs[Gateway].op # "answered" /\ Gateway \in Handlers
      BY DEF CallInv, CallTypes, JobShapes, Free, Idle, Handlers
    <3>3. jobs'[Gateway] = Idle /\ jobs' = [h \in Handlers |-> jobs'[h]]
      BY <3>1, <3>2
    <3>4. QED
      BY <3>1, <3>3, CallsUntouched
  <2>4. CASE Work \/ Restart
    BY <2>4, <2>1 DEF Work, Restart
  <2>5. ASSUME NEW h \in Handlers, HandlerStep(h) \/ (h \in Requests /\ RequestStep(h)) PROVE CallInv'
    BY <2>5, HandlersKeepCalls
  <2>6. ASSUME NEW g \in clones, GitBegins(g) \/ GitEnds(g) \/ CleanUp(g) \/ BackgroundEnds(g)
        PROVE  CallInv'
    BY <2>6, <2>1 DEF GitBegins, GitEnds, CleanUp, BackgroundEnds
  <2>7. ASSUME NEW c \in Calls, MakeCall(c) PROVE CallInv'
    <3> DEFINE r == [rpcCalls[c] EXCEPT !.stage = "made", !.tip = Tip]
    <3>1. /\ rpcCalls' = [rpcCalls EXCEPT ![c] = r] /\ beside' = [beside EXCEPT ![c] = Outstanding]
          /\ UNCHANGED <<jobs, toGateway, replies>>
      BY <2>7 DEF MakeCall
    <3>2. IsCall(r) /\ r.stage = "made" /\ r.tip = Len(replies) /\ Len(replies) \in Nat
          /\ DOMAIN replies = 1..Len(replies)
      BY SequenceDomain DEF Tip, IsCall, CallInv, CallTypes, RpcShapes, StreamShapes
    <3> HIDE DEF r
    <3>3. /\ rpcCalls' = [d \in Calls |-> rpcCalls'[d]] /\ rpcCalls'[c] = r
          /\ beside' = [d \in Calls |-> beside'[d]] /\ beside'[c] = Outstanding
          /\ \A d \in Calls \ {c} : rpcCalls'[d] = rpcCalls[d] /\ beside'[d] = beside[d]
      BY <3>1 DEF CallInv, CallTypes, RpcShapes, RpcTypes
    <3>4. CallTypes'
      BY <3>1, <3>2, <3>3 DEF CallInv, CallTypes, RpcShapes, RpcTypes, StreamShapes, JobShapes, Free
    <3>5. Outstanding' = Outstanding
      BY <3>1 DEF Outstanding
    <3>6. RequestsKnown'
      <4> SUFFICES ASSUME NEW d \in Calls, UnderWay(d)' PROVE Outstanding \subseteq Known(d)'
        BY <3>5 DEF RequestsKnown
      <4>1. CASE d = c
        BY <3>3, <4>1 DEF Known
      <4>2. CASE d # c
        BY <3>3, <4>2 DEF CallInv, RequestsKnown, UnderWay, Known
      <4> QED BY <4>1, <4>2
    <3>7. AnswersKnown'
      <4> SUFFICES ASSUME NEW d \in Calls, UnderWay(d)', NEW i \in Ahead(d)' PROVE replies[i].call \in Known(d)'
        BY <3>1 DEF AnswersKnown
      <4>1. d # c
        BY <3>1, <3>2, <3>3 DEF Ahead
      <4> QED BY <3>1, <3>3, <4>1 DEF CallInv, AnswersKnown, UnderWay, Known, Ahead
    <3>8. AnswersAreOwn'
      BY <3>2, <3>3 DEF CallInv, AnswersAreOwn
    <3> QED BY <3>4, <3>6, <3>7, <3>8 DEF CallInv
  <2>8. ASSUME NEW c \in Calls, Request(c) PROVE CallInv'
    <3>1. PICK t \in ToolInputs :
            /\ toGateway' = Append(toGateway, [op |-> t.op, input |-> t.input, title |-> t.title, call |-> c])
            /\ rpcCalls' = [rpcCalls EXCEPT ![c].op = t.op, ![c].stage = "waiting"]
      BY <2>8 DEF Request
    <3>2. /\ UnderWay(c) /\ UNCHANGED <<replies, jobs>>
          /\ beside' = [d \in Calls |-> IF d # c /\ UnderWay(d) THEN beside[d] \cup {c} ELSE beside[d]]
      BY <2>8 DEF Request, UnderWay
    <3> DEFINE e == [op |-> t.op, input |-> t.input, title |-> t.title, call |-> c]
               r == [rpcCalls[c] EXCEPT !.op = t.op, !.stage = "waiting"]
    <3>3. t.op \in {"register", "switch"} /\ e.op = t.op /\ e.call = c
      BY DEF ToolInputs
    <3>4. rpcCalls' = [rpcCalls EXCEPT ![c] = r]
      BY <3>1
    <3>5. IsCall(r) /\ r.stage = "waiting" /\ r.tip = rpcCalls[c].tip
      BY DEF IsCall, CallInv, CallTypes, RpcShapes
    <3> HIDE DEF e, r
    <3>6. /\ IsSequence(toGateway') /\ Len(toGateway') = Len(toGateway) + 1 /\ Len(toGateway) \in Nat
          /\ toGateway'[Len(toGateway) + 1] = e
          /\ \A i \in 1..Len(toGateway) : toGateway'[i] = toGateway[i]
      BY <3>1, SequenceGrows DEF CallInv, CallTypes, StreamShapes, e
    <3>7. \A i \in DOMAIN toGateway' : toGateway'[i] = e \/ (i \in DOMAIN toGateway /\ toGateway'[i] = toGateway[i])
      <4>1. DOMAIN toGateway' = 1..Len(toGateway) + 1 /\ DOMAIN toGateway = 1..Len(toGateway)
        BY <3>6, SequenceDomain DEF CallInv, CallTypes, StreamShapes
      <4>2. QED
        BY <4>1, <3>6
    <3>8. /\ rpcCalls'[c] = r /\ rpcCalls' = [d \in Calls |-> rpcCalls'[d]]
          /\ \A d \in Calls \ {c} : rpcCalls'[d] = rpcCalls[d]
          /\ \A d \in Calls : UnderWay(d)' <=> UnderWay(d)
      BY <3>2, <3>4, <3>5 DEF CallInv, CallTypes, RpcShapes, UnderWay
    <3>9. CallTypes'
      <4>1. RpcShapes' /\ RpcTypes'
        BY <3>2, <3>5, <3>8 DEF CallInv, CallTypes, RpcShapes, RpcTypes
      <4>2. StreamShapes' /\ JobShapes'
        BY <3>2, <3>3, <3>6, <3>7 DEF CallInv, CallTypes, StreamShapes, JobShapes, Free
      <4> QED BY <4>1, <4>2 DEF CallTypes
    <3>10. Outstanding' \subseteq Outstanding \cup {c}
      BY <3>2, <3>3, <3>7 DEF Outstanding
    <3>11. \A d \in Calls : UnderWay(d) => Known(d)' = Known(d) \cup {c}
      BY <3>2 DEF Known
    <3>12. RequestsKnown'
      BY <3>8, <3>10, <3>11 DEF CallInv, RequestsKnown
    <3>13. \A d \in Calls : Ahead(d)' = Ahead(d)
      BY <3>2, <3>5, <3>8 DEF Ahead
    <3>14. AnswersKnown'
      BY <3>2, <3>8, <3>11, <3>13 DEF CallInv, AnswersKnown
    <3>15. AnswersAreOwn'
      <4> SUFFICES ASSUME NEW d \in Calls, rpcCalls'[d].stage = "ended"
                   PROVE  rpcCalls'[d].got = d \/ rpcCalls'[d].got \in beside'[d]
        BY DEF AnswersAreOwn
      <4>1. d # c /\ rpcCalls'[d] = rpcCalls[d]
        BY <3>5, <3>8
      <4> QED BY <3>2, <4>1 DEF CallInv, AnswersAreOwn
    <3> QED BY <3>9, <3>12, <3>14, <3>15 DEF CallInv
  <2>9. ASSUME NEW c \in Calls, Receive(c) PROVE CallInv'
    <3> DEFINE reply == replies[rpcCalls[c].tip + 1]
               ends == reply.type \in {rpcCalls[c].op, "project_error"}
    <3>1. /\ UnderWay(c) /\ rpcCalls[c].tip < Len(replies) /\ UNCHANGED <<jobs, beside, toGateway, replies>>
          /\ rpcCalls' = [rpcCalls EXCEPT ![c].tip = @ + 1,
                   ![c].stage = IF ends THEN "ended" ELSE "waiting",
                   ![c].got = IF ends THEN reply.call ELSE None]
      BY <2>9 DEF Receive, UnderWay
    <3>2. /\ rpcCalls' = [d \in Calls |-> rpcCalls'[d]]
          /\ \A d \in Calls \ {c} : rpcCalls'[d] = rpcCalls[d]
          /\ rpcCalls'[c].tip = rpcCalls[c].tip + 1
          /\ rpcCalls'[c].stage = IF ends THEN "ended" ELSE "waiting"
          /\ rpcCalls'[c].got = IF ends THEN reply.call ELSE None
          /\ IsCall(rpcCalls'[c])
      <4>1. rpcCalls = [d \in Calls |-> rpcCalls[d]] /\ IsCall(rpcCalls[c])
        BY DEF CallInv, CallTypes, RpcShapes
      <4> HIDE DEF ends
      <4>2. QED
        BY <3>1, <4>1 DEF IsCall
    <3>3. reply.call \in Known(c)
      <4>1. rpcCalls[c].tip + 1 \in Ahead(c)
        BY <3>1, SequenceDomain DEF CallInv, CallTypes, StreamShapes, RpcTypes, Ahead
      <4> QED BY <3>1, <4>1 DEF CallInv, AnswersKnown
    <3> HIDE DEF ends, reply
    <3>4. CallTypes'
      <4>1. RpcShapes' /\ RpcTypes'
        BY <3>1, <3>2 DEF CallInv, CallTypes, RpcShapes, RpcTypes
      <4>2. StreamShapes' /\ JobShapes'
        BY <3>1 DEF CallInv, CallTypes, StreamShapes, JobShapes, Free
      <4> QED BY <4>1, <4>2 DEF CallTypes
    <3>5. \A d \in Calls : (UnderWay(d)' => UnderWay(d)) /\ Known(d)' = Known(d) /\ Ahead(d)' \subseteq Ahead(d)
      <4>1. \A d \in Calls : rpcCalls[d].tip \in Nat /\ rpcCalls'[d].tip \in Nat /\ rpcCalls[d].tip <= rpcCalls'[d].tip
        BY <3>2 DEF CallInv, CallTypes, RpcTypes
      <4>2. DOMAIN replies \subseteq Nat
        BY SequenceDomain DEF CallInv, CallTypes, StreamShapes
      <4>3. ASSUME NEW d \in Calls, NEW i \in Ahead(d)' PROVE i \in Ahead(d)
        <5>1. i \in DOMAIN replies /\ i \in Nat /\ i > rpcCalls'[d].tip
          BY <3>1, <4>2 DEF Ahead
        <5>2. i > rpcCalls[d].tip
          BY <4>1, <5>1
        <5> QED BY <5>1, <5>2 DEF Ahead
      <4> QED BY <3>1, <3>2, <4>3 DEF UnderWay, Known
    <3>6. RequestsKnown' /\ AnswersKnown'
      <4>1. Outstanding' = Outstanding
        BY <3>1 DEF Outstanding
      <4> QED BY <3>1, <3>5, <4>1 DEF CallInv, RequestsKnown, AnswersKnown
    <3>7. AnswersAreOwn'
      <4> SUFFICES ASSUME NEW d \in Calls, rpcCalls'[d].stage = "ended"
                   PROVE  rpcCalls'[d].got = d \/ rpcCalls'[d].got \in beside[d]
        BY <3>1 DEF AnswersAreOwn
      <4>1. CASE d = c
        <5>1. rpcCalls'[c].got = reply.call
          BY <3>2, <4>1
        <5> QED BY <3>3, <4>1, <5>1 DEF Known
      <4>2. CASE d # c
        BY <3>2, <4>2 DEF CallInv, AnswersAreOwn
      <4> QED BY <4>1, <4>2
    <3> QED BY <3>4, <3>6, <3>7 DEF CallInv
  <2>10. ASSUME NEW c \in Calls, CallTimesOut(c) PROVE CallInv'
    <3> DEFINE r == [rpcCalls[c] EXCEPT !.stage = "timed out"]
    <3>1. /\ rpcCalls' = [rpcCalls EXCEPT ![c] = r]
          /\ UNCHANGED <<jobs, beside, toGateway, replies>>
      BY <2>10 DEF CallTimesOut
    <3>2. IsCall(r) /\ r.stage = "timed out" /\ r.tip = rpcCalls[c].tip
      BY DEF IsCall, CallInv, CallTypes, RpcShapes
    <3> HIDE DEF r
    <3>3. /\ rpcCalls'[c] = r /\ rpcCalls' = [d \in Calls |-> rpcCalls'[d]]
          /\ \A d \in Calls \ {c} : rpcCalls'[d] = rpcCalls[d]
      BY <3>1 DEF CallInv, CallTypes, RpcShapes
    <3>4. CallTypes'
      BY <3>1, <3>2, <3>3 DEF CallInv, CallTypes, RpcShapes, RpcTypes, StreamShapes, JobShapes, Free
    <3>5. \A d \in Calls : (UnderWay(d)' => UnderWay(d)) /\ Known(d)' = Known(d) /\ Ahead(d)' = Ahead(d)
      BY <3>1, <3>2, <3>3 DEF UnderWay, Known, Ahead
    <3>6. RequestsKnown' /\ AnswersKnown'
      <4>1. Outstanding' = Outstanding
        BY <3>1 DEF Outstanding
      <4> QED BY <3>1, <3>5, <4>1 DEF CallInv, RequestsKnown, AnswersKnown
    <3>7. AnswersAreOwn'
      BY <3>1, <3>2, <3>3 DEF CallInv, AnswersAreOwn
    <3> QED BY <3>4, <3>6, <3>7 DEF CallInv
  <2>11. QED
    BY <2>1, <2>2, <2>3, <2>4, <2>5, <2>6, <2>7, <2>8, <2>9, <2>10
       DEF ProjectsNext, projectVars, Handlers
<1>3. QED
  BY <1>1, <1>2, PTL DEF ProjectsSpec

(* The answer that ends a call is the one to its own request or to one that *)
(* stood unanswered beside it, although no message says which request it    *)
(* belongs to; for any number of calls that overlap, requests and faults    *)
(* (project-rpc.ts, project-gateway.ts).                                    *)
THEOREM AnswersOwn == ProjectsSpec => []AnswersAreOwn
<1>1. CallInv => AnswersAreOwn
  BY DEF CallInv
<1>2. QED
  BY <1>1, CallInvariant, PTL

-----------------------------------------------------------------------------
(* OrchestratorSession.  There is one place where the socket of a session   *)
(* is let go of while it is open: the last word of the Manager.             *)

SocketsKeepShape == sockets = [s \in Sockets |-> sockets[s]]

(* What a step may do to the sockets leaves their shape.                   *)
LEMMA SocketSteps ==
  ASSUME SocketsKeepShape, [SessionNext]_sessionVars
  PROVE  SocketsKeepShape'
<1>1. sockets' = sockets \/ \E s \in Sockets, state \in {"connecting", "cut", "open", "closed", "refused"} :
                              sockets' = [sockets EXCEPT ![s] = state]
  BY DEF SessionNext, sessionVars, clients, CreateSession, DeleteRow, GraceEnds, Connect, Connected,
         Cut, Close, Register, Post, Stored, TurnFails, RunnerAnswers, CreateTask, Forward, ManagerSends,
         Loop, LoopReady, LoopReads, LoopStops, LoopHandles, LoopFails, GroupLost
<1> QED BY <1>1 DEF SocketsKeepShape

(* The socket of the session changes with a connection, with its close, or *)
(* with the last word of the Manager.                                      *)
LEMMA LetsGo ==
  ASSUME SocketsKeepShape, [SessionNext]_sessionVars,
         current # 0, sockets'[current] = "open", current' = 0
  PROVE  loop = "handling" /\ Head(batch) = "last"
<1>1. current' # current
  OBVIOUS
<1>2. CASE \E s \in Sockets : Connect(s) \/ Connected(s)
  <2>1. PICK s \in Sockets : Connect(s) \/ Connected(s)
    BY <1>2
  <2>2. current' = s
    BY <1>1, <2>1 DEF Connect, Connected, Register
  <2> QED BY <2>2, SessionAssumption DEF Sockets
<1>3. CASE \E s \in Sockets : Close(s)
  <2>1. PICK s \in Sockets : Close(s)
    BY <1>3
  <2>2. s = current /\ sockets' = [sockets EXCEPT ![s] = "closed"]
    BY <1>1, <2>1 DEF Close, IsCurrent
  <2>3. sockets'[current] = "closed"
    BY <2>2 DEF SocketsKeepShape
  <2> QED BY <2>3
<1>4. CASE LoopHandles
  BY <1>1, <1>4 DEF LoopHandles
<1>5. CASE ~LoopHandles /\ ~\E s \in Sockets : Connect(s) \/ Connected(s) \/ Close(s)
  <2>1. current' = current
    BY <1>5 DEF SessionNext, sessionVars, clients, CreateSession, DeleteRow, GraceEnds, Cut,
         Post, Stored, TurnFails, RunnerAnswers, CreateTask, Forward, ManagerSends,
         Loop, LoopReady, LoopReads, LoopStops, LoopFails, GroupLost
  <2> QED BY <1>1, <2>1
<1> QED BY <1>2, <1>3, <1>4, <1>5

(* A session is torn down by its timer, which spares an open socket, or by *)
(* the last word of the Manager.                                           *)
LEMMA IsTornDown ==
  ASSUME [SessionNext]_sessionVars, current # 0, alive, ~alive'
  PROVE  loop = "handling" /\ Head(batch) = "last"
<1>1. alive' # alive
  OBVIOUS
<1>2. GraceEnds \/ LoopHandles
  BY <1>1 DEF SessionNext, sessionVars, store, CreateSession, DeleteRow, Connect, Connected,
         Cut, Close, Post, Stored, TurnFails, RunnerAnswers, CreateTask, Forward, ManagerSends,
         Loop, LoopReady, LoopReads, LoopStops, LoopFails, GroupLost
<1>3. ~GraceEnds
  BY <1>1 DEF GraceEnds
<1> QED BY <1>1, <1>2, <1>3 DEF LoopHandles

\* A session whose registered socket is open neither loses it, but to another
\* that registers, nor is torn down but by the Manager's last word; for any
\* number of connections, in whatever order their lookups end, turns and failures
\* (session.ws.ts, the identity check of the close handler).
THEOREM OpenStays == SessionSpec => OpenIsKept
<1>1. SessionInit => SocketsKeepShape
  BY DEF SessionInit, SocketsKeepShape
<1>2. SocketsKeepShape /\ [SessionNext]_sessionVars => SocketsKeepShape'
  BY SocketSteps
<1>3. SocketsKeepShape /\ [SessionNext]_sessionVars =>
        [(/\ current # 0 /\ sockets'[current] = "open"
          /\ current' = 0 \/ (alive /\ ~alive'))
           => loop = "handling" /\ Head(batch) = "last"]_sessionVars
  BY LetsGo, IsTornDown
<1> QED BY <1>1, <1>2, <1>3, PTL DEF SessionSpec, OpenIsKept

-----------------------------------------------------------------------------
(* McpProcesses, for any number of servers and processes.  What has an     *)
(* entry is a process of its server; a process that runs is either heard   *)
(* of, and then the entry of its server is for it, or it was told to end,  *)
(* unless a process of that server had to be killed.                       *)

Kid == [id : Servers, signal : {"none", "TERM", "KILL"}, runs : BOOLEAN, heard : BOOLEAN]
Fit(entries, kids, killed) ==
  /\ kids \in Seq(Kid)
  /\ entries \in [Servers -> Nat]
  /\ \A id \in Servers : entries[id] # 0 => entries[id] \in DOMAIN kids /\ kids[entries[id]].id = id
  /\ \A pid \in DOMAIN kids :
       kids[pid].runs /\ kids[pid].id \notin killed =>
         IF kids[pid].heard THEN entries[kids[pid].id] = pid ELSE kids[pid].signal # "none"

StopsFit ==
  \A stop \in stops : /\ stop.id \in Servers /\ stop.pid \in DOMAIN children
                      /\ children[stop.pid].id = stop.id
McpInv == Fit(processes, children, forced) /\ StopsFit

\* What an operation without starts does to the processes: a signal more, an
\* end, an entry less of one that ended or whose server had one killed.
Follow(kids, more, entries, fewer, killed) ==
  /\ more \in Seq(Kid) /\ DOMAIN more = DOMAIN kids
  /\ \A pid \in DOMAIN kids :
       /\ more[pid].id = kids[pid].id /\ more[pid].heard = kids[pid].heard
       /\ more[pid].runs => kids[pid].runs
       /\ kids[pid].signal # "none" => more[pid].signal # "none"
  /\ fewer \in [Servers -> Nat]
  /\ \A id \in Servers :
       \/ fewer[id] = entries[id]
       \/ fewer[id] = 0 /\ (id \in killed \/ ~more[entries[id]].runs)

LEMMA FollowsFit ==
  ASSUME NEW kids, NEW more, NEW entries, NEW fewer, NEW killed, NEW now,
         Fit(entries, kids, killed), killed \subseteq now, Follow(kids, more, entries, fewer, now)
  PROVE  Fit(fewer, more, now)
<1>1. ASSUME NEW id \in Servers, fewer[id] # 0 PROVE fewer[id] \in DOMAIN more /\ more[fewer[id]].id = id
  BY <1>1 DEF Fit, Follow
<1>2. ASSUME NEW pid \in DOMAIN more, more[pid].runs, more[pid].id \notin now
      PROVE  IF more[pid].heard THEN fewer[more[pid].id] = pid ELSE more[pid].signal # "none"
  <2>1. kids \in Seq(Kid) /\ more \in Seq(Kid) /\ pid \in DOMAIN kids
    BY <1>2 DEF Fit, Follow
  <2>2. kids[pid] \in Kid /\ more[pid] \in Kid
    BY <2>1, <1>2
  <2>3. /\ more[pid].id = kids[pid].id /\ more[pid].heard = kids[pid].heard /\ kids[pid].runs
        /\ kids[pid].signal # "none" => more[pid].signal # "none"
    BY <1>2, <2>1 DEF Follow
  <2>4. more[pid].id \in Servers
    BY <2>2 DEF Kid
  <2>5. IF kids[pid].heard THEN entries[kids[pid].id] = pid ELSE kids[pid].signal # "none"
    BY <1>2, <2>1, <2>3 DEF Fit
  <2>6. CASE more[pid].heard
    <3>1. entries[more[pid].id] = pid
      BY <2>3, <2>5, <2>6
    <3>2. fewer[more[pid].id] = entries[more[pid].id]
      BY <1>2, <2>4, <3>1 DEF Follow
    <3> QED BY <2>6, <3>1, <3>2
  <2> QED BY <2>3, <2>5, <2>6
<1> QED BY <1>1, <1>2 DEF Fit, Follow

\* A process of a server without an entry, with one for it.
LEMMA SpawnFits ==
  ASSUME NEW kids, NEW entries, NEW killed, NEW id \in Servers,
         Fit(entries, kids, killed), entries[id] = 0
  PROVE  Fit([entries EXCEPT ![id] = Len(kids) + 1], Append(kids, Child(id)), killed)
<1> PICK k : k = Child(id)
  OBVIOUS
<1> PICK more : more = Append(kids, k)
  OBVIOUS
<1> PICK after : after = [entries EXCEPT ![id] = Len(kids) + 1]
  OBVIOUS
<1>1. /\ k.id = id /\ k.runs /\ k.heard /\ k \in Kid
  BY DEF Child, Kid
<1>2. kids \in Seq(Kid) /\ Len(kids) \in Nat /\ DOMAIN kids = 1..Len(kids)
  BY DEF Fit
<1>3. /\ more \in Seq(Kid) /\ DOMAIN more = 1..(Len(kids) + 1)
      /\ more[Len(kids) + 1] = k /\ \A pid \in 1..Len(kids) : more[pid] = kids[pid]
  BY <1>1, <1>2
<1>4. /\ after \in [Servers -> Nat] /\ after[id] = Len(kids) + 1
      /\ \A i \in Servers \ {id} : after[i] = entries[i]
  BY <1>2 DEF Fit
<1>5. ASSUME NEW i \in Servers, after[i] # 0 PROVE after[i] \in DOMAIN more /\ more[after[i]].id = i
  <2>1. CASE i = id
    BY <1>1, <1>2, <1>3, <1>4, <2>1
  <2>2. CASE i # id
    BY <1>2, <1>3, <1>4, <1>5, <2>2 DEF Fit
  <2> QED BY <2>1, <2>2
<1>6. ASSUME NEW pid \in DOMAIN more, more[pid].runs, more[pid].id \notin killed
      PROVE  IF more[pid].heard THEN after[more[pid].id] = pid ELSE more[pid].signal # "none"
  <2>1. CASE pid = Len(kids) + 1
    BY <1>1, <1>3, <1>4, <2>1
  <2>2. CASE pid # Len(kids) + 1
    <3>1. pid \in 1..Len(kids) /\ more[pid] = kids[pid] /\ pid \in DOMAIN kids /\ pid # 0
      BY <1>2, <1>3, <1>6, <2>2
    <3>2. kids[pid] \in Kid
      BY <1>2, <3>1
    <3>3. kids[pid].id \in Servers
      BY <3>2 DEF Kid
    <3>4. IF kids[pid].heard THEN entries[kids[pid].id] = pid ELSE kids[pid].signal # "none"
      BY <1>6, <3>1 DEF Fit
    <3>5. CASE kids[pid].heard
      <4>1. kids[pid].id # id
        BY <3>1, <3>4, <3>5
      <4> QED BY <1>4, <3>1, <3>3, <3>4, <3>5, <4>1
    <3> QED BY <3>1, <3>4, <3>5
  <2> QED BY <2>1, <2>2
<1> QED BY <1>3, <1>4, <1>5, <1>6 DEF Fit

LEMMA KidsBySequence ==
  ASSUME NEW n \in Nat, NEW S, NEW f \in [1..n -> S] PROVE f \in Seq(S) /\ Len(f) = n
  OBVIOUS

\* A signal reaches those that run; those that are told to end are not idle.
LEMMA Signalled ==
  ASSUME NEW kids \in Seq(Kid), NEW pids, NEW signal \in {"TERM", "KILL"}
  PROVE  /\ Signal(kids, pids, signal) \in Seq(Kid)
         /\ DOMAIN Signal(kids, pids, signal) = DOMAIN kids
         /\ \A pid \in DOMAIN kids :
              /\ Signal(kids, pids, signal)[pid].id = kids[pid].id
              /\ Signal(kids, pids, signal)[pid].heard = kids[pid].heard
              /\ Signal(kids, pids, signal)[pid].runs = kids[pid].runs
              /\ kids[pid].signal # "none" \/ (pid \in pids /\ kids[pid].runs)
                   => Signal(kids, pids, signal)[pid].signal # "none"
<1> PICK more : more = Signal(kids, pids, signal)
  OBVIOUS
<1>1. /\ DOMAIN more = DOMAIN kids
      /\ \A i \in DOMAIN kids :
           more[i] = IF i \in pids /\ kids[i].runs THEN [kids[i] EXCEPT !.signal = signal] ELSE kids[i]
      /\ more = [i \in DOMAIN kids |-> more[i]]
  BY DEF Signal
<1>2. \A i \in DOMAIN kids : kids[i] \in Kid
  OBVIOUS
<1>3. ASSUME NEW i \in DOMAIN kids
      PROVE  /\ more[i] \in Kid /\ more[i].id = kids[i].id /\ more[i].heard = kids[i].heard
             /\ more[i].runs = kids[i].runs
             /\ kids[i].signal # "none" \/ (i \in pids /\ kids[i].runs) => more[i].signal # "none"
  BY <1>1, <1>2 DEF Kid
<1>4. DOMAIN kids = 1..Len(kids) /\ Len(kids) \in Nat
  OBVIOUS
<1>5. more \in [1..Len(kids) -> Kid]
  BY <1>1, <1>3, <1>4
<1>6. more \in Seq(Kid)
  BY <1>4, <1>5, KidsBySequence
<1> QED BY <1>1, <1>3, <1>6

\* A start keeps the entries and the processes together.
LEMMA StartFits ==
  ASSUME NEW id \in Servers, NEW s \in Starts(State, id), Fit(processes, children, forced)
  PROVE  /\ Fit(s.processes, s.children, forced)
         /\ \A pid \in DOMAIN children : pid \in DOMAIN s.children /\ s.children[pid].id = children[pid].id
<1>1. CASE processes[id] # 0
  BY <1>1 DEF Starts, State
<1>2. CASE processes[id] = 0
  <2>1. s = SpawnFailed(State, id) \/ s = Spawned(State, id)
    BY <1>2 DEF Starts, State
  <2>2. CASE s = SpawnFailed(State, id)
    BY <2>2 DEF SpawnFailed, State
  <2>3. CASE s = Spawned(State, id)
    <3> PICK k : k = Child(id)
      OBVIOUS
    <3>1. /\ s.processes = [processes EXCEPT ![id] = Len(children) + 1]
          /\ s.children = Append(children, Child(id))
      BY <2>3 DEF Spawned, State
    <3>2. Fit(s.processes, s.children, forced)
      BY <1>2, <3>1, SpawnFits
    <3>3. children \in Seq(Kid) /\ s.children = Append(children, k)
      BY <3>1 DEF Fit
    <3>4. \A pid \in 1..Len(children) : pid \in 1..(Len(children) + 1) /\ Append(children, k)[pid] = children[pid]
      BY <3>3
    <3> QED BY <3>2, <3>3, <3>4
  <2> QED BY <2>1, <2>2, <2>3
<1> QED BY <1>1, <1>2

\* So does the start of several at once, each with a process of its own.
LEMMA AllStartsFit ==
  ASSUME NEW list, NEW s \in AllStarts(list), Fit(processes, children, forced)
  PROVE  /\ Fit(s.processes, s.children, forced)
         /\ \A pid \in DOMAIN children : pid \in DOMAIN s.children /\ s.children[pid].id = children[pid].id
<1> PICK due : due = Due(list)
  OBVIOUS
<1>0. PICK n \in 0..(MaxProcesses - Len(children)) :
        s \in {AfterStarts(due, started) : started \in Injection(1..n, due)}
  BY DEF AllStarts
<1>1. PICK started \in Injection(1..n, due) :
        /\ s.processes = [id \in Servers |-> IF Place(started, id) = {} THEN processes[id]
                                             ELSE Len(children) + CHOOSE k \in Place(started, id) : TRUE]
        /\ s.children = children \o [k \in DOMAIN started |-> Child(started[k])]
  <2>1. PICK started \in Injection(1..n, due) : s = AfterStarts(due, started)
    BY <1>0
  <2> QED BY <2>1 DEF AfterStarts
<1>2. children \in Seq(Kid) /\ Len(children) \in Nat /\ DOMAIN children = 1..Len(children)
  BY DEF Fit
<1>3. n \in Nat
  BY <1>2, McpAssumption
<1>4. /\ started \in [1..n -> due] /\ DOMAIN started = 1..n
      /\ \A j, k \in 1..n : started[j] = started[k] => j = k
      /\ due \subseteq Servers /\ \A id \in due : processes[id] = 0
  BY DEF Injection, IsInjective, Due
<1> PICK added : added = [k \in DOMAIN started |-> Child(started[k])]
  OBVIOUS
<1>5. ASSUME NEW k \in 1..n
      PROVE  added[k].id = started[k] /\ added[k].runs /\ added[k].heard /\ added[k] \in Kid
  <2> PICK c : c = Child(started[k])
    OBVIOUS
  <2>1. started[k] \in Servers /\ added[k] = c
    BY <1>4, <1>5
  <2>2. c.id = started[k] /\ c.runs /\ c.heard /\ c \in Kid
    BY <2>1 DEF Child, Kid
  <2> QED BY <2>1, <2>2
<1>6. added \in [1..n -> Kid]
  BY <1>4, <1>5
<1>7. added \in Seq(Kid) /\ Len(added) = n
  BY <1>3, <1>6, KidsBySequence
<1> PICK after, more : after = s.processes /\ more = s.children
  OBVIOUS
<1>8. more = children \o added
  BY <1>1
<1>9. /\ more \in Seq(Kid) /\ Len(more) = Len(children) + n
      /\ \A i \in 1..(Len(children) + n) : more[i] = IF i <= Len(children) THEN children[i] ELSE added[i - Len(children)]
  BY <1>2, <1>7, <1>8, ConcatProperties
<1>10. DOMAIN more = 1..(Len(children) + n)
  BY <1>2, <1>3, <1>9
<1>11. ASSUME NEW k \in 1..n PROVE Place(started, started[k]) = {k}
  BY <1>4 DEF Place
<1>12. after = [id \in Servers |-> IF Place(started, id) = {} THEN processes[id]
                                   ELSE Len(children) + CHOOSE k \in Place(started, id) : TRUE]
  BY <1>1
<1>13. ASSUME NEW k \in 1..n PROVE started[k] \in due /\ started[k] \in Servers /\ after[started[k]] = Len(children) + k
  <2>1. started[k] \in due /\ started[k] \in Servers
    BY <1>4
  <2>2. PICK id, places : id = started[k] /\ places = Place(started, id)
    OBVIOUS
  <2>3. places = {k}
    BY <1>11, <2>2
  <2>4. (CHOOSE j \in places : TRUE) = k
    BY <2>3
  <2>5. after[id] = IF places = {} THEN processes[id] ELSE Len(children) + CHOOSE j \in places : TRUE
    BY <1>12, <2>1, <2>2
  <2> QED BY <2>1, <2>2, <2>3, <2>4, <2>5
<1>14. ASSUME NEW id \in Servers, \A k \in 1..n : started[k] # id PROVE after[id] = processes[id]
  <2>1. Place(started, id) = {}
    BY <1>4, <1>14 DEF Place
  <2> QED BY <1>12, <2>1
<1>15. ASSUME NEW id \in Servers
       PROVE  \/ after[id] = processes[id] /\ \A k \in 1..n : started[k] # id
              \/ \E k \in 1..n : started[k] = id /\ after[id] = Len(children) + k /\ processes[id] = 0
  BY <1>4, <1>13, <1>14
<1>16. after \in [Servers -> Nat]
  <2>1. ASSUME NEW id \in Servers PROVE after[id] \in Nat
    BY <1>2, <1>15 DEF Fit
  <2>2. after = [id \in Servers |-> after[id]]
    BY <1>12
  <2> QED BY <2>1, <2>2
<1>17. ASSUME NEW id \in Servers, after[id] # 0 PROVE after[id] \in DOMAIN more /\ more[after[id]].id = id
  <2>1. CASE after[id] = processes[id]
    <3>1. processes[id] \in 1..Len(children) /\ children[processes[id]].id = id
      BY <1>2, <1>17, <2>1 DEF Fit
    <3> QED BY <1>2, <1>3, <1>9, <1>10, <2>1, <3>1
  <2>2. CASE \E k \in 1..n : started[k] = id /\ after[id] = Len(children) + k
    <3>1. PICK k \in 1..n : started[k] = id /\ after[id] = Len(children) + k
      BY <2>2
    <3>2. more[Len(children) + k] = added[k] /\ Len(children) + k \in 1..(Len(children) + n)
      BY <1>2, <1>3, <1>9
    <3>3. added[k].id = started[k]
      BY <1>5
    <3>4. after[id] \in DOMAIN more /\ more[after[id]] = added[k]
      BY <1>10, <3>1, <3>2
    <3> QED BY <3>1, <3>3, <3>4
  <2> QED BY <1>15, <2>1, <2>2
<1>18. ASSUME NEW pid \in DOMAIN more, more[pid].runs, more[pid].id \notin forced
       PROVE  IF more[pid].heard THEN after[more[pid].id] = pid ELSE more[pid].signal # "none"
  <2>1. CASE pid \in 1..Len(children)
    <3>1. more[pid] = children[pid] /\ pid # 0 /\ pid \in DOMAIN children
      BY <1>2, <1>9, <1>10, <2>1
    <3>2. children[pid] \in Kid
      BY <1>2, <2>1
    <3>3. children[pid].id \in Servers
      BY <3>2 DEF Kid
    <3>4. IF children[pid].heard THEN processes[children[pid].id] = pid ELSE children[pid].signal # "none"
      BY <1>18, <3>1 DEF Fit
    <3>5. after[children[pid].id] = processes[children[pid].id] \/ processes[children[pid].id] = 0
      BY <1>15, <3>3
    <3> QED BY <3>1, <3>4, <3>5
  <2>2. CASE pid \notin 1..Len(children)
    <3> PICK k \in 1..n : pid = Len(children) + k
      <4>1. pid - Len(children) \in 1..n /\ pid = Len(children) + (pid - Len(children))
        BY <1>2, <1>3, <1>10, <2>2
      <4> QED BY <4>1
    <3>1. more[pid] = added[k]
      BY <1>2, <1>3, <1>9, <1>10, <2>2
    <3>2. more[pid].heard /\ more[pid].id = started[k]
      BY <1>5, <3>1
    <3>3. after[more[pid].id] = pid
      BY <1>13, <3>2
    <3> QED BY <3>2, <3>3
  <2> QED BY <2>1, <2>2
<1>19. Fit(after, more, forced)
  BY <1>9, <1>16, <1>17, <1>18 DEF Fit
<1>20. \A pid \in DOMAIN children : pid \in DOMAIN more /\ more[pid].id = children[pid].id
  <2>1. ASSUME NEW pid \in 1..Len(children) PROVE pid \in 1..(Len(children) + n) /\ more[pid] = children[pid]
    BY <1>2, <1>3, <1>9, <2>1
  <2> QED BY <1>2, <1>10, <2>1
<1> QED BY <1>19, <1>20

\* At the end of the application nothing is heard of and no server has an
\* entry; whatever had one was told to end.
LEMMA QuitsFit ==
  ASSUME NEW s, Quits(s), Fit(s.processes, s.children, forced) PROVE Fit(processes', children', forced)
<1> PICK old, kids : old = s.children /\ kids = Signal(s.children, {s.processes[i] : i \in Servers}, "TERM")
  OBVIOUS
<1> PICK entries : entries = s.processes
  OBVIOUS
<1> PICK now, more : now = processes' /\ more = children'
  OBVIOUS
<1>1. /\ now = [i \in Servers |-> 0] /\ more = [i \in DOMAIN kids |-> [kids[i] EXCEPT !.heard = FALSE]]
      /\ kids = Signal(old, {entries[i] : i \in Servers}, "TERM")
  BY DEF Quits
<1>2. Fit(entries, old, forced)
  OBVIOUS
<1>3. old \in Seq(Kid) /\ Len(old) \in Nat /\ DOMAIN old = 1..Len(old) /\ \A pid \in DOMAIN old : old[pid] \in Kid
  BY <1>2 DEF Fit
<1>4. /\ kids \in Seq(Kid) /\ DOMAIN kids = DOMAIN old
      /\ \A pid \in DOMAIN old :
           /\ kids[pid].id = old[pid].id /\ kids[pid].heard = old[pid].heard /\ kids[pid].runs = old[pid].runs
           /\ old[pid].signal # "none" \/ (pid \in {entries[i] : i \in Servers} /\ old[pid].runs)
                => kids[pid].signal # "none"
  BY <1>1, <1>3, Signalled
<1>5. ASSUME NEW pid \in DOMAIN old
      PROVE  more[pid] \in Kid /\ more[pid].id = old[pid].id /\ ~more[pid].heard
             /\ more[pid].runs = old[pid].runs /\ more[pid].signal = kids[pid].signal
  <2>1. kids[pid] \in Kid
    BY <1>3, <1>4
  <2>2. more[pid] = [kids[pid] EXCEPT !.heard = FALSE]
    BY <1>1, <1>4
  <2>3. PICK k : k = kids[pid]
    OBVIOUS
  <2>4. /\ k = [id |-> k.id, signal |-> k.signal, runs |-> k.runs, heard |-> k.heard]
        /\ k.id \in Servers /\ k.signal \in {"none", "TERM", "KILL"} /\ k.runs \in BOOLEAN
    BY <2>1, <2>3 DEF Kid
  <2>5. more[pid] = [id |-> k.id, signal |-> k.signal, runs |-> k.runs, heard |-> FALSE]
    BY <2>2, <2>3, <2>4
  <2>6. /\ more[pid].id = k.id /\ more[pid].signal = k.signal /\ more[pid].runs = k.runs /\ more[pid].heard = FALSE
    BY <2>5
  <2>7. more[pid] \in Kid
    BY <2>4, <2>5 DEF Kid
  <2> QED BY <1>4, <2>3, <2>6, <2>7
<1>6. more \in [1..Len(old) -> Kid]
  BY <1>1, <1>3, <1>4, <1>5
<1>7. more \in Seq(Kid) /\ DOMAIN more = DOMAIN old
  BY <1>3, <1>6, KidsBySequence
<1>8. ASSUME NEW pid \in DOMAIN more, more[pid].runs, more[pid].id \notin forced PROVE more[pid].signal # "none"
  <2>1. pid \in DOMAIN old /\ old[pid].runs /\ old[pid].id \notin forced /\ old[pid] \in Kid
    BY <1>3, <1>5, <1>7, <1>8
  <2>2. old[pid].id \in Servers
    BY <2>1 DEF Kid
  <2>3. IF old[pid].heard THEN entries[old[pid].id] = pid ELSE old[pid].signal # "none"
    BY <1>2, <2>1 DEF Fit
  <2> QED BY <1>4, <1>5, <2>1, <2>2, <2>3
<1>9. Fit(now, more, forced)
  <2>1. now \in [Servers -> Nat] /\ \A id \in Servers : now[id] = 0
    BY <1>1
  <2>2. \A pid \in DOMAIN more : ~more[pid].heard
    BY <1>5, <1>7
  <2> QED BY <1>7, <1>8, <2>1, <2>2 DEF Fit
<1> QED BY <1>9

\* The stops that wait keep their processes.
LEMMA StopsGoOn ==
  ASSUME StopsFit, stops' \subseteq stops,
         \A pid \in DOMAIN children : pid \in DOMAIN children' /\ children'[pid].id = children[pid].id
  PROVE  StopsFit'
  BY DEF StopsFit

\* What follows a stop takes the entries of the servers that ended.
LEMMA StopTakes ==
  ASSUME NEW s, NEW ended, NEW list, AfterStop(s, ended, list)
  PROVE  /\ processes' = [i \in Servers |-> IF \E e \in ended : e.id = i THEN 0 ELSE s.processes[i]]
         /\ children' = s.children
<1> PICK entries, shown : /\ entries = [i \in Servers |-> IF \E e \in ended : e.id = i THEN 0 ELSE s.processes[i]]
                          /\ shown = [i \in Servers |-> IF \E e \in ended : e.id = i THEN "stopped" ELSE s.statuses[i]]
  OBVIOUS
<1>1. Becomes([s EXCEPT !.processes = entries, !.statuses = shown])
  BY DEF AfterStop
<1> QED BY <1>1 DEF Becomes

THEOREM ServerInvariant == McpSpec => []McpInv
<1>1. McpInit => McpInv
  BY DEF McpInit, McpInv, Fit, StopsFit
<1>2. McpInv /\ [McpNext]_mcpVars => McpInv'
  <2> SUFFICES ASSUME McpInv, [McpNext]_mcpVars PROVE McpInv'
    OBVIOUS
  <2>0. /\ Fit(processes, children, forced) /\ StopsFit
        /\ children \in Seq(Kid) /\ DOMAIN children = 1..Len(children) /\ Len(children) \in Nat
        /\ \A pid \in DOMAIN children : children[pid] \in Kid
        /\ processes \in [Servers -> Nat]
    BY DEF McpInv, Fit
  <2>1. ASSUME UNCHANGED <<processes, children, forced>>, stops' \subseteq stops PROVE McpInv'
    <3>1. Fit(processes', children', forced')
      BY <2>0, <2>1
    <3> QED BY <2>0, <2>1, <3>1, StopsGoOn DEF McpInv
  <2>2. ASSUME NEW id \in Servers, NEW s \in Starts(State, id), Becomes(s), UNCHANGED <<forced, stops>> PROVE McpInv'
    <3>1. processes' = s.processes /\ children' = s.children
      BY <2>2 DEF Becomes
    <3>2. /\ Fit(s.processes, s.children, forced)
          /\ \A pid \in DOMAIN children : pid \in DOMAIN s.children /\ s.children[pid].id = children[pid].id
      BY <2>0, <2>2, StartFits
    <3>3. Fit(processes', children', forced')
      BY <2>2, <3>1, <3>2
    <3> QED BY <2>0, <2>2, <3>1, <3>2, <3>3, StopsGoOn DEF McpInv
  <2>3. CASE AddServer
    <3>1. PICK c \in Config : IF SavedIt /\ c.autoStart /\ c.allowed THEN \E s \in Starts(State, c.id) : Becomes(s)
                              ELSE UNCHANGED <<processes, statuses, children>>
      BY <2>3 DEF AddServer
    <3>2. c.id \in Servers /\ UNCHANGED <<forced, stops>>
      BY <2>3 DEF AddServer, Config
    <3> QED BY <2>1, <2>2, <3>1, <3>2
  <2>4. ASSUME NEW id \in Servers, StartServer(id) PROVE McpInv'
    BY <2>2, <2>4 DEF StartServer
  <2>5. ASSUME NEW id \in Servers, NEW then, StopServer(id, then) PROVE McpInv'
    <3> PICK pid, kids : pid = processes[id] /\ kids = Signal(children, {pid}, "TERM")
      OBVIOUS
    <3>1. /\ pid # 0 /\ children' = kids /\ stops' = stops \cup {[id |-> id, pid |-> pid, then |-> then]}
          /\ UNCHANGED <<processes, forced>>
      BY <2>5 DEF StopServer
    <3>2. pid \in DOMAIN children /\ children[pid].id = id
      BY <2>0, <3>1 DEF Fit
    <3>3. kids \in Seq(Kid) /\ DOMAIN kids = DOMAIN children
          /\ \A p \in DOMAIN children :
               /\ kids[p].id = children[p].id /\ kids[p].heard = children[p].heard
               /\ kids[p].runs = children[p].runs
               /\ children[p].signal # "none" => kids[p].signal # "none"
      BY <2>0, Signalled
    <3>4. Follow(children, kids, processes, processes, forced)
      BY <2>0, <3>3 DEF Follow
    <3>5. Fit(processes, kids, forced)
      BY <2>0, <3>4, FollowsFit
    <3>6. Fit(processes', children', forced')
      BY <3>1, <3>5
    <3>7. StopsFit'
      <4>1. ASSUME NEW stop \in stops' PROVE stop.id \in Servers /\ stop.pid \in DOMAIN kids /\ kids[stop.pid].id = stop.id
        <5>1. CASE stop \in stops
          BY <2>0, <3>3, <5>1 DEF StopsFit
        <5>2. CASE stop = [id |-> id, pid |-> pid, then |-> then]
          <6>1. stop.id = id /\ stop.pid = pid
            BY <5>2
          <6> QED BY <2>5, <3>2, <3>3, <6>1
        <5> QED BY <3>1, <4>1, <5>1, <5>2
      <4> QED BY <3>1, <4>1 DEF StopsFit
    <3> QED BY <3>6, <3>7 DEF McpInv
  <2>6. ASSUME NEW id \in Servers, RemoveStopped(id) PROVE McpInv'
    BY <2>1, <2>6 DEF RemoveStopped
  <2>7. ASSUME NEW stop \in stops, StopTimesOut(stop) PROVE McpInv'
    <3>1. PICK kills \in BOOLEAN : kills <=> processes[stop.id] # 0
      OBVIOUS
    <3>2. PICK kids : kids = IF kills THEN Signal(children, {stop.pid}, "KILL") ELSE children
      OBVIOUS
    <3>3. PICK s : s = [State EXCEPT !.children = kids]
      OBVIOUS
    <3>4. PICK ended : ended = {stop}
      OBVIOUS
    <3>5. PICK fewer, now : fewer = processes' /\ now = forced'
      OBVIOUS
    <3>6. /\ AfterStop(s, ended, configs)
          /\ now = IF kills THEN forced \cup {stop.id} ELSE forced
          /\ stops' = stops \ {stop}
      BY <2>7, <3>1, <3>2, <3>3, <3>4, <3>5 DEF StopTimesOut, State
    <3>7. s.processes = processes /\ s.children = kids
      BY <3>3 DEF State
    <3>8. /\ processes' = [i \in Servers |-> IF \E e \in ended : e.id = i THEN 0 ELSE s.processes[i]]
          /\ children' = s.children
      BY <3>6, StopTakes
    <3>9. \A i : (\E e \in ended : e.id = i) <=> i = stop.id
      BY <3>4
    <3>10. children' = kids /\ fewer = [i \in Servers |-> IF i = stop.id THEN 0 ELSE processes[i]]
      BY <3>5, <3>7, <3>8, <3>9
    <3>11. kids \in Seq(Kid) /\ DOMAIN kids = DOMAIN children
          /\ \A p \in DOMAIN children :
               /\ kids[p].id = children[p].id /\ kids[p].heard = children[p].heard
               /\ kids[p].runs = children[p].runs
               /\ children[p].signal # "none" => kids[p].signal # "none"
      BY <2>0, <3>2, Signalled
    <3>12. fewer \in [Servers -> Nat] /\ forced \subseteq now
      BY <2>0, <3>6, <3>10
    <3>13. ASSUME NEW id \in Servers PROVE fewer[id] = processes[id] \/ (fewer[id] = 0 /\ id \in now)
      <4>1. fewer[id] = IF id = stop.id THEN 0 ELSE processes[id]
        BY <3>10
      <4>2. CASE id # stop.id
        BY <4>1, <4>2
      <4>3. CASE id = stop.id /\ kills
        BY <3>6, <4>1, <4>3
      <4>4. CASE id = stop.id /\ ~kills
        BY <3>1, <4>1, <4>4
      <4> QED BY <4>2, <4>3, <4>4
    <3>14. Follow(children, kids, processes, fewer, now)
      BY <3>11, <3>12, <3>13 DEF Follow
    <3>15. Fit(fewer, kids, now)
      BY <2>0, <3>12, <3>14, FollowsFit
    <3>16. Fit(processes', children', forced')
      BY <3>5, <3>10, <3>15
    <3>17. StopsFit'
      BY <2>0, <3>6, <3>10, <3>11, StopsGoOn
    <3> QED BY <3>16, <3>17 DEF McpInv
  <2>8. ASSUME NEW pid \in Pids, Exits(pid) PROVE McpInv'
    <3> PICK id, kids : id = children[pid].id /\ kids = [children EXCEPT ![pid].runs = FALSE]
      OBVIOUS
    <3> PICK waiting : waiting = {stop \in stops : stop.pid = pid}
      OBVIOUS
    <3>1. pid \in DOMAIN children /\ pid # 0 /\ children[pid] \in Kid /\ id \in Servers /\ children[pid].runs
      BY <2>0, <2>8 DEF Pids, Kid, Exits
    <3>2. PICK k : k = [children[pid] EXCEPT !.runs = FALSE]
      OBVIOUS
    <3>3. k \in Kid /\ k.id = id /\ k.heard = children[pid].heard /\ k.signal = children[pid].signal /\ k.runs = FALSE
      BY <3>1, <3>2 DEF Kid
    <3>4. kids = [children EXCEPT ![pid] = k]
      BY <3>1, <3>2
    <3>5. kids \in Seq(Kid) /\ DOMAIN kids = DOMAIN children
          /\ \A p \in DOMAIN children :
               /\ kids[p].id = children[p].id /\ kids[p].heard = children[p].heard
               /\ kids[p].runs => children[p].runs
               /\ children[p].signal # "none" => kids[p].signal # "none"
          /\ ~kids[pid].runs
      <4>1. kids \in Seq(Kid) /\ DOMAIN kids = DOMAIN children /\ kids[pid] = k
        <5>1. [children EXCEPT ![pid] = k] \in Seq(Kid)
          BY <2>0, <3>1, <3>3, ExceptSeq
        <5> QED BY <2>0, <3>1, <3>4, <5>1
      <4>2. \A p \in DOMAIN children \ {pid} : kids[p] = children[p]
        BY <3>4
      <4>3. /\ k.id = children[pid].id /\ k.heard = children[pid].heard /\ ~k.runs
            /\ children[pid].signal # "none" => k.signal # "none"
        BY <3>3
      <4> QED BY <4>1, <4>2, <4>3
    <3>6. /\ forced' = forced
          /\ IF ~children[pid].heard
             THEN children' = kids /\ UNCHANGED <<processes, stops>>
             ELSE /\ AfterStop(Forgotten([State EXCEPT !.children = kids], id), waiting, configs)
                  /\ stops' = stops \ waiting
      BY <2>8, <3>3, <3>4 DEF Exits
    <3> PICK fewer : fewer = processes'
      OBVIOUS
    <3>7. CASE ~children[pid].heard
      <4>1. Follow(children, kids, processes, processes, forced)
        BY <2>0, <3>5 DEF Follow
      <4>2. Fit(processes, kids, forced)
        BY <2>0, <4>1, FollowsFit
      <4>3. Fit(processes', children', forced')
        BY <3>6, <3>7, <4>2
      <4>4. StopsFit'
        BY <2>0, <3>5, <3>6, <3>7, StopsGoOn
      <4> QED BY <4>3, <4>4 DEF McpInv
    <3>8. CASE children[pid].heard
      <4> PICK s : s = Forgotten([State EXCEPT !.children = kids], id)
        OBVIOUS
      <4>1. s.processes = [processes EXCEPT ![id] = 0] /\ s.children = kids
        BY DEF Forgotten, State
      <4>2. /\ processes' = [i \in Servers |-> IF \E e \in waiting : e.id = i THEN 0 ELSE s.processes[i]]
            /\ children' = s.children /\ stops' \subseteq stops
        BY <3>6, <3>8, StopTakes
      <4>3. \A e \in waiting : e.id = id
        BY <2>0 DEF StopsFit
      <4>4. fewer = [i \in Servers |-> IF i = id THEN 0 ELSE processes[i]]
        BY <2>0, <3>1, <4>1, <4>2, <4>3
      <4>5. id \in forced \/ processes[id] = pid
        BY <2>0, <3>1, <3>8 DEF Fit
      <4>6. Follow(children, kids, processes, fewer, forced)
        BY <2>0, <3>5, <4>4, <4>5 DEF Follow
      <4>7. Fit(fewer, kids, forced)
        BY <2>0, <4>6, FollowsFit
      <4>8. Fit(processes', children', forced')
        BY <3>6, <4>1, <4>2, <4>7
      <4>9. StopsFit'
        BY <2>0, <3>5, <4>1, <4>2, StopsGoOn
      <4> QED BY <4>8, <4>9 DEF McpInv
    <3> QED BY <3>7, <3>8
  <2>9. CASE OpenApp
    <3>1. UNCHANGED forced
      BY <2>9 DEF OpenApp
    <3> PICK automatic : automatic = Automatic(saved)
      OBVIOUS
    <3> PICK list : list = UpToRefused(automatic)
      OBVIOUS
    <3>2. PICK s \in AllStarts(list) : IF Refuses(automatic) THEN Quits(s) ELSE Becomes(s) /\ UNCHANGED stops
      <4>1. \E s \in AllStarts(UpToRefused(automatic)) :
              IF Refuses(automatic) THEN Quits(s) ELSE app' = "open" /\ Becomes(s) /\ UNCHANGED stops
        BY <2>9 DEF OpenApp
      <4> QED BY <4>1
    <3>3. /\ Fit(s.processes, s.children, forced)
          /\ \A pid \in DOMAIN children : pid \in DOMAIN s.children /\ s.children[pid].id = children[pid].id
      BY <2>0, <3>2, AllStartsFit
    <3>4. CASE Quits(s)
      <4>1. stops' = {}
        BY <3>4 DEF Quits
      <4>2. Fit(processes', children', forced')
        BY <3>1, <3>3, <3>4, QuitsFit
      <4> QED BY <4>1, <4>2 DEF McpInv, StopsFit
    <3>5. CASE Becomes(s) /\ UNCHANGED stops
      <4>1. processes' = s.processes /\ children' = s.children
        BY <3>5 DEF Becomes
      <4>2. Fit(processes', children', forced')
        BY <3>1, <3>3, <4>1
      <4> QED BY <2>0, <3>3, <3>5, <4>1, <4>2, StopsGoOn DEF McpInv
    <3> QED BY <3>2, <3>4, <3>5
  <2>10. CASE QuitApp
    <3>1. Quits(State) /\ UNCHANGED forced /\ stops' = {}
      BY <2>10 DEF QuitApp, Quits
    <3>2. Fit(State.processes, State.children, forced)
      BY <2>0 DEF State
    <3>3. Fit(processes', children', forced')
      BY <3>1, <3>2, QuitsFit
    <3> QED BY <3>1, <3>3 DEF McpInv, StopsFit
  <2>11. CASE UNCHANGED mcpVars
    BY <2>1, <2>11 DEF mcpVars
  <2> QED BY <2>3, <2>4, <2>5, <2>6, <2>7, <2>8, <2>9, <2>10, <2>11 DEF McpNext
<1> QED BY <1>1, <1>2, PTL DEF McpSpec

\* While the application is open, a process that runs and was not told to end
\* is the one its server has an entry for, unless a process of that server had
\* to be killed, for any number of servers and processes (mcp-process-manager.ts,
\* startServer and stopServer).
THEOREM ServersStayTracked == McpSpec => []ServersAreTracked
<1>1. McpInv => ServersAreTracked
  <2> SUFFICES ASSUME McpInv, NEW pid \in Pids,
                      children[pid].runs, children[pid].signal = "none", children[pid].id \notin forced
               PROVE  processes[children[pid].id] = pid
    BY DEF ServersAreTracked
  <2>1. Fit(processes, children, forced) /\ pid \in DOMAIN children
    BY DEF McpInv, Fit, Pids
  <2> QED BY <2>1 DEF Fit
<1> QED BY <1>1, ServerInvariant, PTL
=============================================================================
