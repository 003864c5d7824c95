----------------------------- MODULE UserSessions -----------------------------
(***************************************************************************)
(* How a user of the Orchestrator stays logged in.  The server keeps a row *)
(* for each refresh token and replaces it at every use; the application    *)
(* keeps one pair of tokens, which every window and every restore of it    *)
(* shares.  A restore runs at each start of the user interface and each    *)
(* change of the server's address, so two of them may overlap.  The        *)
(* queries share the connections of one pool, for which there is no time   *)
(* limit.                                                                  *)
(*                                                                         *)
(* One account.  Passwords, the contents of tokens and rate limits are     *)
(* data.                                                                   *)
(***************************************************************************)
EXTENDS Naturals, Sequences, FiniteSets

CONSTANTS
  Windows,       \* what sends a request and waits for its answer
  PoolSize,      \* connections of the pool
  MaxSessions,   \* MAX_SESSIONS_PER_USER
  MaxTokens,     \* bound on rows
  MaxUserFaults  \* answers lost, answers other than they should be, exits

VARIABLES
  account,     \* whether there is a user with that address
  tokens,      \* the rows, in the order of their creation: state, token they replace
  kept,       \* what the application keeps: access token and refresh token
  acts,        \* the request of each window: where it is, token presented, token made
  userFaults

userVars == <<account, tokens, kept, acts, userFaults>>

NoToken == 0
Empty == [access |-> "none", refresh |-> NoToken]
Quiet == [at |-> "quiet", old |-> NoToken, new |-> NoToken]

UserInit ==
  /\ account = FALSE
  /\ tokens = << >>
  /\ kept = Empty
  /\ acts = [w \in Windows |-> Quiet]
  /\ userFaults = 0

UserFault == userFaults < MaxUserFaults /\ userFaults' = userFaults + 1
Valid == {t \in DOMAIN tokens : tokens[t].state = "valid"}
Begins(w, at, old) == acts[w] = Quiet /\ acts' = [acts EXCEPT ![w] = [Quiet EXCEPT !.at = at, !.old = old]]
Advances(w, at) == acts' = [acts EXCEPT ![w].at = at]

\* A transaction keeps its connection; any other query takes one for its time.
Holding == {w \in Windows : acts[w].at \in {"begun", "found", "write"}}
CanQuery == Cardinality(Holding) < PoolSize
\* The row a transaction has read for update.
RowLocked(t) == \E w \in Windows : acts[w].at \in {"found", "write"} /\ acts[w].old = t
InsertToken(from) == tokens' = Append(tokens, [state |-> "valid", from |-> from])
Revoke(ts) == tokens' = [t \in DOMAIN tokens |->
                IF t \in ts /\ tokens[t].state = "valid" THEN [tokens[t] EXCEPT !.state = "revoked"]
                ELSE tokens[t]]

---------------------------------------------------------------------------
(* Register and log in *)

AskRegister(w) == Begins(w, "register", NoToken) /\ UNCHANGED <<account, tokens, kept, userFaults>>
AskLogin(w) == Begins(w, "login", NoToken) /\ UNCHANGED <<account, tokens, kept, userFaults>>

\* The address is looked up, and the password hashed in between; the unique
\* index refuses the second of two.
LookUp(w) ==
  /\ acts[w].at = "register" /\ CanQuery
  /\ Advances(w, IF account THEN "error" ELSE "insert user")
  /\ UNCHANGED <<account, tokens, kept, userFaults>>
CreateUser(w) ==
  /\ acts[w].at = "insert user" /\ CanQuery
  /\ Advances(w, IF account THEN "error" ELSE "create")
  /\ account' = TRUE
  /\ UNCHANGED <<tokens, kept, userFaults>>

\* Count, revoke the oldest if there are too many, create: three queries.
FindByEmail(w) ==
  /\ acts[w].at = "login" /\ CanQuery
  /\ Advances(w, IF account THEN "count" ELSE "error")
  /\ UNCHANGED <<account, tokens, kept, userFaults>>
CountByUser(w) ==
  /\ acts[w].at = "count" /\ CanQuery
  /\ Advances(w, IF Cardinality(Valid) >= MaxSessions THEN "evict" ELSE "create")
  /\ UNCHANGED <<account, tokens, kept, userFaults>>
RevokeOldest(w) ==
  /\ acts[w].at = "evict" /\ CanQuery
  /\ LET oldest == {t \in Valid : \A u \in Valid : t <= u} IN
       /\ \A t \in oldest : ~RowLocked(t)
       /\ Revoke(oldest)
  /\ Advances(w, "create")
  /\ UNCHANGED <<account, kept, userFaults>>
CreateToken(w) ==
  /\ acts[w].at = "create" /\ CanQuery /\ Len(tokens) < MaxTokens
  /\ InsertToken(NoToken)
  /\ acts' = [acts EXCEPT ![w].at = "answer", ![w].new = Len(tokens) + 1]
  /\ UNCHANGED <<account, kept, userFaults>>

---------------------------------------------------------------------------
(* Refresh: one transaction, that reads the user through another connection   *)

ConnectRefresh(w) ==
  /\ acts[w].at = "refresh" /\ CanQuery
  /\ Advances(w, "begun")
  /\ UNCHANGED <<account, tokens, kept, userFaults>>

\* SELECT ... FOR UPDATE waits for a transaction that has the row.
FindValidUnlocked(w) ==  \* mutant
  /\ acts[w].at = "begun"
  /\ Advances(w, IF acts[w].old \in Valid THEN "found" ELSE "refused")
  /\ UNCHANGED <<account, tokens, kept, userFaults>>
FindValid(w) ==
  /\ acts[w].at = "begun" /\ ~RowLocked(acts[w].old)
  /\ Advances(w, IF acts[w].old \in Valid THEN "found" ELSE "refused")
  /\ UNCHANGED <<account, tokens, kept, userFaults>>
FindUser(w) ==
  /\ acts[w].at = "found" /\ CanQuery
  /\ Advances(w, "write")
  /\ UNCHANGED <<account, tokens, kept, userFaults>>
Rotate(w) ==
  /\ acts[w].at = "write" /\ Len(tokens) < MaxTokens
  /\ tokens' = Append([tokens EXCEPT ![acts[w].old].state = "revoked"],
                      [state |-> "valid", from |-> acts[w].old])
  /\ acts' = [acts EXCEPT ![w].at = "answer", ![w].new = Len(tokens) + 1]
  /\ UNCHANGED <<account, kept, userFaults>>

---------------------------------------------------------------------------
(* Logout, expiry, exit *)

\* The route, of one token or of all; the application does not call it.
LogOut ==
  /\ CanQuery
  /\ \E ts \in {{t} : t \in Valid} \cup {Valid} :
       ts # {} /\ (\A t \in ts : ~RowLocked(t)) /\ Revoke(ts)
  /\ UNCHANGED <<account, kept, acts, userFaults>>
TokenExpires(t) ==
  /\ tokens[t].state = "valid" /\ ~RowLocked(t)
  /\ tokens' = [tokens EXCEPT ![t].state = "expired"]
  /\ UNCHANGED <<account, kept, acts, userFaults>>
AccessExpires ==
  /\ kept.access = "good" /\ kept' = [kept EXCEPT !.access = "old"]
  /\ UNCHANGED <<account, tokens, acts, userFaults>>

\* The server exits: transactions are rolled back, requests fail like a lost
\* connection, and the next ones go to its successor.
ServerExits ==
  /\ UserFault
  /\ acts' = [w \in Windows |-> Quiet]
  /\ UNCHANGED <<account, tokens, kept>>

---------------------------------------------------------------------------
(* The application *)

\* Only an access token that is too old has a sequel.
Restore(w) ==
  /\ kept.access = "old"
  /\ Begins(w, "me", NoToken)
  /\ UNCHANGED <<account, tokens, kept, userFaults>>

\* 401: the refresh token is read now; without one the rest is cleared.  Any
\* other status clears the tokens.
MeAnswered(w) ==
  /\ acts[w].at = "me"
  /\ \/ /\ kept.refresh # NoToken
        /\ acts' = [acts EXCEPT ![w].at = "refresh", ![w].old = kept.refresh]
        /\ UNCHANGED <<kept, userFaults>>
     \/ /\ kept.refresh = NoToken
        /\ Advances(w, "quiet") /\ kept' = Empty /\ UNCHANGED userFaults
     \/ UserFault /\ Advances(w, "quiet") /\ kept' = Empty
  /\ UNCHANGED <<account, tokens>>

\* The answer is written to the store, or gets lost, which leaves it alone.  A
\* restore asks for the user once more and clears the tokens if that is refused.
TakeAnswer(w) ==
  /\ acts[w].at \in {"answer", "refused", "error"}
  /\ \/ /\ kept' = CASE acts[w].at = "answer" -> [access |-> "good", refresh |-> acts[w].new]
                      [] acts[w].at = "refused" -> Empty
                      [] OTHER -> kept
        /\ UNCHANGED userFaults
     \/ UserFault /\ UNCHANGED kept
     \/ acts[w].at = "answer" /\ acts[w].old # NoToken /\ UserFault /\ kept' = Empty
  /\ acts' = [acts EXCEPT ![w] = Quiet]
  /\ UNCHANGED <<account, tokens>>

\* Nothing is revoked at the server.
ForgetTokens ==
  /\ kept # Empty /\ kept' = Empty
  /\ UNCHANGED <<account, tokens, acts, userFaults>>

UserNext ==
  \/ LogOut \/ AccessExpires \/ ServerExits \/ ForgetTokens
  \/ \E t \in DOMAIN tokens : TokenExpires(t)
  \/ \E w \in Windows :
       \/ AskRegister(w) \/ LookUp(w) \/ CreateUser(w)
       \/ AskLogin(w) \/ FindByEmail(w) \/ CountByUser(w) \/ RevokeOldest(w) \/ CreateToken(w)
       \/ ConnectRefresh(w) \/ FindValid(w) \/ FindUser(w) \/ Rotate(w)
       \/ Restore(w) \/ MeAnswered(w) \/ TakeAnswer(w)
UserSpec == UserInit /\ [][UserNext]_userVars

---------------------------------------------------------------------------
(* Properties *)

UserTypeOK ==
  /\ Len(tokens) <= MaxTokens
  /\ \A t \in DOMAIN tokens : tokens[t].from \in 0..t - 1
  /\ kept.refresh \in 0..Len(tokens)
  /\ Cardinality(Holding) <= PoolSize

\* A refresh token is replaced at most once, however many windows present it.
TokenRotatesOnce ==
  \A t, u \in DOMAIN tokens :
    tokens[t].from = tokens[u].from /\ tokens[t].from # NoToken => t = u

\* Unless an answer is lost, the token that the application keeps has not been
\* used up, or the answer with its successor is on its way.
KeptIsUnused ==
  userFaults = 0 /\ kept.refresh # NoToken =>
    \A t \in DOMAIN tokens : tokens[t].from = kept.refresh =>
      \E w \in Windows : acts[w].new = t

\* Some transaction can always go on.  It does not hold: as many refreshes as
\* the pool has connections, each waiting for one more, wait for each other.
PoolIsNeverStuck ==
  Cardinality(Holding) = PoolSize => \E w \in Holding : acts[w].at # "found"
=============================================================================
