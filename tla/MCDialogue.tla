------------------------------ MODULE MCDialogue ------------------------------
(***************************************************************************)
(* The Orchestrator, and the run of the Claude loop in the Manager that it *)
(* talks to, explored one at a time: the session of a user                 *)
(* (OrchestratorSession), the run that serves it (GatedRun), the projects  *)
(* of the user (Projects), the tokens that keep the user logged in         *)
(* (UserSessions) and the MCP servers of the desktop application           *)
(* (McpProcesses).  focus says whose turn it is.                           *)
(***************************************************************************)
EXTENDS OrchestratorSession, GatedRun, Projects, UserSessions, McpProcesses

\* A project may be named by its title or by its slug, which is the same here.
MCSlugOf == [title \in Titles |-> title]

VARIABLE focus

MCVars == <<focus, sessionVars, vars, projectVars, userVars, mcpVars>>
MCInit ==
  /\ focus \in {"session", "run", "projects", "user", "mcp"}
  /\ SessionInit /\ Init /\ ProjectsInit /\ UserInit /\ McpInit
  /\ focus # "session" => ~database
  /\ focus # "run" => auto = {}
SessionStep ==
  focus = "session" /\ SessionNext /\ UNCHANGED <<focus, vars, projectVars, userVars, mcpVars>>
RunStep ==
  focus = "run" /\ Next /\ UNCHANGED <<focus, sessionVars, projectVars, userVars, mcpVars>>
\* ProjectsBound: two calls meet while people's requests and clones rest.
ProjectsBound ==
  (\A c \in Calls : rpcCalls[c].stage # "unmade") =>
    clones = {} /\ \A h \in Requests : jobs[h].op \in {"idle", "answered"}
ProjectsStep ==
  focus = "projects" /\ ProjectsNext /\ ProjectsBound' /\ UNCHANGED <<focus, sessionVars, vars, userVars, mcpVars>>
UserStep ==
  focus = "user" /\ UserNext /\ UNCHANGED <<focus, sessionVars, vars, projectVars, mcpVars>>
McpStep ==
  focus = "mcp" /\ McpNext /\ UNCHANGED <<focus, sessionVars, vars, projectVars, userVars>>
MCNext == SessionStep \/ RunStep \/ ProjectsStep \/ UserStep \/ McpStep

\* SessionFairness, for the one in focus.
On(component, A) == focus = component /\ A
MCFairness ==
  /\ WF_sessionVars(On("session", GraceEnds)) /\ WF_sessionVars(On("session", Loop))
  /\ \A s \in Sockets : WF_sessionVars(On("session", Connected(s)))
MCSpec == MCInit /\ [][MCNext]_MCVars /\ MCFairness
=============================================================================
