\* A post, three connections and two answers with a failure; a run with every
\* kind of tool; two projects of one name with two calls, one request beside
\* them and a fault; two windows with a pool of two connections, room for two
\* sessions and a fault; one MCP server with three processes.
CONSTANTS
  Turns = {t1}
  MaxSockets = 3
  MaxMessages = 2
  MaxBreaks = 1
  Agents = {develop_code}
  Writes = {deploy_project}
  Plain = {switch_project}
  Ask = request_info
  MaxIterations = 2
  MaxRevises = 1
  MaxReasks = 1
  MaxBlocks = 2
  Projects = {p1, p2}
  Titles = {"a"}
  SlugOf <- MCSlugOf
  MaxCalls = 2
  Requests = {h1}
  Gateway = gateway
  ProjectFaults = {"query", "exit", "timeout"}
  MaxProjectFaults = 1
  Windows = {w1, w2}
  PoolSize = 2
  MaxSessions = 2
  MaxTokens = 3
  MaxUserFaults = 1
  Servers = {server}
  MaxProcesses = 3
  MaxSaveFaults = 1
SPECIFICATION MCSpec
INVARIANTS
  WritesApproved
  HandedReviewed
  AnswersAreOwn
  TokenRotatesOnce
  ServersAreTracked
PROPERTIES
  OpenIsKept
  AbandonedIsReaped
CHECK_DEADLOCK FALSE
