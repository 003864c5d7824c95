\* A package and its successor, one failed query.
CONSTANTS
  a = a
  b = b
  Wps <- ChainWps
  Deps <- ChainDeps
  Oracled <- ChainOracled
  Planners = {"decomposition", "completion"}
  Completer = "completion"
  Sweepers = {"s1"}
  MaxAttempts = 1
  VerifyEnabled = TRUE
  AttemptBound = 1
  MaxFaults = 1
SPECIFICATION FairSpec
PROPERTIES
  CompletionUnblocks
CHECK_DEADLOCK FALSE
