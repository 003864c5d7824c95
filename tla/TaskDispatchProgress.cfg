\* A package and its successor, one fault, a retry by a person.
CONSTANTS
  a = a
  b = b
  Wps <- ChainWps
  Deps <- ChainDeps
  Oracled <- ChainOracled
  Planners = {"decomposition", "completion"}
  Completer = "completion"
  Sweepers = {"s1"}
  MaxAttempts = 1
  VerifyEnabled = FALSE
  AttemptBound = 1
  MaxFaults = 1
SPECIFICATION FairSpec
PROPERTIES
  DispatchResolves
  UnblocksWithoutFault
CHECK_DEADLOCK FALSE
