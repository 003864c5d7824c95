\* A package and its successor, a retry by a person, no fault (the theorems hold with them).
CONSTANTS
  a = a
  b = b
  Wps <- ChainWps
  Deps <- ChainDeps
  Oracled <- ChainOracled
  Planners = {"decomposition", "completion"}
  Completer = "completion"
  Sweepers = {"s1"}
  MaxAttempts = 2
  VerifyEnabled = TRUE
  AttemptBound = 2
  MaxFaults = 0
SPECIFICATION Spec
INVARIANTS
  LeaseMatchesLog
  AttemptsNeverReused
PROPERTY
  ImplementsLifecycle
CHECK_DEADLOCK FALSE
