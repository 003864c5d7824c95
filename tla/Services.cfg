\* One session that is opened again while its old runs wind up, with a fault or a
\* question in one run (SessionBound); a process with two requests and an outage; three
\* instances that migrate, with two faults; the environments of a Manager.
CONSTANTS
  MaxIncs = 2
  MaxRuns = 2
  MaxAsks = 1
  Faults = {"append", "group", "crash"}
  MaxFaults = 1
  Requests = {r1}
  MaxOutages = 1
  Instances <- MCInstances
  ServiceOf <- MCServiceOf
  ScriptsOf <- MCScriptsOf
  Statements <- MCStatements
  Legacy = {1, 2}
  MaxMigrationAttempts = 2
  MaxMigrationFaults = 2
  Environments <- MCEnvironments
SPECIFICATION MCSpec
INVARIANTS
  EndedIsClean
  ServesMigrated
  NoFlagIsSilent
PROPERTIES
  OpenIsWhole
  AbortEndsRuns
  DeafIsUnready
  ShutdownEnds
CHECK_DEADLOCK FALSE
