\* Every graph of three packages; three packages decomposed again and again; a
\* developer's and an auditor's package with one fault; two deployments, a push and a merge.
CONSTANTS
  Ids = {1, 2, 3}
  a = a
  b = b
  c = c
  c1 = c1
  Packages = {a, b, c}
  Incoming <- MCIncoming
  Consumers = {c1}
  MaxEmitted = 3
  dev = dev
  audit = audit
  k1 = k1
  Wps = {dev, audit}
  RoleOf <- MCRoleOf
  Enabled = {"conformance", "security"}
  Risky = {}
  Workers = {k1}
  MaxAttempts = 2
  MaxFaults = 1
  main = main
  other = other
  d1 = d1
  d2 = d2
  p1 = p1
  m1 = m1
  Deploys = {d1, d2}
  Commits = {p1}
  Merges = {m1}
  Branches = {main, other}
  Main = main
  MaxApiFaults = 1
SPECIFICATION MCSpec
INVARIANTS
  PassedIsProven
  DoneIsJudged
  SearchIsRight
  MergeIsRight
  PushesStay
CHECK_DEADLOCK FALSE
