\* Valid, keyless and invalid messages; consumers stop, crash and restart,
\* redrives are cut short.
CONSTANTS
  m1 = m1
  m2 = m2
  bad = bad
  odd = odd
  c1 = c1
  c2 = c2
  o1 = o1
  Msgs = {m1, bad, odd}
  Broken = {}
  Invalid = {bad}
  Keyless = {odd}
  Consumers = {c1, c2}
  Operators = {o1}
  IdemEnabled = TRUE
  MaxDeliveries = 1
  BatchCount = 2
  ClaimCount = 1
  RedriveCount = 1
  Copies = 1
  StreamBound = 2
  Faults = {"crash", "stop", "redrive"}
  MaxFaults = 1
SPECIFICATION FairSpec
INVARIANTS
  NeverForgotten
PROPERTY
  EventuallySettled
CHECK_DEADLOCK FALSE
