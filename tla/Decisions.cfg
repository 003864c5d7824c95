\* Two gates with one re-escalation; two stories whose drafts, seeds and approvals cross; two versions of the risks.
CONSTANTS
  MaxGates = 2
  MaxReesc = 1
  MaxFaults = 1
  s1 = s1
  s2 = s2
  k1 = k1
  k2 = k2
  w1 = w1
  w2 = w2
  Stories = {s1, s2}
  Criteria = {k1, k2}
  Incoming <- MCIncoming
  Seeds = {{k1}}
  MaxEmitted = 2
  MaxSeeds = 1
  MaxOracleFaults = 1
  Wps = {w1, w2}
  Classifications <- MCClassifications
  MaxVersions = 2
  MaxStored = 1
  MaxRiskFaults = 1
SPECIFICATION MCSpec
INVARIANTS
  OneFate
  LatestIsApplied
PROPERTIES
  QuestionEnds
  
CHECK_DEADLOCK FALSE
