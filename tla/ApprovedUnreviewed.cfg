\* A question about one version is answered after the next version was stored.
CONSTANTS
  MaxGates = 1
  MaxReesc = 0
  MaxFaults = 0
  s1 = s1
  s2 = s2
  k1 = k1
  k2 = k2
  w1 = w1
  w2 = w2
  Stories = {s1, s2}
  Criteria = {k1, k2}
  Incoming <- MCIncoming
  Seeds = {{k1}}
  MaxEmitted = 1
  MaxSeeds = 1
  MaxOracleFaults = 0
  Wps = {w1, w2}
  Classifications <- MCClassifications
  MaxVersions = 2
  MaxStored = 0
  MaxRiskFaults = 0
SPECIFICATION MCSpec
INVARIANT
  ApprovedIsReviewed
CHECK_DEADLOCK FALSE
