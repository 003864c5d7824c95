\* Flapping signals and an exception; two runs and a stage; four requests.
CONSTANTS
  f = f
  high = high
  low = low
  planner = planner
  decider = decider
  d1 = d1
  d2 = d2
  Flows = {f}
  Wps = {high, low}
  FlowOf <- OneFlow
  HighRisk = {high}
  Planner = planner
  Decider = decider
  Drains = {d1, d2}
  Window = 2
  MaxChanges = 4
  MaxFaults = 1
  r1 = r1
  r2 = r2
  s1 = s1
  u1 = u1
  u2 = u2
  u3 = u3
  u4 = u4
  w1 = w1
  w2 = w2
  Runs = {r1, r2}
  Stages = {s1}
  WorkflowOf <- MCWorkflowOf
  PerWorkflow = 3
  Daily = 4
  MaxCost = 2
  FailureThreshold = 3
  Cooldown = 2
  MaxDays = 1
  Users = {u1, u2, u3, u4}
  Keys = {tester, builder}
  GlobalLimit = 2
  PerKeyLimit = 1
SPECIFICATION MCSpec
INVARIANTS
  SlotsAreUsed
  OvershootBounded
PROPERTIES
  ModeRecovers
  HeldIsDispatched
CHECK_DEADLOCK FALSE
