\* A message sent twice to two consumers, with crashes, failed commands and a
\* redrive; a session that is aborted, released and reopened, with a late
\* answer and every fault; two requests to an agent of each kind, with a fault;
\* two audits; two sessions of the Watcher with room for one watcher; and two
\* sessions with two events and a fault.
CONSTANTS
  m1 = m1
  c1 = c1
  c2 = c2
  o1 = o1
  Msgs = {m1}
  Broken = {}
  Invalid = {}
  Keyless = {}
  Consumers = {c1, c2}
  Operators = {o1}
  IdemEnabled = TRUE
  MaxDeliveries = 2
  BatchCount = 2
  ClaimCount = 1
  RedriveCount = 2
  Copies = 2
  StreamBound = 3
  Faults = {"crash", "stop", "ack", "dlq", "claim"}
  MaxFaults = 2
  s1 = s1
  r1 = r1
  a1 = a1
  i1 = i1
  i2 = i2
  i3 = i3
  Sessions = {s1}
  Runs = {r1}
  Aborters = {a1}
  Ids = {i1, i2, i3}
  MaxActive = 3
  MaxCalls = 2
  MaxAborts = 1
  MaxTimeouts = 1
  RpcFaults = {"late", "crash", "start", "call", "work", "end"}
  MaxRpcFaults = 1
  s2 = s2
  p1 = p1
  p2 = p2
  out = out
  f1 = f1
  Requests = {1, 2}
  Paths = {p1, p2}
  Outside = {out}
  Plans <- MCPlans
  MaxTries = 2
  MaxWorkFaults = 1
  MaxFiles = 2
  MaxAudits = 2
  Watched = {s1, s2}
  Files = {f1}
  MaxWatchers = 1
  MaxOpens = 1
  MaxStarts = 2
  MaxEvents = 2
  MaxWatchFaults = 1
  Flows = {s1, s2}
  MaxHeard = 2
  ReadCount = 2
  MaxPublished = 2
  MaxHearingFaults = 1
SPECIFICATION MCSpec
INVARIANTS
  HandledOnce
  OneConsumerPerSession
  SuccessRan
  AcceptedWasAudited
  LastEventIsTold
  ReadIsSettled
SYMMETRY Objects
CHECK_DEADLOCK FALSE
