SPECIFICATION McpSpec
CONSTANTS
  s1 = s1
  Jobs = {j1, j2}
  Refs = {r1, r2}
  Callers = {c1}
  Workers = {w1, w2}
  NoRef = NoRef
  MaxEntries = 2
  TTL = 0
  Interval = 1
  MaxTime = 1
  LabelOf <- OneLabel
  GivenIds = {}
  OtherIds = {}
  Threads = {r1, r2}
  Servers = {s1}
  ServerOf <- OneServer
  Sweeps = {}
  Foreign = {f1}
  NoThread = NoThread
  MaxRetries = 1
  LockTimeout = TRUE
  IdleTimeout = TRUE
  PsFails = FALSE
  Leftovers = FALSE
INVARIANT RunningMeansAdmitted
CHECK_DEADLOCK FALSE
