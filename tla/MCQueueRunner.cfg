SPECIFICATION QueueSpec
CONSTANTS
  t1 = t1
  t2 = t2
  t3 = t3
  s1 = s1
  s2 = s2
  Threads = {t1, t2, t3}
  Servers = {s1, s2}
  ServerOf <- MCServerOf
  Sweeps = {x1}
  Foreign = {f1}
  NoThread = NoThread
  MaxRetries = 1
  LockTimeout = TRUE
  IdleTimeout = TRUE
  PsFails = FALSE
  Leftovers = FALSE
INVARIANTS QueueTypeOK LocksMatchCalls ServedAlone RetryBudget
PROPERTY ServesSerially
CHECK_DEADLOCK FALSE
