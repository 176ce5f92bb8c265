SPECIFICATION FairPipeSpec
CONSTANTS
  N = 4
  KeyOf <- KeysOfRows
  Keys = {"k1", "k2"}
  AWorkers = {a1, a2}
  BWorkers = {b1, b2}
  CWorkers = {w1}
  QueueSize = 1
  FetchInflight = 1
  WriteInflight = 1
  FetchRetries = 1
  WriteRetries = 1
  Deadline = TRUE
INVARIANTS PipeTypeOK KeyAppliedOnce KeyHeldWhileInFlight NormalEndRecordsAll
PROPERTIES PromiseKept RunReturns
CHECK_DEADLOCK FALSE
