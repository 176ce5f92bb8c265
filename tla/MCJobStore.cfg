SPECIFICATION FairJobSpec
CONSTANTS
  Jobs = {j1, j2}
  Refs = {r1, r2}
  Callers = {c1, c2}
  Workers = {w1}
  NoRef = NoRef
  MaxEntries = 1
  TTL = 0
  Interval = 1
  MaxTime = 2
INVARIANTS JobTypeOK LiveJobTracked
PROPERTIES RetentionHonoured OutcomeFinal JobsAsPromised EveryJobFinishes
CHECK_DEADLOCK FALSE
