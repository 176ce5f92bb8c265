SPECIFICATION SweepSpec
CONSTANTS
  Enabled = {"full_sweep", "cluster"}
  Plans <- MCPlans
  OnPoolThread = TRUE
  MaxResumes = 1
  MaxFaults = 1
  Results = {"succeeded", "partial"}
  Windows = {}
INVARIANT RunningHasRunner
CHECK_DEADLOCK FALSE
