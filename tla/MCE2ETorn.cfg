SPECIFICATION SweepSpec
CONSTANTS
  Enabled = {"tier1", "full_sweep"}
  Plans <- MCPlans
  OnPoolThread = FALSE
  MaxResumes = 1
  MaxFaults = 1
  Results = {"succeeded", "partial"}
  Windows = {"write", "exit"}
INVARIANT VerdictCoversPlan
CHECK_DEADLOCK FALSE
