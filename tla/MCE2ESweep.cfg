SPECIFICATION FairSweepSpec
CONSTANTS
  Enabled = {"full_sweep", "cluster"}
  Plans <- MCPlans
  OnPoolThread = FALSE
  MaxResumes = 2
  MaxFaults = 2
  Results = {"succeeded", "partial"}
  Windows = {}
INVARIANTS SweepTypeOK ResumeOffered
PROPERTIES EndedUnitsNotRerun SweepKeepsPromise SupervisedRunCompletes
CHECK_DEADLOCK FALSE
