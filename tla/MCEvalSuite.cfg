SPECIFICATION FairEvalSpec
CONSTANTS
  s1 = s1
  s2 = s2
  Suites <- MCSuites
  Resumes <- MCResumes
  Diagnosed <- MCDiagnosed
  Steps = {1, 2, 3}
  Required = {1}
  HealthStep = 3
  AutoResume = TRUE
  MaxAttempts = 2
  Free = free
  Other = other
INVARIANTS SuiteTypeOK StepsHoldLock OkMeansDone EveryExecutionRecorded
PROPERTIES CompletedNotRerun LockReturned
CHECK_DEADLOCK FALSE
