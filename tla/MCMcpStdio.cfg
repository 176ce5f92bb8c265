SPECIFICATION FairServedSpec
CONSTANTS
  Callers = {c1, c2}
  Main = main
  IdCount = 4
  FirstId = 3
  MaxCalls = 3
  MaxSessions = 2
  InRoom = 2
INVARIANTS StdioTypeOK OwnAnswer PendingExact
PROPERTIES RequestsAsPromised AnswersArrive
CHECK_DEADLOCK FALSE
