CONSTANTS
  Clients = {c1, c2}
  Indices = {0, 1}
  ServerRequests = 2
  ClientRequests = 2
  MaxRuns = 1
SPECIFICATION FairSpec
CHECK_DEADLOCK FALSE
INVARIANTS
  HandlerHasMemory
  CountedOnce
  AnswersRequest
  CleanupComplete
PROPERTY
  AloneAnswered
