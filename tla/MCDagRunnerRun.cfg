SPECIFICATION FairSpec
CONSTANTS
  n1 = n1
  n2 = n2
  n3 = n3
  None = None
  Nodes = {n1, n2, n3}
  Parents <- Join
  Retries <- RetryFirst
  Timed = {n2}
  ContinueOnFail = {n3}
  ErrorLimit = 2
  MaxLives = 1
  MayCrash = FALSE
  MayFail = TRUE
  UsersStop = TRUE
INVARIANTS RecordIsTrue
PROPERTIES ParentsSettleFirst ImplementsWorkflow RunEnds
CHECK_DEADLOCK FALSE
