SPECIFICATION Spec
CONSTANTS
  n1 = n1
  n2 = n2
  n3 = n3
  None = None
  Nodes = {n1, n2}
  Parents <- Chain
  Retries <- RetryFirst
  Timed = {n1}
  ContinueOnFail = {}
  ErrorLimit = 1
  MaxLives = 2
  MayCrash = TRUE
  MayFail = TRUE
  UsersStop = TRUE
INVARIANTS TypeOK AttemptsBounded
PROPERTIES LaunchedAfterParents
CHECK_DEADLOCK FALSE
