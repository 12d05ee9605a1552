SPECIFICATION Spec
CONSTANTS
  n1 = n1
  n2 = n2
  n3 = n3
  None = None
  Nodes = {n1}
  Parents <- Single
  Retries <- NoRetries
  Timed = {}
  ContinueOnFail = {}
  ErrorLimit = 5
  MaxLives = 1
  MayCrash = FALSE
  MayFail = FALSE
  UsersStop = TRUE
PROPERTIES CancelledChildrenStayStopped
CHECK_DEADLOCK FALSE
