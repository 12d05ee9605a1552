SPECIFICATION Spec
CONSTANTS
  first = first
  retry = retry
  other = other
  None = None
  Attempts = {first, retry}
  Body <- Identical
  MayCrash = FALSE
  MayFail = FALSE
  UsersAct = FALSE
INVARIANTS AnsweredRunExists
CHECK_DEADLOCK FALSE
