SPECIFICATION Spec
CONSTANTS
  first = first
  retry = retry
  other = other
  None = None
  Attempts = {first, retry, other}
  Body <- OneReused
  MayCrash = TRUE
  MayFail = TRUE
  UsersAct = TRUE
SYMMETRY Alike
INVARIANTS TypeOK EnqueuedIsReal
PROPERTIES ImplementsIdempotentStart
CHECK_DEADLOCK FALSE
