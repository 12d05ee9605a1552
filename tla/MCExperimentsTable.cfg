SPECIFICATION Spec
CONSTANTS
  None = None
  allTasks = allTasks
  myTasks = myTasks
  t1 = t1
  t2 = t2
  t3 = t3
  Task = {t1, t2, t3}
  Filter = {allTasks, myTasks}
  Matches <- Selects
  PageSize = 1
  Scrolls = {1, 2, 3, 4, 5, 6, 7, 8, 9}
  Sessions <- AnySession
INVARIANTS TypeOK RefreshLockIsOwned SpinnersAreOwed RowsAreOfTheQuery NextPageContinues
PROPERTIES TableCatchesUp SpinnersStop
CHECK_DEADLOCK FALSE
