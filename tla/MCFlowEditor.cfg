SPECIFICATION Spec
CONSTANTS
  None = None
  box = box
  MaxNodes = 4
  Boundaries = {box}
  Details = {"d1", "d2"}
  Sessions <- AnySession
  Imports <- Exported
  MaxRevision = 3
INVARIANTS TypeOK GraphIsSound ExcludedNodesAreExplained CleanMeansSaved RunningIsFollowed ShownInProgressIsExecuted
PROPERTIES StartRunsWhatIsShown RunningEnds
CHECK_DEADLOCK FALSE
