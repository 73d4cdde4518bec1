\* Nine shapes of plan over three tracks, every selection, two mappers at a time, cancellation.
SPECIFICATION FairSpec
CONSTANTS
  a = a
  b = b
  c = c
  ghost = ghost
  Track = {a, b, c}
  OtherId = {ghost}
  Repeats = {}
  Plans <- Shapes
  Selections <- AllSelections
  MaxConcurrency = 2
  CanCancel = TRUE
INVARIANTS BookkeepingIsExact SleeperHasAWaker FailureReachesDescendants ReturnsOnlyWhenSettled
PROPERTIES ImplementsTrackDag Terminates
