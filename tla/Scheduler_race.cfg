\* The two locks of the caller: a track whose dependencies are done is blocked.
SPECIFICATION Spec
CONSTANTS
  a = a
  b = b
  c = c
  ghost = ghost
  Track = {a, b, c}
  OtherId = {ghost}
  Repeats = {}
  Plans <- Chain
  Selections <- NoSelection
  MaxConcurrency = 2
  CanCancel = FALSE
INVARIANT BlockedHasUnmetDep
