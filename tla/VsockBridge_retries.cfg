\* Three attempts, two requests; timeouts, refusals and crashes at any point.
SPECIFICATION FairSpec
CONSTANTS
  MaxAttempts = 3
  Requests = 2
INVARIANTS SpeaksWithTheAgent NoConnectionIsLeft
PROPERTY BridgeMakesProgress
