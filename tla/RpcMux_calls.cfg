\* Three calls, with ids of their own or two of them under one id; contexts may end, the
\* agent may go.
SPECIFICATION FairMuxSpec
CONSTANTS
  c1 = c1
  c2 = c2
  c3 = c3
  Call = {c1, c2, c3}
  None = None
  ReqId = {1, 2, 3}
  Assignments <- OwnOrShared
  Impatient = {c1}
  CanHangUp = TRUE
INVARIANT OwnResponse
PROPERTIES ReaderMovesOn EveryCallReturns
