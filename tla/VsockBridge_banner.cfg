\* The ack and the banner arrive together.
SPECIFICATION FairSpec
CONSTANTS
  MaxAttempts = 2
  Requests = 1
PROPERTY BridgeReturns
