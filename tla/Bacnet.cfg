CONSTANTS
  Station <- MCStation
  Broadcast = 9
  Master = 2
  NumPoll = 2
  IndexMod = 4
  TokenGap = 2
  RecvGap = 1
  SendGap = 1
  DeviceGap = 1
  Batch <- MixedBatch
  Incoming <- AnyFrame
  WriteMayFail = TRUE
  Preempted = TRUE
SPECIFICATION MonSpec
INVARIANTS
  TypeOK
  NeverClaimsLiveStation
  RequestNeedsToken
  AskedAsListed
PROPERTY ImplementsRequester
