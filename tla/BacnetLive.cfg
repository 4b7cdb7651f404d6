CONSTANTS
  Station <- MCStation
  Broadcast = 9
  Master = 2
  NumPoll = 2
  IndexMod = 4
  TokenGap = 2
  RecvGap = 1
  SendGap = 1
  DeviceGap = 1
  Batch <- MCBatch
  Incoming <- Calls
  WriteMayFail = FALSE
  Preempted = FALSE
SPECIFICATION FairSpec
PROPERTIES
  PollsEveryStation
  RequestsServed
