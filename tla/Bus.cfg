CONSTANTS
  Station <- MCStation
  Broadcast = 9
  NumPoll = 3
  IndexMod = 3
  TokenGap = 8
  SendGap = 1
  DeviceGap = 14
  Batch <- MCBatch
  MasterA = 2
  MasterB = 0
  RecvGapA = 5
  RecvGapB = 2
  MaxLost = 1
  MaxRestarts = 1
SPECIFICATION FairSpec
INVARIANTS
  TypeOK
  OneExchange
PROPERTY BothServed
