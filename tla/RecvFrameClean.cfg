\* Frames only, no silence of 500 ms (OffBound = 0).
CONSTANTS
  Byte <- MCByte
  Size = 20
  FrameMaxLen = 11
  OffBound = 30
  MaxLulls = 0
  CalcHeadCrc <- MCHeadCrc
  CalcDataCrc <- MCDataCrc
  Traffic <- Frames
  First <- Nothing
  Master = 3
  PollTargets = {0, 1}
SPECIFICATION FairSpec
INVARIANT FrameDelivered
PROPERTY KeepsAccepting
