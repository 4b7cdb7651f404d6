\* One glitch, then nothing but token frames, and no silence of 500 ms.
CONSTANTS
  Byte <- MCByte
  Size = 20
  FrameMaxLen = 11
  OffBound = 30
  MaxLulls = 0
  CalcHeadCrc <- MCHeadCrc
  CalcDataCrc <- MCDataCrc
  Traffic <- TokensOnly
  First <- Glitch
  Master = 3
  PollTargets = {0}
SPECIFICATION FairSpec
PROPERTY KeepsAccepting
