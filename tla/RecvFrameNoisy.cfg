\* Frames, broken frames, noise and silences.
CONSTANTS
  Byte <- MCByte
  Size = 18
  FrameMaxLen = 11
  OffBound = 30
  MaxLulls = 4
  CalcHeadCrc <- MCHeadCrc
  CalcDataCrc <- MCDataCrc
  Traffic = {}
  First <- Garbage
  Master = 3
  PollTargets = {0}
SPECIFICATION Spec
INVARIANTS
  TypeOK
  WindowIsStream
  AcceptExactly
PROPERTY RecvWindowSpec
\* The program dies at a fault.
CHECK_DEADLOCK FALSE
