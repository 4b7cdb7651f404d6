\* The sizes of recvframe.h.
CONSTANTS
  Size = 1024
  HeadLen = 8
  FrameMaxLen = 256
  OffBound = 210
SPECIFICATION Spec
INVARIANTS
  TypeOK
  EveryByteFits
  FaultNeedsLull
\* The program dies at a fault.
CHECK_DEADLOCK FALSE
