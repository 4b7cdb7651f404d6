CONSTANTS
  Size = 1024
  HeadLen = 8
  FrameMaxLen = 256
  OffBound = 210
SPECIFICATION Spec
INVARIANT NeverFaults
CHECK_DEADLOCK FALSE
