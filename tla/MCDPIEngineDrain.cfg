CONSTANTS
  a = a
  b = b
  skip = skip
  NoFlow = skip
  NumLBs = 2
  FPsPerLB = 1
  LBCap = 1
  FPCap = 1
  OutCap = 1
  MaxFiles = 1
  Flow <- MCFlow
  Hash <- MCHash
  Capture <- MCCapture
SPECIFICATION Spec
INVARIANT EveryPacketDecided
CHECK_DEADLOCK FALSE
