CONSTANTS
  a = a
  b = b
  skip = skip
  NoFlow = skip
  NumLBs = 1
  FPsPerLB = 1
  LBCap = 1
  FPCap = 1
  OutCap = 1
  MaxFiles = 1
  Flow <- MCFlow
  Hash <- MCHash
  Capture <- MCBurst
SPECIFICATION FairSpec
PROPERTY StopReturns
CHECK_DEADLOCK FALSE
