CONSTANTS
  a = a
  b = b
  skip = skip
  NoFlow = skip
  NumLBs = 1
  FPsPerLB = 1
  LBCap = 2
  FPCap = 1
  OutCap = 2
  MaxFiles = 2
  Flow <- MCFlow
  Hash <- MCHash
  Capture <- MCBurst
SPECIFICATION Spec
INVARIANT HeaderFirst
CHECK_DEADLOCK FALSE
