CONSTANTS
  a = a
  b = b
  skip = skip
  NoFlow = skip
  NumLBs = 1
  FPsPerLB = 2
  Cap = 1
  Flow <- MCFlow
  Hash <- MCHash
  Capture <- MCCapture
SPECIFICATION FairSpec
INVARIANTS TypeOK NothingLost BlockSticks
PROPERTIES ImplementsFlowFilter ProcessReturns
CHECK_DEADLOCK FALSE
