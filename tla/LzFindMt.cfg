CONSTANTS
  NumBlocks = 2
  MaxHeads = 1
  MaxBlocks = 3
  MaxStreams = 2
SPECIFICATION FairSpec
INVARIANTS TypeOK MovesAlone BlocksIntact BlocksCount Quiescent
PROPERTIES CallReturns
CHECK_DEADLOCK FALSE
