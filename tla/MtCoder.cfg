CONSTANTS
  NumThreads = 3
  MaxBlocks = 4
  MaxCalls = 2
SPECIFICATION FairSpec
INVARIANTS TypeOK StreamsExclusive ResultIsCause NobodyLeft
PROPERTIES ImplementsPipe CodeReturns
CHECK_DEADLOCK FALSE
