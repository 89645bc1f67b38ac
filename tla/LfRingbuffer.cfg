CONSTANTS
  Threads = {t1, t2, t3}
  Running = {t1}
  NumberElements = 3
  MaxPuts = 2
SPECIFICATION FairSpec
INVARIANT EveryElementOnce
PROPERTIES ImplementsLossyQueue GetWriteReturns
CHECK_DEADLOCK FALSE
