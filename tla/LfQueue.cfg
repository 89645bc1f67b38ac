CONSTANTS
  Threads = {t1, t2}
  Running = {t1}
  NumberElements = 1
  MaxNodes = 3
  MaxCalls = 3
  MaxAllCalls = 3
  Garbage = {0}
SPECIFICATION FairSpec
INVARIANTS EveryElementOnce EveryValueOnce EnqueueInList
PROPERTIES ImplementsQueue OperationsReturn
