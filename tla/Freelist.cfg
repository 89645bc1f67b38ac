CONSTANTS
  Threads = {t1, t2}
  Running = {t1}
  NumberElements = 2
  MaxElements = 3
  MaxCounter = 4
SPECIFICATION FairSpec
INVARIANTS EveryElementOnce NoStaleNext
PROPERTIES ImplementsStack OperationsReturn
