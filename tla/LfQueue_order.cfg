CONSTANTS
  Threads = {t1, t2}
  Running = {t1}
  NumberElements = 3
  MaxNodes = 4
  MaxCalls = 4
  MaxAllCalls = 4
  Garbage = {0}
SPECIFICATION Spec
INVARIANT ThreadsKeepOrder
