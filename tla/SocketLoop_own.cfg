CONSTANTS
  Threads = {t1, t2, t3}
  Listeners = {l1}
  Conns = {c1, c2}
  Main = Main
  None = None
  Shared = FALSE
  MaxOwned = 1
  Stalls = TRUE
SPECIFICATION Spec
SYMMETRY Symmetry
INVARIANTS NoLostThread NoWaitOnClosed
PROPERTIES ImplementsBlockingIO
CHECK_DEADLOCK FALSE
