CONSTANTS
  Threads = {t1, t2, t3}
  Listeners = {l1}
  Conns = {c1, c2}
  Main = Main
  None = None
  Shared = TRUE
  MaxOwned = 2
  Stalls = FALSE
SPECIFICATION Spec
SYMMETRY Symmetry
INVARIANTS TypeOK WaitTablesSound
CHECK_DEADLOCK FALSE
