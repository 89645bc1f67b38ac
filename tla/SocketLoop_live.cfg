CONSTANTS
  Threads = {t1, t2}
  Listeners = {l1}
  Conns = {c1, c2}
  Main = Main
  None = None
  Shared = FALSE
  MaxOwned = 1
  Stalls = FALSE
SPECIFICATION FairSpec
PROPERTIES Served StopEnds
CHECK_DEADLOCK FALSE
