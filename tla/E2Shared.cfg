SPECIFICATION Spec
CONSTANTS
  t1 = t1
  t2 = t2
  t3 = t3
  f1 = f1
  f2 = f2
  f3 = f3
  Threads = {t1, t2, t3}
  Files = {f1, f2, f3}
  NoThread = NoThread
  NoFile = NoFile
  Shared = TRUE
  MaxSignals = 0
SYMMETRY Symmetry
INVARIANTS
  CountsConserved
  CopyOverlaps
  BlockedWithSem1
CHECK_DEADLOCK FALSE
