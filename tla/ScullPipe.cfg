SPECIFICATION Spec
CONSTANTS
  t1 = t1
  t2 = t2
  t3 = t3
  Threads <- MCThreads
  Sizes = {1, 3}
  MaxCount = 2
  Bytes = {0, 1}
SYMMETRY Symmetric
INVARIANTS
  LostWakeupOnlyAfterReopen
PROPERTIES
  ImplementsFifo
CHECK_DEADLOCK FALSE
