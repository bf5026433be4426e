SPECIFICATION LiveSpec
CONSTANTS
  t1 = t1
  t2 = t2
  f1 = f1
  f2 = f2
  Threads = {t1, t2}
  Files = {f1, f2}
  NoThread = NoThread
  NoFile = NoFile
  Shared = FALSE
  MaxSignals = 2
PROPERTIES
  InterruptEndsCall
CHECK_DEADLOCK FALSE
