SPECIFICATION LiveSpec
CONSTANTS
  t1 = t1
  t2 = t2
  t3 = t3
  f1 = f1
  f2 = f2
  f3 = f3
  Threads = {t1, t2, t3}
  Files = {f1, f2, f3}
  NoThread = NoThread
  NoFile = NoFile
  Shared = FALSE
  MaxSignals = 0
INVARIANTS
  TypeOK
  MutualExclusion
  CountsMatch
  Sem2FollowsMode
  DeadlockShapes
PROPERTIES
  WaitForMode2NeverEnds
  ImplementsGate
  Sem1Granted
  NoLostWakeup
CHECK_DEADLOCK FALSE
