SPECIFICATION LiveSpec
CONSTANTS
  t1 = t1
  t2 = t2
  f1 = f1
  f2 = f2
  NULL = NULL
  Threads <- MCThreads
  Files <- MCFiles
  RamdiskSize = 1
  Slack = 1
  MaxPosition = 1
  Counts = {2}
  Offsets <- MCOffsets
  Bytes = {1}
INVARIANTS
  TypeOK
  SemaphoreAccounted
  
PROPERTIES
  ImplementsTape
  CallsReturn
CHECK_DEADLOCK FALSE
