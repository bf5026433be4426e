SPECIFICATION LiveSpec
CONSTANTS
  Emails <- FewEmails
  MaxLines = 5
  BufferLength = 2
  SafeDelete = FALSE
INVARIANTS
  TypeOK
  SleepsOverNothing
  FewLost
PROPERTIES
  FullListDrains
CHECK_DEADLOCK FALSE
