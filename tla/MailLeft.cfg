SPECIFICATION Spec
CONSTANTS
  Emails <- FewEmails
  MaxLines = 3
  BufferLength = 2
  SafeDelete = FALSE
INVARIANTS
  LeftoversProcessed
CHECK_DEADLOCK FALSE
