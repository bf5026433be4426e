SPECIFICATION Spec
CONSTANTS
  Emails <- ManyEmails
  MaxLines = 4
  BufferLength = 2
  Kept <- MCKept
  Strays <- MCStrays
INVARIANTS
  TypeOK
  InOrder
  AnnouncesEarliest
  UndefinedOnlyByDeletingAbsent
  FilterAnnouncesEarliest
PROPERTIES
  ImplementsList
CHECK_DEADLOCK FALSE
