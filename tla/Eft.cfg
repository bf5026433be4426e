SPECIFICATION LiveSpec
CONSTANTS
  Arguments <- All
INVARIANTS
  TypeOK
  SemaphoresAccounted
  MoneyConserved
  StuckOnlyInCycle
  SerialBalancesExpected
PROPERTIES
  ImplementsBank
  Finishes
CHECK_DEADLOCK FALSE
