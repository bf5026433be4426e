SPECIFICATION Spec
CONSTANTS
  Arguments <- Race
INVARIANTS
  BalancesExpected
CHECK_DEADLOCK FALSE
