SPECIFICATION Spec
CONSTANTS
  Call = {c1, c2}
  MaxPeriod = 2
  Limits <- OneFault
INVARIANTS
  ServedIsPaid
  BilledOnce
PROPERTIES
  CancelledIsFinal
  FlaggedIsCancelled
CHECK_DEADLOCK FALSE
