SPECIFICATION Spec
CONSTANTS
  Call = {c1, c2}
  MaxPeriod = 1
  Limits <- SchedulerOnly
INVARIANT NeverDoubleBilled
CHECK_DEADLOCK FALSE
