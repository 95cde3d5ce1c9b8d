CONSTANTS
  c1 = c1
  c2 = c2
  Call = {c1}
  Total = 2
  MaxRetries = 0
  MaxRequests = 4
  MaxDecisions = 1
  Limits <- RetryLimits
SPECIFICATION DisputeSpec
INVARIANTS LegsPaidOnce
CHECK_DEADLOCK FALSE
