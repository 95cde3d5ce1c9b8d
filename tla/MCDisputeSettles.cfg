CONSTANTS
  c1 = c1
  c2 = c2
  Call = {c1, c2}
  Total = 2
  MaxRetries = 1
  MaxRequests = 4
  MaxDecisions = 1
  Limits <- SettleLimits
SPECIFICATION DisputeSpec
SYMMETRY SymmetricCalls
INVARIANTS OneDeposit FundedIsReal RecordNeverAhead SettledIsEmpty ResolvedIsPaid BuyerFirst
CHECK_DEADLOCK FALSE
