SPECIFICATION Spec
CONSTANTS
  Job = {j1, j2}
  Worker = {w1, w2}
  Admin = {a1, a2}
  Lease = {l1, l2}
  MaxAttempts = 5
  MaxStalls = 2
  BlockSize = 2
  SpendLimit = 1
  Scenarios <- SingleFaults
  None = None
INVARIANTS
  OutcomeIsTrue
  CompletedIsOnLedger
  BlocksDisjoint
  SpendIsCounted
  AttemptsSuffice
SYMMETRY Symmetry
CHECK_DEADLOCK FALSE
