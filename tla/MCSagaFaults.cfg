SPECIFICATION Spec
CONSTANTS
  i1 = i1
  i2 = i2
  t1 = t1
  t2 = t2
  Instance = {i1, i2}
  Task = {t1, t2}
  host <- HostShared
  StepName <- MCStepName
  StepOrder <- MCSteps
  UseLocks = TRUE
  StableOwner = FALSE
  CanExpire = TRUE
  Limits <- LimitsFaults
  NoStep = NoStep
  NoClaim = NoClaim
  NoLock = NoLock
  Dead = Dead
  WorkflowKey = WorkflowKey
SYMMETRY Symmetry
INVARIANTS
  ClaimsExclusive
  LeaseExcludes
  ReverseCompensation
  OutcomeIsWhole
PROPERTIES
  NoForwardAfterTurn
CHECK_DEADLOCK FALSE
