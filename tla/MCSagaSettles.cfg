SPECIFICATION LiveSpec
CONSTANTS
  i1 = i1
  i2 = i2
  t1 = t1
  t2 = t2
  Instance = {i1, i2}
  Task = {t1, t2}
  host <- HostApart
  StepName <- MCStepName
  StepOrder <- MCSteps
  UseLocks = TRUE
  StableOwner = FALSE
  CanExpire = FALSE
  Limits <- LimitsLive
  NoStep = NoStep
  NoClaim = NoClaim
  NoLock = NoLock
  Dead = Dead
  WorkflowKey = WorkflowKey
PROPERTIES
  EventuallySettled
  ImplementsOutcome
CHECK_DEADLOCK FALSE
