SPECIFICATION Spec
CONSTANTS
  i1 = i1
  i2 = i2
  t1 = t1
  t2 = t2
  Instance = {i1, i2}
  Task = {t1, t2}
  host <- HostApart
  StepName <- MCStepName
  StepOrder <- MCSteps
  UseLocks = TRUE
  StableOwner = FALSE
  CanExpire = TRUE
  Limits <- LimitsCrash
  NoStep = NoStep
  NoClaim = NoClaim
  NoLock = NoLock
  Dead = Dead
  WorkflowKey = WorkflowKey
SYMMETRY Symmetry
INVARIANTS
  SnapshotCoherent
  RecordedStepsRan
CHECK_DEADLOCK FALSE
