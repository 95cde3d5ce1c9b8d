SPECIFICATION WorkflowSpec
CONSTANTS
  r1 = r1
  r2 = r2
  e1 = e1
  e2 = e2
  c1 = c1
  c2 = c2
  Relay = {r1, r2}
  Event = {e1, e2}
  Call = {c1, c2}
  Reconciler = {c2}
  Start <- MCStart
  BatchSize = 2
  MaxAttempts = 2
  NoEvent = NoEvent
  Faults = 3
INVARIANTS
  StateIsAnnounced
  HistoryIsLegal
  PublishedWasDelivered
  AttemptsBounded
PROPERTIES
  EventuallyRelayed
CHECK_DEADLOCK FALSE
