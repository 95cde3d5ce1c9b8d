SPECIFICATION Spec
CONSTANTS
  r1 = r1
  r2 = r2
  e1 = e1
  e2 = e2
  e3 = e3
  Relay = {r1, r2}
  Event = {e1, e2, e3}
  BatchSize = 2
  MaxAttempts = 2
  NoEvent = NoEvent
  Faults = 0
INVARIANT
  ClaimsDisjoint
CHECK_DEADLOCK FALSE
