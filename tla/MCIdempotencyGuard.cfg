SPECIFICATION Spec
CONSTANTS
  r1 = r1
  r2 = r2
  r3 = r3
  r4 = r4
  h1 = h1
  h2 = h2
  Request = {r1, r2, r3, r4}
  Hash = {h1, h2}
  hash <- HashMixed
  Limits <- LimitsFaulty
  NoLease = NoLease
  NoRequest = NoRequest
INVARIANTS
  AnswersAreFaithful
  OneAtATime
  RetryInTimeIsReplayed
  OneResponse
CHECK_DEADLOCK FALSE
