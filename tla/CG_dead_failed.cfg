SPECIFICATION Spec
CONSTANTS
  c1 = c1
  c2 = c2
  Consumers = {c1, c2}
  Recoverers = {c1, c2}
  Reliable = {}
  Malformed = {}
  BatchSize = 1
  PendingPage = 1
  MaxRetries = 2
  MaxMessages = 1
  MaxFaults = 0
INVARIANT DeadMeansFailed
CHECK_DEADLOCK FALSE
