SPECIFICATION Spec
CONSTANTS
  c1 = c1
  Consumers = {c1}
  Recoverers = {c1}
  Reliable = {}
  Malformed = {}
  BatchSize = 1
  PendingPage = 1
  MaxRetries = 2
  MaxMessages = 1
  MaxFaults = 0
INVARIANT RetriedBeforeDead
CHECK_DEADLOCK FALSE
