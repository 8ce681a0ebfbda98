SPECIFICATION Spec
CONSTANTS
  c1 = c1
  c2 = c2
  Consumers = {c1, c2}
  Recoverers = {c1, c2}
  Reliable = {}
  Malformed = {}
  BatchSize = 2
  PendingPage = 2
  MaxRetries = 3
  MaxMessages = 2
  MaxFaults = 0
INVARIANT OneHandlerAtATime
CHECK_DEADLOCK FALSE
