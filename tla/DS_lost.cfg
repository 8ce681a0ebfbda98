SPECIFICATION Spec
CONSTANTS
  p1 = p1
  t1 = t1
  Schedulers = {p1}
  Reliable = {}
  Tasks = {t1}
  Undecodable = {}
  Refused = {t1}
  MaxRetries = 1
  Page = 1
  MaxFaults = 1
INVARIANT FailedTasksAreKept
CHECK_DEADLOCK FALSE
