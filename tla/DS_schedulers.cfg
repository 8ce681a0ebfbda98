SPECIFICATION FairSpec
CONSTANTS
  p1 = p1
  p2 = p2
  t1 = t1
  t2 = t2
  t3 = t3
  Schedulers = {p1, p2}
  Reliable = {p1}
  Tasks = {t1, t2, t3}
  Undecodable = {t2}
  Refused = {t3}
  MaxRetries = 1
  Page = 1
  MaxFaults = 2
INVARIANTS TypeOK LossNeedsFaults PublicationsBounded CopiesBounded FailedOnlyWhenExhausted
PROPERTIES KeepsTaskContract EventuallyDrained
CHECK_DEADLOCK FALSE
