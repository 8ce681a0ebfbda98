SPECIFICATION DLFairSpec
CONSTANTS
  c1 = c1
  c2 = c2
  r1 = r1
  r2 = r2
  Consumers = {c1, c2}
  Recoverers = {c1}
  Reliable = {c1}
  Malformed = {2}
  BatchSize = 1
  PendingPage = 1
  MaxRetries = 2
  MaxMessages = 3
  MaxFaults = 1
  MaxPublished = 1
  Reprocessors = {r1, r2}
INVARIANTS DLTypeOK OncePerLetter LineageKept
PROPERTIES EventuallySettled SettledIsFinal OnlyRecoveryResumes KeepsDeliveryContract
CHECK_DEADLOCK FALSE
