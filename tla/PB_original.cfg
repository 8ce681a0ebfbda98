SPECIFICATION FairSpec
CONSTANTS
  p1 = p1
  g1 = g1
  k1 = k1
  dedup0 = dedup0
  Publishers = {p1}
  Goroutines = {g1}
  Keys = {k1}
  Prefixes = {dedup0}
  Default = dedup0
  Off = Off
  MaxCalls = 2
  MaxExpiries = 0
  MaxChanges = 0
  MaxFaults = 1
PROPERTY RejectedHasOriginal
CHECK_DEADLOCK FALSE
