SPECIFICATION Spec
CONSTANTS
  p1 = p1
  p2 = p2
  g1 = g1
  g2 = g2
  k1 = k1
  k2 = k2
  dedup0 = dedup0
  dedup1 = dedup1
  Publishers = {p1, p2}
  Goroutines = {g1, g2}
  Keys = {k1, k2}
  Prefixes = {dedup0, dedup1}
  Default = dedup0
  Off = Off
  MaxCalls = 4
  MaxExpiries = 1
  MaxChanges = 1
  MaxFaults = 2
SYMMETRY Symmetry
INVARIANTS TypeOK OneMessagePerMark ConfigurationFixed ClosedIsQuiet BlockedNeedsFaults
PROPERTY KeepsMarkContract
CHECK_DEADLOCK FALSE
