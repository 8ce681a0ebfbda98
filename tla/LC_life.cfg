SPECIFICATION ClientFairSpec
CONSTANTS
  k1 = k1
  k2 = k2
  s1 = s1
  s2 = s2
  Free = Free
  Callers = {k1, k2}
  Streams = {s1, s2}
  MaxStarts = 2
  MaxWorkers = 1
  MaxRounds = 2
INVARIANTS
  TypeOK ClientTypeOK QuietWhenStopped OneGeneration SchedulerQuiet
  RunningHasLoop CountHonest PanicNeedsRestart
PROPERTIES
  HandlersFrozen CloseLeavesNothing CancelTerminates WorkersEnd CallsReturn
CHECK_DEADLOCK FALSE
