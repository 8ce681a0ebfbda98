SPECIFICATION Spec
CONSTANTS
  k1 = k1
  s1 = s1
  Free = Free
  Callers = {k1}
  Streams = {s1}
  MaxStarts = 2
INVARIANT StartedConsumes
CHECK_DEADLOCK FALSE
