SPECIFICATION Spec
CONSTANTS
  MaxGen = 2
  Closers = {d1}
INVARIANT
  QuietMeansDisconnected
CHECK_DEADLOCK FALSE
