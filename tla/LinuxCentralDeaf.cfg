SPECIFICATION CentralSpec
CONSTANTS
  Connects = {c1}
  Scans = {k1}
  Hangups = {h1}
  Subs = {}
  Nobody = Nobody
INVARIANT
  LossIsObserved
CHECK_DEADLOCK FALSE
