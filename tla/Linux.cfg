SPECIFICATION LinuxSpec
CONSTANTS
  Starts = {s1, s2}
  Stops = {stop}
  Sessions = {n1, n2}
  Sends = {x1, x2}
  MaxPowerOffs = 1
  None = None
  Watcher = Watcher
  Connects = {s1, s2}
  Scans = {k1}
  Hangups = {h1}
  Subs = {n1, n2}
  Nobody = Nobody
  MaxCalls = 4
SYMMETRY Alike
CONSTRAINT FewCalls
INVARIANTS
  HandlesMatch
  SubscriptionsBalance
  ReportedOnce
  NoStrayTask
CHECK_DEADLOCK FALSE
