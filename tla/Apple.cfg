SPECIFICATION AppleSpec
CONSTANTS
  Requests = {c1, c2}
  Notifies = {n1, n2}
  Services = {s1, s2}
  Notifying = s1
  None = None
  Connectors = {c1, c2}
  Askers = {q1, q2}
  Writers = {n1, n2}
  Kinds = {"discover", "read"}
  ServiceCount = 2
  MaxLinks = 2
  MaxCancels = 1
  MaxBegun = 2
  Timed = TRUE
  Nobody = Nobody
  Asks = {c1, c2}
  MaxParts = 2
  Waiters = {c1, c2}
  Capacity = 1
  MaxChanges = 3
  MaxOthers = 1
SYMMETRY Alike
CONSTRAINT FewCalls
INVARIANTS
  SentOnce
  NoMissedReady
  AcceptedIsOwed
  OwnAnswer
  NothingStranded
  ResponseIsEarned
  ResponseIsOwed
  NoMissedPower
  RestoredInTime
CHECK_DEADLOCK FALSE
