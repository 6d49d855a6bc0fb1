SPECIFICATION Spec
CONSTANTS
  cccdKey = cccdKey
  servicesKey = servicesKey
  Calls = {c1, c2}
  Keys = {cccdKey, servicesKey}
  Demands <- AnyDemand
  Services = servicesKey
  None = None
INVARIANT
  ReportedOnce
CHECK_DEADLOCK FALSE
