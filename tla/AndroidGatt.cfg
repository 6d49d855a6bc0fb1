SPECIFICATION GattSpec
CONSTANTS
  cccdKey = cccdKey
  servicesKey = servicesKey
  Calls = {c1, c2}
  Keys = {cccdKey, servicesKey}
  Demands <- AnyDemand
  Services = servicesKey
  None = None
  Adds = {a1, a2}
  Asks = {r1}
  MaxOffs = 1
  MaxEvents = 2
  NoAdd = NoAdd
  Reads = {r1}
  Subscribes = {u1, u2}
  Dials = {c1}
  Listeners = {l1}
  MaxToggles = 3
  Nil = Nil
INVARIANTS
  SlotIsOwed
  RetiredIsClean
  OwnReports
  TableIsServed
  RequestsAreOwed
  SubscribedIsConnected
PROPERTIES
  CallsEnd
CHECK_DEADLOCK FALSE
