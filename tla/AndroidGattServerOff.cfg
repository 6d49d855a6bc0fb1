SPECIFICATION GattServerSpec
CONSTANTS
  Adds = {a1, a2}
  Asks = {r1}
  MaxOffs = 1
  MaxEvents = 2
  NoAdd = NoAdd
INVARIANTS
  OffMeansUnsubscribed
CHECK_DEADLOCK FALSE
