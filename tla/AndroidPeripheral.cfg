SPECIFICATION PeripheralSpec
CONSTANTS
  stop = stop
  rename = rename
  a = a
  b = b
  none = none
  MaxStarts = 2
  Stops = {stop}
  Renames = {rename}
  Names = {a, b}
  NoName = none
  NoOne = NoOne
  Demands <- AnyNames
  MaxPowerOffs = 1
  Sends = {s1, s2, s3}
  MaxLinks = 2
  None = None
  Gone = Gone
  Opens = {o1, o2}
  Accepts = {k1}
  Listens = {l1}
  MaxWrites = 1
  Unclaimed = Unclaimed
  Refused = Refused
CONSTRAINT FewAtOnce
INVARIANTS
  OneHandle
  NoneStranded
  OkMeansOnAir
  GateIsOwed
  EndIsTrue
  SocketsAreOwned
  CloseDelivers
PROPERTIES
  NeverSecond
CHECK_DEADLOCK FALSE
