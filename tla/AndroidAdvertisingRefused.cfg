SPECIFICATION AdvertisingSpec
CONSTANTS
  stop = stop
  rename = rename
  a = a
  b = b
  none = none
  MaxStarts = 2
  Stops = {stop}
  Renames = {rename}
  Names = {a, b}
  NoName = none
  NoOne = NoOne
  Demands <- Unnamed
  MaxPowerOffs = 1
INVARIANT
  RefusedMeansOnAir
CHECK_DEADLOCK FALSE
