SPECIFICATION FairSpec
CONSTANTS
  MaxIn = 2
  MaxOut = 1
  Queue = 1
  Buffer = 1
  Lingers = TRUE
PROPERTIES
  EndIsObserved
CHECK_DEADLOCK FALSE
