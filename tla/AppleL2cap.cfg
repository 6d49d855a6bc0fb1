SPECIFICATION FairSpec
CONSTANTS
  MaxIn = 2
  MaxOut = 1
  Queue = 1
  Buffer = 1
  Lingers = TRUE
INVARIANTS
  TypeOK
  CleanEndIsComplete
  LingerDelivers
PROPERTIES
  InputFlows
  OutputFlows
CHECK_DEADLOCK FALSE
