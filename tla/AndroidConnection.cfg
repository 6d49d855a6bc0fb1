SPECIFICATION FairSpec
CONSTANTS
  MaxGen = 2
  Closers = {d1}
INVARIANTS
  TypeOK
  UpIsHeld
  NoOrphanAttempt
  ClientsAccountedFor
PROPERTIES
  KeepsContract
  DisconnectingEnds
  RetiredClientCloses
CHECK_DEADLOCK FALSE
