SPECIFICATION Spec
CONSTANTS
  Producers = {p1, p2}
  Consumers = {c1, c2}
  Controllers = {k1}
  NoThread = NoThread
  maxsize = 2
  MaxAccepted = 5
SYMMETRY Symmetry
INVARIANTS
  TypeOK
  LocksFollowCode
  RingHoldsBacklog
  WrongOnlyAfterHazard
  FoundElementStays
  ClearFreesBacklog
PROPERTIES
  ImplementsFifo
