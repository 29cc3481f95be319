SPECIFICATION FairSpec
CONSTANTS
  Sockets = {s1, s2}
  None = None
  Words <- SomeWords
INVARIANTS
  TypeOK
  OnlyAgentsAreTold
  OnlyHandshakesKeepSockets
PROPERTIES
  StopEndsThread
  KeepsServing
CHECK_DEADLOCK FALSE
