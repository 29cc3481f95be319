SPECIFICATION FairSpec
CONSTANTS
  Producers = {p1}
  Consumers = {c1, c2}
  Controllers = {k1}
  NoThread = NoThread
  maxsize = 1
  MaxAccepted = 2
PROPERTIES
  ClearCompletes
  WokenReturns
