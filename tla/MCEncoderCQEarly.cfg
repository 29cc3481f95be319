SPECIFICATION Spec
CONSTANTS
  Producers = {p1}
  Consumers = {c1}
  Controllers = {k1}
  NoThread = NoThread
  maxsize = 2
  MaxAccepted = 3
INVARIANTS
  NoEarlyRead
