SPECIFICATION Spec
CONSTANTS
  Clients = {c1, c2}
  None = None
  MaxStreams = 3
  MaxPackets = 4
  MaxResizes = 1
SYMMETRY Symmetry
INVARIANTS
  TypeOK
  InitIsHeader
  NobodyLeftOut
  InitFirst
CHECK_DEADLOCK FALSE
