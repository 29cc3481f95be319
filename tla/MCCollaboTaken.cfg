SPECIFICATION Spec
CONSTANTS
  Ws = {w1, w2}
  Mcodes = {m1}
  NoMcode = NoMcode
  Terminations = {"nested"}
PROPERTIES
  TurnsOffOther
