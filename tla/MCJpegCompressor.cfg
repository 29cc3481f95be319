SPECIFICATION Spec
CONSTANTS
  Loops = {l1, l2}
  Clients = {c1, c2}
  Regions = {body, corner}
  Corner = corner
  Sizes = {s1, s2}
  MaxDraws = 2
  None = None
SYMMETRY Symmetry
INVARIANTS
  TypeOK
  RequestKept
PROPERTIES
  SizeKnown
