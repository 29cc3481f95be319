SPECIFICATION FairSpec
CONSTANTS
  Loops = {l1, l2}
  Clients = {c1}
  Regions = {body, corner}
  Corner = corner
  Sizes = {s1}
  MaxDraws = 2
  None = None
PROPERTIES
  PictureCatchesUp
  StopEndsLoops
