SPECIFICATION Spec
CONSTANTS
  Frame = 3
  Tick = 5
  Sizes = {1, 4}
  Loop = loop
  Lambdas = {l1, l2}
  MaxBytes = 13
  MaxPictures = 2
SYMMETRY Symmetry
INVARIANTS
  TypeOK
  FramesInOrder
  PaddingCatchesUp
  PicturesKeepPace
CHECK_DEADLOCK FALSE
