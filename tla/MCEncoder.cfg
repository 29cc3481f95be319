SPECIFICATION Spec
CONSTANTS
  Hub = Hub
  NoThread = NoThread
  VideoLoops = {v1, v2}
  AudioLoops = {a1, a2}
  Lambdas = {l1}
  Modes = {"video", "image"}
  QueueSize = 1
  Prompt = TRUE
  MayFail = TRUE
  MaxStarts = 2
  MaxToggles = 1
  MaxResizes = 1
CHECK_DEADLOCK FALSE
SYMMETRY Symmetry
INVARIANTS
  TypeOK
  ContextsStay
  StreamsWhenTold
  LoopsServe
  StopWakesAll
