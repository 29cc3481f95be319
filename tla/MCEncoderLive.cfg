SPECIFICATION FairSpec
CONSTANTS
  Hub = Hub
  NoThread = NoThread
  VideoLoops = {v1}
  AudioLoops = {a1}
  Lambdas = {l1}
  Modes = {"video", "image"}
  QueueSize = 2
  Prompt = TRUE
  MayFail = FALSE
  MaxStarts = 2
  MaxToggles = 2
  MaxResizes = 0
CHECK_DEADLOCK FALSE
PROPERTIES
  SilenceFlows
  StopEndsLoops
