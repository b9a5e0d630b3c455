SPECIFICATION FairSpec
CONSTANTS
  AudioCap = 2
  TextCap = 1
  ToolCap = 1
  Interruptible = TRUE
  MaxItems = 2
  MaxFrames = 1
PROPERTIES GoroutinesExit
CHECK_DEADLOCK FALSE
