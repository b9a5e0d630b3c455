SPECIFICATION FairSpec
CONSTANTS
  AudioCap = 2
  TextCap = 1
  ToolCap = 1
  Interruptible = TRUE
  MaxItems = 3
  MaxFrames = 2
INVARIANTS TypeOK InterruptedIsSilent
PROPERTIES LostToInterruption SessionEnds MediaNotGated
CHECK_DEADLOCK FALSE
