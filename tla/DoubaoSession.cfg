SPECIFICATION FairSpec
CONSTANTS
  Idle = 2
  AudioCap = 1
  TextCap = 1
  MaxResults = 1
INVARIANTS TypeOK KeptAlive
PROPERTY SessionEnds
CHECK_DEADLOCK FALSE
