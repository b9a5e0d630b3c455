CONSTANTS
  Texts = {a, b}
  None = none
  AudioCap = 1
  TranscriptCap = 1
  ModelTurnCap = 1
  MaxEvents = 2

SPECIFICATION FairSpec

PROPERTIES
  FinalAnswered
  CloseReturns

CHECK_DEADLOCK FALSE
