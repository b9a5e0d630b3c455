CONSTANTS
  Texts = {a, b}
  None = none
  AudioCap = 1
  TranscriptCap = 1
  ModelTurnCap = 1
  MaxEvents = 3

SPECIFICATION Spec

INVARIANTS
  TypeOK
  SpeculationIsLast
  SilentAfterBargeIn

PROPERTIES
  DialogueKept

CHECK_DEADLOCK FALSE
