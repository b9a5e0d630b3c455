SPECIFICATION FairSpec
CONSTANTS
  Sources = {jingle, track}
  None = none
  EventCap = 1
  TextCap = 1
  SpeechCap = 1
INVARIANT ReleasedOnce
PROPERTIES TextTaken ClosesDown
CHECK_DEADLOCK FALSE
