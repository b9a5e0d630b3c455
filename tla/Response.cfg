SPECIFICATION FairSpec
CONSTANTS
  DeltaCap = 1
  SegmentCap = 1
  PcmCap = 1
  AudioCap = 1
  MaxTokens = 3
  MaxChunks = 3
INVARIANTS TypeOK VoicedInOrder WholeReply
PROPERTIES IsAResponse StagesEnd
CHECK_DEADLOCK FALSE
