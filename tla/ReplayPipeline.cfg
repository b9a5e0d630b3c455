SPECIFICATION Spec
CONSTANTS
  Nodes = {n1, n2}
  Sessions = {s1, s2}
  Owners = {alice, bob}
  Anonymous = anonymous
  None = none
  QueueCap = 1
  BufferCap = 1
  MaxSessions = 1
  MaxPerSession = 3
  TTL = 0
  Limit = 2
  MaxLines = 3
  MaxTicks = 1
  MaxFaults = 0
SYMMETRY Interchangeable
PROPERTIES ReplaysTranscript GapsExplained
CHECK_DEADLOCK FALSE
