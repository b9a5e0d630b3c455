SPECIFICATION FairSpec
CONSTANTS
  Nodes = {n1}
  Sessions = {s1, s2}
  Owners = {alice}
  Anonymous = anonymous
  None = none
  QueueCap = 1
  BufferCap = 1
  MaxSessions = 1
  MaxPerSession = 1
  TTL = 0
  Limit = 1
  MaxLines = 3
  MaxTicks = 1
  MaxFaults = 1
INVARIANT NoSilentLoss
PROPERTY CloseReturns
CHECK_DEADLOCK FALSE
