CONSTANTS
  Offers = {o1, o2, o3}
  OpenAfter = 2
  OpenFor = 1
  AuthOpenFor = 2
  HalfOpenSuccess = 2
  EarlyFaultWindow = 1
  MaxClockAge = 1
  UpstreamModes = {"up", "down", "denied", "dead"}
  MaxRefusals = 1
  MaxHangUps = 1

SPECIFICATION FairSpec

INVARIANTS
  TypeOK
  SingleProbeUnlessLate
  ProbeSlotHasHolder

PROPERTIES
  OpenWindowRuns
  ActsAsBreaker
  RecoversWhenUp
