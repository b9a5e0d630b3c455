CONSTANTS
  MaxOffers = 2
  MaxFresh = 2
  Users = {u1, u2, anon}
  Anonymous = anon
  Providers = {p1}
  None = none
  HistLimit = 1
  MaxLines = 1
  Signalled = TRUE
  IndexEnabled = TRUE
  GivesUp = FALSE
  Stuck = {2}

SPECIFICATION FairSpec

INVARIANTS
  HistoryOwned
  CloseAllFindsAll

PROPERTY CloseAllEnds

CHECK_DEADLOCK FALSE
