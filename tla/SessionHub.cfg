CONSTANTS
  MaxOffers = 3
  MaxFresh = 1
  Users = {u1}
  Anonymous = anon
  Providers = {p1}
  None = none
  HistLimit = 1
  MaxLines = 2
  Signalled = FALSE
  IndexEnabled = TRUE
  GivesUp = FALSE
  Stuck = {}

SPECIFICATION Spec

INVARIANTS
  TypeOK
  RegisteredUnlessContested
  HandoverComplete
  FoundUntilExpiry

PROPERTY OneConversation

CHECK_DEADLOCK FALSE
