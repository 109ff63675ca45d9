SPECIFICATION FairSpec
CONSTANTS
  m1 = m1
  m2 = m2
  i1 = i1
  c1 = c1
  c2 = c2
  None = None
  Monitors <- OneMonitor
  Ids <- OneId
  IdOf <- SameId
  Clients <- TwoClients
  Sizes <- OneSize
  Slots = 2
  MaxChains = 2
  MaxFrames = 3
  DepartureWaits = TRUE
CHECK_DEADLOCK FALSE
INVARIANTS
  StableReadIsWhole
  ChainsGivenBack
PROPERTIES
  CallbackEnds
