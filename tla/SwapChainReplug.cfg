SPECIFICATION Spec
CONSTANTS
  m1 = m1
  m2 = m2
  i1 = i1
  c1 = c1
  c2 = c2
  None = None
  Monitors <- TwoMonitors
  Ids <- OneId
  IdOf <- SameId
  Clients <- OneClient
  Sizes <- TwoSizes
  Slots = 2
  MaxChains = 2
  MaxFrames = 1
  DepartureWaits = TRUE
CHECK_DEADLOCK FALSE
INVARIANTS
  OneWriter
  WriterFits
SYMMETRY Symmetric
