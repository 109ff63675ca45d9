SPECIFICATION FairReportSpec

CONSTANTS
  Clients <- TwoClients
  Writers <- OneClient
  Ids <- OneId
  ModeLists <- TwoModes
  Names <- OneName
  Objects <- OneObject
  CreateFails = FALSE
  ArrivalFails = FALSE
  DepartureFails = TRUE
  SendsMalformed = FALSE
  ModeCount <- Counts
  Unknown = Unknown
  NoClient = NoClient
  NoId = NoId
  NoEntry = NoEntry
  NoObject = NoObject
  NoMonitor = NoMonitor
  Malformed = Malformed
  c1 = c1
  c2 = c2
  i1 = i1
  o1 = o1
  o2 = o2
  m1 = m1
  m2 = m2
  n1 = n1
  n2 = n2

INVARIANTS
  KnownIsCurrent
  TargetFilled

PROPERTIES
  ListenersCatchUp
