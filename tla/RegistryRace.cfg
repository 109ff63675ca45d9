SPECIFICATION Spec

CONSTANTS
  Clients <- TwoClients
  Writers <- TwoClients
  Ids <- OneId
  ModeLists <- OneMode
  Names <- OneName
  Objects <- ThreeObjects
  CreateFails = TRUE
  ArrivalFails = TRUE
  DepartureFails = TRUE
  SendsMalformed = TRUE
  NoClient = NoClient
  NoId = NoId
  NoEntry = NoEntry
  NoObject = NoObject
  NoMonitor = NoMonitor
  Malformed = Malformed
  c1 = c1
  c2 = c2
  c3 = c3
  i1 = i1
  i2 = i2
  o1 = o1
  o2 = o2
  o3 = o3
  m1 = m1
  m2 = m2
  n1 = n1
  n2 = n2

INVARIANTS
  TypeOK
  HandlesFaithful

SYMMETRY Symmetric
