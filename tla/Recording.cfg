SPECIFICATION FairSpec

CONSTANTS
  Clients <- TwoClients
  Monitors <- OneMonitor
  IdLists <- AllOrOther
  Sessions <- TwoSessions
  Capacity = 2
  MaxSent = 2
  EncoderFails = TRUE
  NoSession = NoSession
  NoClient = NoClient
  c1 = c1
  c2 = c2
  m1 = m1
  m2 = m2
  s1 = s1
  s2 = s2

INVARIANTS
  NoEncoderForgotten
  EncoderDrained
  AtMostOneStray

PROPERTIES
  NoFrameAfterStop
  StopReplies
