SPECIFICATION FairSpec
CONSTANTS
  c1 = c1
  c2 = c2
  d1 = d1
  d2 = d2
  None = None
  Connections <- TwoConnections
  Displays <- TwoDisplays
  Watched <- OneDisplay
  Sizes = {1}
  Slots = 3
  MaxMessages = 2
  MaxThreads = 3
  MaxFrames = 3
CHECK_DEADLOCK FALSE
INVARIANTS
  AnsweredInOrder
  OneCapturePerDisplay
  OvertakenReadIsWhole
PROPERTIES
  CommandsAnswered
