SPECIFICATION FairSpec

CONSTANTS
  Copies <- ThreeCopies
  First = a
  MaxEvents = 3
  Breaks = TRUE
  Panics = TRUE
  a = a
  b = b
  c = c

INVARIANTS
  StreamOutlivesCopies
  QuietAfterAwait

PROPERTIES
  HeldCancelEnds
  AwaitTerminates

CHECK_DEADLOCK FALSE
