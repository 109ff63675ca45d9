SPECIFICATION FairSpec

CONSTANTS
  Tasks <- TwoTasks
  Builder = t1
  Watcher = w
  Capacity = 2
  MaxChanges = 1
  MaxInFlight = 2
  Breaks = TRUE
  t1 = t1
  t2 = t2
  w = w

INVARIANTS
  AnswerNotTooOld
  WatcherKeepsUp

PROPERTIES
  RequestsReturn
