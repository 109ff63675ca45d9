SPECIFICATION CliSpec
CONSTANTS
  p1 = p1
  p2 = p2
  cli = cli
  Programs = {p1, p2, cli}
  Editors = {p1, cli}
  Shells = {cli}
  Ids <- TwoIds
  Names <- OneName
  Offered <- SomeMonitors
  Given <- SomeLists
  NewModes <- SomeModes
  Sizes <- TwoSizes
  Rates <- TwoRates
  Typed <- SomeTyped
  DefaultRate = 60
  Start <- OneMonitor
  MaxEdits = 2
  NoName = NoName
  NoId = NoId
INVARIANTS
  NeverRefused
  ListenerIsCurrent
PROPERTIES
  OnlyNamedRowsChange
