SPECIFICATION Spec
CONSTANTS
  Ids = {x1, x2}
  NoId = NoId
  Outcomes <- OneOutcome
  Asks <- AllAsks
  Stops = {"cancel", "terminate", "unlocked"}
  MaxRefreshes = 1
  MaxCrashes = 0
SYMMETRY Symmetry
INVARIANTS
  TypeOK
  ChannelExclusive
  StopIsHeard
  QueuedSlotIsReal
  IndexesNeverBite
PROPERTIES
  NeverReopened
