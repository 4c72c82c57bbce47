SPECIFICATION FairSpec
CONSTANTS
  Ids = {x1, x2}
  NoId = NoId
  Outcomes <- OneOutcome
  Asks <- NoSteps
  Stops = {"terminate"}
  MaxRefreshes = 0
  MaxCrashes = 1
INVARIANTS
  LedgerAgrees
PROPERTIES
  EveryRunEnds
  RefinesLedger
CHECK_DEADLOCK FALSE
