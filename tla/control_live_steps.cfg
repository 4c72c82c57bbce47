CHECK_DEADLOCK FALSE
SPECIFICATION FairSpec
CONSTANTS
  Ids = {x1, x2}
  NoId = NoId
  Outcomes <- OneOutcome
  Asks <- WithSteps
  Stops = {"cancel"}
  MaxRefreshes = 1
  MaxCrashes = 1
PROPERTIES
  DispatcherServes
