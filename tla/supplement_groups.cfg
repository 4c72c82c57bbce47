CHECK_DEADLOCK FALSE
SPECIFICATION FairSpec
CONSTANTS
  Plan <- TwoThenOne
  NTickets = 2
  MaxRequests = 1
  MaxRoutes = 1
  MaxCrashes = 1
INVARIANTS
  CancelledNeverRuns
PROPERTIES
  StepsEnd
