SPECIFICATION FairSpec
CONSTANTS
  T1 = T1
  T2 = T2
  T3 = T3
  NoThread = NoThread
  Threads = {T1, T2, T3}
  Plans <- RunPlans
  MaxAsks = 3
  MaxHandles = 4
  MaxFaults = 1
INVARIANTS
  IdleIsIdle
  StopReachesItsRun
PROPERTIES
  RefinesLedger
  EveryRequestEnds
CHECK_DEADLOCK FALSE
