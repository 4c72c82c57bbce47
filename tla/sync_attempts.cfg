CHECK_DEADLOCK FALSE
SPECIFICATION FairSpec
CONSTANTS
  daily = daily
  NoJob = NoJob
  Crons <- TwoCrons
  Channels = {"CTP", "TQ"}
  MaxRev = 2
  MaxClears = 1
  MaxCrashes = 1
INVARIANTS
  TypeOK
  SyncedJob
  RebuildDone
  DeletedLeavesNothing
PROPERTIES
  EveryTargetTried
