CHECK_DEADLOCK FALSE
SPECIFICATION Spec
CONSTANTS
  daily = daily
  NoJob = NoJob
  Crons <- TwoCrons
  Channels = {"CTP"}
  MaxRev = 2
  MaxClears = 1
  MaxCrashes = 0
PROPERTIES
  StopSticks
