CHECK_DEADLOCK FALSE
SPECIFICATION FairSpec
CONSTANTS
  a = a
  b = b
  Symbols = {a, b}
  Worlds <- SmallWorlds
  Modes = {"cancel_pending"}
  MaxLegs = 2
  MaxFaults = 1
  NoSymbol = NoSymbol
INVARIANTS
  ReducedFirst
  SuccessIsTrue
  CleanedIsReported
  StopIsRecorded
PROPERTIES
  StopEndsTheRun
