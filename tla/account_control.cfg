CHECK_DEADLOCK FALSE
SPECIFICATION FairSpec
CONSTANTS
  Ops <- TwoOps
  Risk = {"place"}
  Priority <- OrdersFirst
  Rules <- Limits
  Sharings = {TRUE, FALSE}
  Kinds <- Plans
  MaxAsks = 2
  MaxFaults = 1
INVARIANTS
  QuotaKept
  NoFalseAlarm
  RecordsComplete
PROPERTIES
  Served
