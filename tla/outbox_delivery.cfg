CHECK_DEADLOCK FALSE
SPECIFICATION OutboxFairSpec
CONSTANTS
  e1 = e1
  e2 = e2
  NoEvent = NoEvent
  Events <- TwoEvents
  Warnings <- OneWarning
  MaxInterrupts = 1
  MaxCrashes = 2
INVARIANTS
  AtMostOnce
PROPERTIES
  InOrder
  EveryEventEnds
