SPECIFICATION FairSpec
CONSTANTS
  Progress = {p1, p2}
  MaxEvents = 3
INVARIANTS TypeOK
PROPERTIES ImplementsEventStream DeliveredInFull
CHECK_DEADLOCK FALSE
