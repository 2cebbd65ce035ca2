SPECIFICATION Spec
CONSTANTS
  Callers = {c1, c2}
  Cost = 2
  Burst = 3
  MaxLag = 2
  MaxTime = 7
INVARIANTS TypeOK RateBounded
PROPERTIES PromiseKept
CHECK_DEADLOCK FALSE
