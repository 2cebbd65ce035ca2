SPECIFICATION CostSpec
CONSTANTS
  Callers = {c1, c2}
  Kinds = {"probe", "post"}
  Threshold = 2
  Cooldown = 2
  Ttl = 1
  MaxCycles = 2
  MaxConfused = 1
SYMMETRY Symmetry
INVARIANTS PaidFailuresBounded BurstBounded
