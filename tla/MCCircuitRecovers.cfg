SPECIFICATION FairSpec
CONSTANTS
  Callers = {c1, c2}
  Kinds = {"probe", "post", "chat", "stream"}
  Threshold = 2
  Cooldown = 1
  Ttl = 0
INVARIANTS TypeOK
PROPERTIES Recovers
