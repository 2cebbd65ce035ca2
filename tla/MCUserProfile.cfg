SPECIFICATION FairSpec
CONSTANTS
  c1 = c1
  c2 = c2
  Cards = {c1, c2}
  Catalog = {c1, c2}
  Keys = {1, 2}
  KeyOf <- MCKeyOf
  TopN = 1
  Wishes = {}
  Requests = {r1, r2}
  Ttl = 0
  MaxLag = 1
  MaxVotes = 2
  MaxBack = 1
  MaxMishaps = 1
INVARIANTS TypeOK
PROPERTIES OldVotesReflected RowFollows
