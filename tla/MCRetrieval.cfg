SPECIFICATION Spec
CONSTANTS
  None = none
  Ids = {1, 2, 3}
  Files <- MCFiles
  Queries <- MCQueries
  Alias <- MCAlias
  TopK = 2
  PoolFactor = 4
  VecPool = 40
  RrfK = 60
  MaxEdits = 2
INVARIANTS TypeOK AnswersFit ProcedureRefreshes
PROPERTIES FusionKeepsOrder ImplementsDealSearch
