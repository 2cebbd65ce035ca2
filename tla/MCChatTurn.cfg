SPECIFICATION FairSpec
CONSTANTS
  Requests = {r1, r2}
  Window = 2
  MaxFaults = 1
  MaxCrashes = 1
INVARIANTS TypeOK ReadsEarlierContexts ReadsEarlierAnswers ShownIsStored AnswerHasContext
PROPERTIES Terminates
CHECK_DEADLOCK FALSE
