SPECIFICATION FairSpec
CONSTANTS
  Pool = 1
  NoRequest = NoRequest
  MaxMessages = 2
  MaxPresses = 2
  MaxBreaks = 2
INVARIANTS TypeOK ReplyInConversation AskedInTurn AskedOnce VotesCount
PROPERTY PageSettles
CHECK_DEADLOCK FALSE
