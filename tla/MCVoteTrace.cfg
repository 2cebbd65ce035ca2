SPECIFICATION Spec
CONSTANTS
  Pool = 1
  NoRequest = NoRequest
  MaxMessages = 2
  MaxPresses = 1
  MaxBreaks = 0
CHECK_DEADLOCK FALSE
INVARIANT VoteTracesItsReply
