SPECIFICATION FairSpec
CONSTANTS
  Addresses = 2
  MaxPieces = 4
INVARIANTS TypeOK ClaimsChecked StreamedReplyIsShown PageSettles InterventionsRecorded
PROPERTIES Settles
CHECK_DEADLOCK FALSE
