SPECIFICATION FairSpec
CONSTANTS
  MaxErrorSize = 3
  MaxRequests = 3
  MaxCorrupt = 3
  MaxStrays = 4
INVARIANTS TypeOK ExecutedOnce AtMostOneMore
PROPERTY Answered
CHECK_DEADLOCK FALSE
