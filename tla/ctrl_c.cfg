SPECIFICATION Spec
CONSTANTS
  MaxErrorSize = 3
  MaxRequests = 2
  MaxCorrupt = 0
  MaxStrays = 1
INVARIANT ExecutedOnceAfterCtrlC
CHECK_DEADLOCK FALSE
