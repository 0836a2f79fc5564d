SPECIFICATION Spec
CONSTANTS
  Size = 20
  IsBigEndian = TRUE
  HostIsBigEndian = FALSE
  MaxPacket = 160
  FloatWords = 1
  Requests <- Longest
  Changes <- Some
  Pieces = {60}
  MaxRequests = 40
  MaxCorrupt = 20
INVARIANT AnnouncedSizeAnswered
CHECK_DEADLOCK FALSE
