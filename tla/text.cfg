SPECIFICATION Spec
CONSTANTS
  Size = 20
  IsBigEndian = TRUE
  HostIsBigEndian = FALSE
  MaxPacket = 160
  FloatWords = 1
  Requests <- Several
  Changes <- Some
  Pieces = {60}
  MaxRequests = 4
  MaxCorrupt = 1
INVARIANTS TypeOK AnswerWhole GdbKnows OneByteOrder
CHECK_DEADLOCK FALSE
