SPECIFICATION MCSpec
CONSTANTS
  Size = 1
  IsBigEndian = FALSE
  Data = {0, 1}
  Addr <- MCAddr
  Unknown = Unknown
INVARIANTS TypeOK KnownValues BytesInOrder
PROPERTY ImplementsValueStore
