SPECIFICATION MCSpec
CONSTANTS
  Size = 1
  IsBigEndian = TRUE
  Data = {0, 1}
  Addr <- BoundsAddr
  Unknown = Unknown
INVARIANT AccessInsideArray
