SPECIFICATION Spec
CONSTANTS
  Size = 4
  IsBigEndian = TRUE
  None = None
  Requests <- ContinueOnly
  Loaded <- Stops
  Junk <- ZeroJunk
  Arguments <- IrqArguments
  MaxRequests = 1
  MaxIrqs = 1
INVARIANT NoUseAfterFree
