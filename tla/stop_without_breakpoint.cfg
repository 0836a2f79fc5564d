SPECIFICATION Spec
CONSTANTS
  Size = 4
  IsBigEndian = TRUE
  None = None
  Requests <- ContinueOnly
  Loaded <- Astray
  Junk <- BreakpointJunk
  Arguments <- IrqArguments
  MaxRequests = 1
  MaxIrqs = 0
INVARIANT StopsAtBreakpoint
