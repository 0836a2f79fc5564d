SPECIFICATION Spec
CONSTANTS
  Size = 4
  IsBigEndian = TRUE
  None = None
  Requests <- AllRequests
  Loaded <- Stops
  Junk <- ZeroJunk
  Arguments <- IrqArguments
  MaxRequests = 3
  MaxIrqs = 2
INVARIANTS TypeOK MutualExclusion TraceClean TraceFaithful
PROPERTY IsAtomic
