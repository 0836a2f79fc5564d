SPECIFICATION FairSpec
CONSTANTS
  Size = 4
  IsBigEndian = TRUE
  None = None
  Requests <- ServingRequests
  Loaded <- Stops
  Junk <- ZeroJunk
  Arguments <- IrqArguments
  MaxRequests = 2
  MaxIrqs = 1
PROPERTIES RequestAnswered InterruptDelivered Ends
