SPECIFICATION Spec
CONSTANTS
  Size = 4
  IsBigEndian = TRUE
  Loaded <- AllCores
  Junk <- AnyJunk
  MaxCycles = 6
INVARIANT TypeOK
PROPERTIES DataProcessing PreIndexed StepFrame BranchTarget RunningOffResets ResetKeepsData
