SPECIFICATION FairSpec
CONSTANTS
  N = 3
  v1 = v1
  Data = {zero, v1}
  Zero = zero
  Written <- EitherValue
  NoData = none
  ReadAt = {1}
  WriteAt = {1}
  CrashAt = {3}
  Faults <- TornAndDiskErrors
  MaxOps <- OneAtFirst
  MaxCrashes = 2
PROPERTY OperationCompletes
