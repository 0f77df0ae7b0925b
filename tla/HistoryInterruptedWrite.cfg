SPECIFICATION HistorySpec
CONSTANTS
  N = 2
  Data = {zero, v1}
  Zero = zero
  Written <- AnyValue
  NoData = none
  ReadAt = {2}
  WriteAt = {1, 2}
  CrashAt = {1}
  Faults = {"crash_writing"}
  MaxOps <- OneAndThree
  MaxCrashes = 1
VIEW HistoryView
CONSTRAINT InterruptedWrite
INVARIANT Linearizable
