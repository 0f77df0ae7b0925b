SPECIFICATION HistorySpec
CONSTANTS
  N = 3
  Data = {zero, v1}
  Zero = zero
  Written <- AnyValue
  NoData = none
  ReadAt = {2}
  WriteAt = {1}
  CrashAt = {2}
  Faults = {"crash"}
  MaxOps <- WriterAndReader
  MaxCrashes = 1
VIEW HistoryView
INVARIANT Linearizable
