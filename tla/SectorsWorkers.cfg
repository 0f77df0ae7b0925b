SPECIFICATION Spec
CONSTANTS
  Sector = {s1}
  Worker = {w1, w2}
  PerFile = 2
  Faults = {"crash"}
  MaxTag = 2
  MaxJobs = 3
  MaxCrashes = 1
CHECK_DEADLOCK FALSE
INVARIANT ReadPairWritten
