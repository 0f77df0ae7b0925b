SPECIFICATION Spec
CONSTANTS
  Sector = {s1, s2, s3}
  Worker = {w1, w2}
  PerFile = 2
  Faults = {"crash", "disk"}
  MaxTag = 2
  MaxJobs = 5
  MaxCrashes = 1
CHECK_DEADLOCK FALSE
INVARIANTS TypeOK RestartFindsMetadata
PROPERTY TagLoweredByRaceOnly
