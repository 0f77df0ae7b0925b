SPECIFICATION FairSpec
CONSTANTS
  readproc = readproc
  writeproc = writeproc
  value2 = value2
  ack2 = ack2
  a = a
  b = b
  N = 3
  Self = 1
  Call = {readproc, writeproc, value2, ack2}
  Targets <- CallTargets
  Ident <- CallIdent
  After <- CallAfter
  Own = {a}
  CrashAt = {2, 3}
  MaxCrashes = 1
CHECK_DEADLOCK FALSE
INVARIANTS TypeOK SentOrKept
PROPERTY LinkDelivers
