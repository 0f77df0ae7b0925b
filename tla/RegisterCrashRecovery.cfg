SPECIFICATION Spec
CONSTANTS
  N = 3
  v1 = v1
  Data = {zero, v1}
  Zero = zero
  Written <- OwnValues
  NoData = none
  ReadAt = {2}
  WriteAt = {1, 2}
  CrashAt = {1}
  Faults <- AnyCrash
  MaxOps <- OneAtTwo
  MaxCrashes = 1
CONSTRAINT AnsweredOnce
ACTION_CONSTRAINT Changes
VIEW LiveView
INVARIANTS TypeOK RealTimeOrder CommittedAtMajority ReadIdentFresh UniqueTag
PROPERTY ImplementsTaggedRegister
