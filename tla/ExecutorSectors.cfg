SPECIFICATION FairSpec
CONSTANTS
  t1 = t1
  t2 = t2
  t3 = t3
  t4 = t4
  s1 = s1
  s2 = s2
  Register = {r1, r2}
  Sector = {s1, s2}
  Task = {t1, t2, t3, t4}
  Reads = {t3}
  Rejected = {t4}
  SectorOf <- TwoOnOneSector
  IdOf <- OwnIds
  NoTask = NoTask
  Leaving = {t1}
  MaxPeer = 2
CHECK_DEADLOCK FALSE
INVARIANTS TypeOK SectorInTurn RoutedToExecutor
PROPERTY GetsRegister
