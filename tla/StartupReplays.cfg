SPECIFICATION FairSpec
CONSTANTS
    RegistersNumber = 3
    Sector = {s1}
    Write = {w1}
    SectorOf <- OneSector
    NoWrite = NoWrite
    processes_count = 3
    MaxCrashes = 2
    s1 = s1
PROPERTY StartupEnds
CHECK_DEADLOCK FALSE
