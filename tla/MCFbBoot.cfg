SPECIFICATION BootSpec
CONSTANTS
    Base = 3
    DefBase = 2
    ByteValues = 8
    BootSize = 2
    GlobBuf = 1
    Tables <- SomeTables
    PriSize = 8
    DataStart = 9
    Versions <- TwoVersions
    MaxCmds = 2
    MaxHarm = 2
    DiskSize = 16
    ListUsed = 1
    Files <- SomeFiles
    PriBlock = 2
    ExtBlock = 3
    Bioses <- SomeBioses
    Cylinders = 3
    MaxSec = 4
    Mid = 2
    WordValues = 64
    MaxSpt = 4
    Foreign <- SomeWords
    TestSector = 11
    MaxFaults = 1
INVARIANTS FreshInv StageFound Restorable LoadInv
PROPERTIES IntactKept PartitionsKept LoadEnds
