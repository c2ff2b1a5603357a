SPECIFICATION Spec
CONSTANTS
    hd0 = hd0
    hd1 = hd1
    m1 = m1
    m2 = m2
    Unit0 <- TwoDrives
    Drives = {hd0, hd1}
    Media = {m1, m2}
    Sectors = 5
    T = 2
    S = 2
    Disk0 <- SomeDisks
    Data <- SomeData
    Garbage <- NoByte
    Parts <- SomeParts
    Starts = {0, 1, 3}
    Offsets = {0, 3}
    Lengths = {0, 1, 5}
    Words = 16
    None = None
    MaxReqs = 2
    MaxFaults = 1
    MaxChanges = 1
INVARIANTS TrackInv
PROPERTIES KeepsPromise Answered
CHECK_DEADLOCK FALSE
