SPECIFICATION Spec
CONSTANTS
    Size <- Tracks
    SaveSize = 2
    WeeSize <- WeeTracks
    Tables <- TwoTables
    Managers <- ShortManagers
    Modes = {"install", "prev", "file"}
    DiskSize = 6
    MaxRuns = 3
    MaxFaults = 2
INVARIANTS TrackInv BackupKept FileRestored WeeInv
CHECK_DEADLOCK FALSE
