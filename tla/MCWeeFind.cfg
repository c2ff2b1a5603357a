SPECIFICATION Spec
CONSTANTS
    Hard <- TwoHard
    Floppy <- OneFloppy
    Removable = {"hd0"}
    Media <- SomeMedia
    Commands <- SomeCommands
    RootParts = {0, 9}
    DriveMaps <- SomeMaps
    Build127 = FALSE
    MaxChanges = 1
    MaxFaults = 1
INVARIANTS FindInv
PROPERTIES RootRestored FindEnds
