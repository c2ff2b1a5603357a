SPECIFICATION Spec
CONSTANTS
    Bits = {1, 2}
    SumMax = 2
    Chunk = 2
    MaxBlocks = 5
    Disks <- SomeDisks
    Arguments <- SomeArguments
    Parts = {0, 1}
    MaxEvents = 2
INVARIANTS BootInv FileBoots
PROPERTIES BootEnds
