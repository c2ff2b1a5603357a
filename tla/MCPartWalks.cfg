SPECIFICATION WalksSpec
CONSTANTS
    All = 12
    Targets = {0, 1, 2, 3, 4, 5, 6, 7}
    Disks <- AllDisks
    Capacity = 9
    MaxNum = 6
INVARIANTS EnumInv ListInv NumbersAgree
PROPERTIES WalksEnd
CHECK_DEADLOCK FALSE
