SPECIFICATION Spec
CONSTANTS
    fa = fa
    fb = fb
    fc = fc
    fd = fd
    Names <- FourNames
    ItemBytes <- Lengths
    Sectors = 3
    SectorBytes = 4
    Copying = {"whole"}
    MaxCmds = 3
INVARIANTS BufferInv ListCommitted BootSeesList PrefixSurvives
