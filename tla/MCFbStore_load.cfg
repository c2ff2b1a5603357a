SPECIFICATION Spec
CONSTANTS
    fa = fa
    fb = fb
    fc = fc
    dx = dx
    dy = dy
    Filler = Filler
    Term = Term
    Lba = Lba
    Blank = Blank
    Bytes <- AllBytes
    ItemBytes <- MixedSizes
    DataBegin = 1
    PriSize = 3
    TotalSize = 7
    PriBlock = 2
    ExtBlock = 3
    Names <- ThreeNames
    Datas <- PatchInputs
    Sizes <- PatchSizes
    Archives <- SomeArchives
    ListCap = 7
    GlobBuf = 3
    MaxCmds = 3
INVARIANTS ListFits
PROPERTIES RefinesFileStore CommandEnds
