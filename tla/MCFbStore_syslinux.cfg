SPECIFICATION Spec
CONSTANTS
    fa = fa
    fb = fb
    fc = fc
    dx = dx
    dy = dy
    Filler = Filler
    Term = Term
    Lba = Lba
    Blank = Blank
    Bytes <- AllBytes
    ItemBytes <- OneSize
    DataBegin = 1
    PriSize = 3
    TotalSize = 8
    PriBlock = 2
    ExtBlock = 3
    Names <- TwoNames
    Datas <- PatchInputs
    Sizes <- PatchSizes
    Archives <- NoArchives
    ListCap = 5
    GlobBuf = 3
    MaxCmds = 4
INVARIANT SyslinuxLocated
