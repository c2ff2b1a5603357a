SPECIFICATION Spec
CONSTANTS
    fa = fa
    fb = fb
    fc = fc
    dx = dx
    dy = dy
    Filler = Filler
    Term = Term
    Lba = Lba
    Blank = Blank
    Bytes <- AllBytes
    ItemBytes <- OneSize
    DataBegin = 1
    PriSize = 4
    TotalSize = 8
    PriBlock = 1
    ExtBlock = 2
    Names <- ThreeNames
    Datas <- SmallInputs
    Sizes <- SmallSizes
    Archives <- NoArchives
    ListCap = 7
    GlobBuf = 2
    MaxCmds = 4
INVARIANTS BlocksInv LayoutInv MarksOK WritesAside
PROPERTY RefinesFileStore
SYMMETRY NameSymmetry
