CONSTANTS
    Target = {t1, t2}
    Adapter = {a1, a2}
    NULL = NULL
    MaxVersion = 3
    MaxResizes = 1
SPECIFICATION AdaptersSpec
SYMMETRY Symmetry
CHECK_DEADLOCK FALSE
INVARIANTS
    PictureCatchesUp
    OnlyOldHandlersMisuse
