SPECIFICATION Spec
CONSTANTS
    Sections = {0, 1, 2}
    Tables = {"pt1", "pt2"}
    AsidOf <- MCAsidOf
    Vals = {"x", "y"}
    TlbSize = 1
    Uses <- MCUses
CHECK_DEADLOCK FALSE
INVARIANTS
    TypeOK
    TranslationsCurrent
    ReturnsInSync
    NoLostWrites
    KernelReachable
