SPECIFICATION Spec
CONSTANTS
    None = None
    Tables = {1, 2}
    Sections <- MCSections
    Vals <- MCVals
    code_start = 32768
    prog_end = 524288
    Rounds = 2
    MaxForks = 16
    ClientCalls <- MCClientCalls
INVARIANTS
    HeapInSegment
CHECK_DEADLOCK FALSE
