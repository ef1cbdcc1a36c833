SPECIFICATION Spec
CONSTANTS
    Threads = {t1, t2}
    Vals <- MCVals
    Files <- MCFiles
    NextFiles <- MCNextFiles
    Entry <- MCEntry
    KernelVals <- MCKernelVals
    ClientPcs = {0}
    MaxPc = 1
    Junk = Junk
    None = None
CHECK_DEADLOCK FALSE
INVARIANTS
    TypeOK
    SavedAsInterrupted
    SingleStepped
PROPERTIES
    ContextsArePrivate
