SPECIFICATION FairMultipleSpec
CONSTANTS
    Routines = {"alu2", "say", "push", "read", "write", "incr", "blip", "none"}
    MaxThreads = 3
    Regs <- TRegs
    Mem <- TMem
    InitMem = 0
    Addrs <- TAddrs
    Off = Off
    Word = 256
    StackSize = 2
    Ticks = {0, 1}
    Configs <- MCConfigs
    ExpectHashes = {0}
    Pc <- TPc
    Sp <- TSp
    Insn <- TInsn
    ExecRegs <- TExecRegs
    ExecMem <- TExecMem
    EntryRegs <- TEntry
    HashInc <- THashInc
    Garbage = {0, 7}
    Opts <- MCOpts
CHECK_DEADLOCK FALSE
INVARIANTS
    ErrorsNeverCounted
    CutsTried
    ExitsCompared
    CutRunsAreSerial
    VerdictIsRight
PROPERTIES
    KeepsContract
    Ends
