SPECIFICATION LocalSpec
CONSTANTS
    Routines <- LRoutines
    MaxThreads = 2
    Regs <- LRegs
    Mem <- LMem
    InitMem <- LInitMem
    Addrs <- LAddrs
    Off = Off
    Word = 256
    StackSize = 2
    Ticks = {0, 1}
    Configs <- MCConfigs
    ExpectHashes <- MCExpectHashes
    Pc <- LPc
    Sp <- LSp
    Insn <- LInsn
    ExecRegs <- LExecRegs
    ExecMem <- LExecMem
    EntryRegs <- LEntry
    HashInc <- LHashInc
    Solo <- MCSolo
CHECK_DEADLOCK FALSE
INVARIANTS
    NoFalseAlarm
    ExitsWithSoloHash
    OnSoloRun
