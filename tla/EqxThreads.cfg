SPECIFICATION FairSpec
CONSTANTS
    Routines = {"alu2", "push", "incr", "bad", "none"}
    MaxThreads = 2
    Regs <- TRegs
    Mem <- TMem
    InitMem = 0
    Addrs <- TAddrs
    Off = Off
    Word = 256
    StackSize = 2
    Ticks = {0, 1}
    Configs <- MCConfigs
    ExpectHashes = {0, 1}
    Pc <- TPc
    Sp <- TSp
    Insn <- TInsn
    ExecRegs <- TExecRegs
    ExecMem <- TExecMem
    EntryRegs <- TEntry
    HashInc <- THashInc
CHECK_DEADLOCK FALSE
INVARIANTS
    TypeOK
    RunqSound
    ExitHashIsSum
    CountsEveryInstruction
    QuantumBounded
    RoundRobinBalanced
PROPERTIES
    RunsAreBatches
    RunsReturn
