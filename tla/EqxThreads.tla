----------------------------- MODULE EqxThreads -----------------------------
(***************************************************************************)
(* The preemptive, single-stepped threads of eqx-threads.c: fork, refork,  *)
(* the scheduler, the single-step and system-call handlers and             *)
(* eqx_run_threads.                                                        *)
(*                                                                         *)
(* One CPU runs either the client (the checker, in kernel mode) or one     *)
(* user thread.  A thread runs under a mismatch breakpoint: the CPU        *)
(* executes the instruction at the mismatch address and faults before the  *)
(* next instruction at any other address.  The fault handler counts and    *)
(* hashes the instruction and chooses the thread that runs next.           *)
(*                                                                         *)
(* The ARM instruction set, the registers and the memory are constants, so *)
(* that the model is one of every set of routines.                         *)
(***************************************************************************)
EXTENDS Integers, Sequences, FiniteSetsExt, Functions

CONSTANTS
    Routines,        \* a routine together with its argument
    MaxThreads,      \* bound on the number of forks
    Regs,            \* register files (regs_t)
    Mem, InitMem,    \* memory contents, and the one the checker starts with
    Addrs,           \* addresses a pc can hold
    Off,             \* the mismatch breakpoint is disabled
    Word,            \* number of values of a uint32_t
    StackSize,       \* eqx_stack_size
    Ticks,           \* readings of the microsecond timer
    Configs,         \* configurations a client may ask for
    ExpectHashes,    \* expected hashes a client may fork with
    Pc(_), Sp(_),    \* the pc and sp of a register file
    Insn(_),         \* what the instruction at the pc does: see InsnKinds
    ExecRegs(_, _),  \* registers and memory after executing that
    ExecMem(_, _),   \*   instruction in a given memory
    EntryRegs(_, _), \* registers at the entry of a routine, given its sp
    HashInc(_, _)    \* fast_hash_inc32: hash of a register file, continued

Hashes == 0..(Word - 1)
InsnKinds == {"step", "putc", "exit", "illegal"}   \* the last three are a swi
SchedulerTypes == {"ROUND_ROBIN", "EVERY_X", "RANDOM", "SEQUENTIAL", "ALL_PATHS"}

\* The stack of thread k starts at k * StackSize; a thread without one has 0.
StackEnds == {0} \cup {k * StackSize + StackSize : k \in 1..MaxThreads}

SchedulerConfig ==
    [type : SchedulerTypes, switch_on_inst_n : Nat, random_seed : Nat,
     enable_interleave : BOOLEAN, interleave_tid : Nat]

ASSUME BoundsAssumption ==
    /\ MaxThreads \in Nat
    /\ Word \in Nat \ {0}
    /\ StackSize \in Nat
    /\ Ticks # {} /\ Ticks \subseteq Nat
    /\ Configs \subseteq SchedulerConfig
    /\ ExpectHashes \subseteq Hashes
    /\ Regs # {} /\ InitMem \in Mem
    /\ Off \notin Addrs

ASSUME MachineAssumption ==
    /\ \A r \in Regs :
         /\ Pc(r) \in Addrs
         /\ Sp(r) \in Nat
         /\ Insn(r) \in InsnKinds
         /\ \A m \in Mem : ExecRegs(r, m) \in Regs /\ ExecMem(r, m) \in Mem
         /\ \A h \in Hashes : HashInc(r, h) \in Hashes
    /\ \A f \in Routines, sp \in StackEnds : EntryRegs(f, sp) \in Regs

\* struct eqx_th
Thread ==
    [regs : Regs, fn : Routines, stack_start : Nat, stack_end : StackEnds,
     inst_cnt : Nat, cumulative_inst_cnt : Nat,
     reg_hash : Hashes, expected_hash : Hashes]

VARIABLES
    th,          \* the thread control blocks, by tid
    ntids,       \* the next tid
    runq,        \* tids in the run queue, head first
    cur,         \* tid of cur_thread, 0 when there is none
    exit_hash,
    config,
    complete_x_before_switch,
    thread_x_has_yielded,
    init_p,      \* eqx_init was called
    mismatch,    \* address of the mismatch breakpoint, or Off
    mode,        \* who has the CPU: see Modes
    ureg,        \* the live registers of the CPU in user mode
    mem,
    why,         \* what the panic was about
    executed,    \* history: instructions executed since the (re)fork
    calls,       \* history: system calls returned from since the (re)fork
    finished     \* history: threads that exited in the current or last run

threadVars == <<th, ntids, executed, calls>>
flagVars   == <<complete_x_before_switch, thread_x_has_yielded>>
cpuVars    == <<mismatch, ureg, mem>>
runVars    == <<cur, exit_hash, finished>>
vars == <<threadVars, runq, runVars, config, flagVars, init_p, cpuVars, mode, why>>

Modes == {"client", "user", "return", "panic"}

Reasons == {
    "none", "called init twice", "did not initialize eqx", "empty run queue",
    "refork without expected hash", "random seed is zero",
    "sp is outside the stack", "illegal system call", "mismatch",
    "run queue should be empty",
    "eqx did not catch mismatch hash", "wrong sum of hashes" }   \* of the checkers

NoUserRegs == CHOOSE r \in Regs : TRUE     \* ureg while no thread runs

Tids == 1..(ntids - 1)
Queued == Range(runq)
-----------------------------------------------------------------------------
\* The globals of eqx-threads.c at boot, before eqx_init.
Init ==
    /\ th = <<>> /\ ntids = 1
    /\ executed = [t \in 1..MaxThreads |-> 0] /\ calls = executed
    /\ runq = <<>>
    /\ cur = 0 /\ exit_hash = 0 /\ finished = {}
    /\ config = [type |-> "ROUND_ROBIN", switch_on_inst_n |-> 0, random_seed |-> 10,
                 enable_interleave |-> FALSE, interleave_tid |-> 0]
    /\ complete_x_before_switch = FALSE /\ thread_x_has_yielded = FALSE
    /\ init_p = FALSE
    /\ mismatch = Off /\ ureg = NoUserRegs /\ mem = InitMem
    /\ mode = "client" /\ why = "none"

\* panic() and a failed assert() reboot the machine: nothing runs after them.
Panic(reason) ==
    /\ mode' = "panic" /\ why' = reason
    /\ UNCHANGED <<threadVars, runq, runVars, config, flagVars, init_p, cpuVars>>

-----------------------------------------------------------------------------
(* The calls of the client.  They run in kernel mode, between runs.        *)

EqxInit ==
    /\ mode = "client"
    /\ \/ /\ ~init_p
          /\ init_p' = TRUE
          /\ UNCHANGED <<threadVars, runq, runVars, config, flagVars, cpuVars, mode, why>>
       \/ init_p /\ Panic("called init twice")

NewThread(f, h, base, nbytes) ==
    [regs |-> EntryRegs(f, base + nbytes), fn |-> f,
     stack_start |-> base, stack_end |-> base + nbytes,
     inst_cnt |-> 0, cumulative_inst_cnt |-> 0,
     reg_hash |-> 0, expected_hash |-> h]

\* The new thread goes to the head of the run queue.
ForkStack(f, h, base, nbytes) ==
    /\ mode = "client"
    /\ ntids <= MaxThreads
    /\ ntids' = ntids + 1
    /\ th' = [t \in 1..ntids |-> IF t = ntids THEN NewThread(f, h, base, nbytes) ELSE th[t]]
    /\ executed' = [executed EXCEPT ![ntids] = 0] /\ calls' = [calls EXCEPT ![ntids] = 0]
    /\ runq' = <<ntids>> \o runq
    /\ UNCHANGED <<runVars, config, flagVars, init_p, cpuVars, mode, why>>

\* kmalloc_aligned gives every fork a stack of its own.
Fork(f, h) == ForkStack(f, h, ntids * StackSize, StackSize)

ForkNostack(f, h) == ForkStack(f, h, 0, 0)

\* Rerun a thread, "given a terminated thread": the code checks no more than
\* that it has an expected hash.
ReforkAsserts(t) ==
    /\ mode = "client"
    /\ th[t].expected_hash = 0
    /\ Panic("refork without expected hash")

\* Fault: the hash of the last run is not reset.
RestartedOldHash(t) ==
    [th EXCEPT ![t].regs = EntryRegs(th[t].fn, th[t].stack_end),
               ![t].inst_cnt = 0,
               ![t].cumulative_inst_cnt = 0]

\* Fault: the registers are those of the exit.
RestartedOldRegs(t) ==
    [th EXCEPT ![t].inst_cnt = 0, ![t].cumulative_inst_cnt = 0, ![t].reg_hash = 0]

Restarted(t) ==
    [th EXCEPT ![t].regs = EntryRegs(th[t].fn, th[t].stack_end),
               ![t].inst_cnt = 0,
               ![t].cumulative_inst_cnt = 0,
               ![t].reg_hash = 0]

\* Fault: without the assertion.
ReforkUnchecked(t) ==
    /\ mode = "client"
    /\ th' = Restarted(t)
    /\ executed' = [executed EXCEPT ![t] = 0] /\ calls' = [calls EXCEPT ![t] = 0]
    /\ thread_x_has_yielded' = FALSE
    /\ complete_x_before_switch' = FALSE
    /\ runq' = <<t>> \o runq
    /\ UNCHANGED <<ntids, runVars, config, init_p, cpuVars, mode, why>>

Refork(t) ==
    /\ mode = "client"
    /\ th[t].expected_hash # 0
    /\ th' = Restarted(t)
    /\ executed' = [executed EXCEPT ![t] = 0] /\ calls' = [calls EXCEPT ![t] = 0]
    /\ thread_x_has_yielded' = FALSE
    /\ complete_x_before_switch' = FALSE
    /\ runq' = <<t>> \o runq
    /\ UNCHANGED <<ntids, runVars, config, init_p, cpuVars, mode, why>>

SetSchedulerConfig(c) ==
    /\ mode = "client"
    /\ \/ /\ ~(c.type = "RANDOM" /\ c.random_seed = 0)
          /\ config' = c
          /\ UNCHANGED <<threadVars, runq, runVars, flagVars, init_p, cpuVars, mode, why>>
       \/ /\ c.type = "RANDOM" /\ c.random_seed = 0
          /\ Panic("random seed is zero")

\* Fault: the breakpoint is set when a run starts and not at a switch.
RunOneInstStale(r) ==
    /\ mismatch' = IF mismatch = Off THEN Pc(r) ELSE mismatch
    /\ ureg' = r
    /\ mode' = "user"

\* brkpt_run_one_inst: let the CPU execute one instruction with registers r.
RunOneInst(r) ==
    /\ mismatch' = Pc(r)
    /\ ureg' = r
    /\ mode' = "user"

\* eqx_run_threads, up to the switch to the first thread.
RunThreads ==
    /\ mode = "client" /\ init_p
    /\ runq # <<>>
    /\ exit_hash' = 0 /\ finished' = {}
    /\ cur' = Head(runq)
    /\ runq' = Tail(runq)
    /\ RunOneInst(th[Head(runq)].regs)
    /\ UNCHANGED <<threadVars, config, flagVars, init_p, mem, why>>

RunThreadsPanics ==
    /\ mode = "client"
    /\ \/ ~init_p /\ Panic("did not initialize eqx")
       \/ init_p /\ runq = <<>> /\ Panic("empty run queue")

\* eqx_run_threads, after the last thread switched back to start_regs.
RunThreadsReturn ==
    /\ mode = "return"
    /\ mismatch' = Off
    /\ cur' = 0
    /\ mode' = IF runq = <<>> THEN "client" ELSE "panic"
    /\ why' = IF runq = <<>> THEN why ELSE "run queue should be empty"
    /\ UNCHANGED <<threadVars, runq, exit_hash, finished, config, flagVars,
                   init_p, ureg, mem>>

-----------------------------------------------------------------------------
(* The scheduler.  T holds the thread control blocks as the handler leaves *)
(* them, usec is what the timer shows.                                     *)

IsX(t) == config.enable_interleave /\ t = config.interleave_tid

\* Fault: the count is compared before it is incremented.
XYieldsLate(T) == IsX(cur) /\ T[cur].cumulative_inst_cnt = config.switch_on_inst_n + 1

\* Fault: X is never preempted.
XNeverYields(T) == FALSE

XYields(T) == IsX(cur) /\ T[cur].cumulative_inst_cnt = config.switch_on_inst_n

\* Fault: one instruction too many.
QuantumUsedUp(T) ==
    ~IsX(cur) /\ config.type = "EVERY_X" /\ T[cur].inst_cnt > config.switch_on_inst_n

QuantumUsed(T) ==
    ~IsX(cur) /\ config.type = "EVERY_X" /\ T[cur].inst_cnt >= config.switch_on_inst_n

\* Fault: no case for ROUND_ROBIN.
SwitchesNoRoundRobin(T, usec) ==
    \/ XYields(T)
    \/ QuantumUsed(T)
    \/ ~IsX(cur) /\ config.type = "RANDOM" /\ usec % config.random_seed # 0

Switches(T, usec) ==
    \/ XYields(T)
    \/ ~IsX(cur) /\ config.type = "ROUND_ROBIN"
    \/ QuantumUsed(T)
    \/ ~IsX(cur) /\ config.type = "RANDOM" /\ usec % config.random_seed # 0

\* Fault: the head is read but stays in the queue.
RotatedKeepsHead == Append(runq, cur)

\* Fault: the preempted thread is not put back.
RotatedLosesCur == Tail(runq)

\* The run queue after the switch: the head is popped and cur goes to the tail.
Rotated == Append(Tail(runq), cur)

\* eqx_schedule: preempt cur for the thread at the head of the queue, if there
\* is one, or go on with cur.
Schedule(T) ==
    \E usec \in Ticks :
      /\ thread_x_has_yielded' = (thread_x_has_yielded \/ XYields(T))
      /\ th' = IF QuantumUsed(T) THEN [T EXCEPT ![cur].inst_cnt = 0] ELSE T
      /\ \/ /\ Switches(T, usec) /\ runq # <<>>
            /\ cur' = Head(runq)
            /\ runq' = Rotated
         \/ /\ ~(Switches(T, usec) /\ runq # <<>>)
            /\ UNCHANGED <<cur, runq>>
      /\ RunOneInst(T[cur'].regs)
      /\ UNCHANGED <<ntids, exit_hash, finished, config, complete_x_before_switch,
                     init_p, why>>

-----------------------------------------------------------------------------
(* The CPU in user mode, and the two exception handlers.                   *)

AtMismatch == mismatch \in {Off, Pc(ureg)}

\* The CPU executes an instruction that is not a swi.
UserInst ==
    /\ mode = "user"
    /\ AtMismatch
    /\ Insn(ureg) = "step"
    /\ ureg' = ExecRegs(ureg, mem)
    /\ mem' = ExecMem(ureg, mem)
    /\ executed' = [executed EXCEPT ![cur] = @ + 1]
    /\ UNCHANGED <<th, ntids, calls, runq, runVars, config, flagVars, init_p, mismatch,
                   mode, why>>

\* Fault: the registers are hashed before they are saved.
AfterStepOldRegs ==
    [th EXCEPT ![cur].regs = ureg,
               ![cur].inst_cnt = @ + 1,
               ![cur].cumulative_inst_cnt = @ + 1,
               ![cur].reg_hash = HashInc(th[cur].regs, @)]

\* equiv_single_step_handler: the next instruction is not the one at the
\* mismatch address, so the one there is complete.
AfterStep ==
    [th EXCEPT ![cur].regs = ureg,
               ![cur].inst_cnt = @ + 1,
               ![cur].cumulative_inst_cnt = @ + 1,
               ![cur].reg_hash = HashInc(ureg, @)]

SingleStep ==
    /\ mode = "user"
    /\ ~AtMismatch
    /\ Schedule(AfterStep)
    /\ UNCHANGED <<mem, executed, calls>>

\* equiv_syscall_handler.  trapped is the register file saved by the swi, whose
\* pc is the instruction after it.
trapped == ExecRegs(ureg, mem)

AtSwi(kind) == mode = "user" /\ AtMismatch /\ Insn(ureg) = kind

SpInStack == th[cur].stack_start <= Sp(trapped) /\ Sp(trapped) <= th[cur].stack_end

\* A swi is neither counted nor hashed.
SysPutc ==
    /\ AtSwi("putc") /\ SpInStack
    /\ Schedule([th EXCEPT ![cur].regs = trapped])
    /\ calls' = [calls EXCEPT ![cur] = @ + 1]
    /\ UNCHANGED <<mem, executed>>

AnyHashMatches == TRUE      \* Fault: the expected hash is never compared.
HashMatches == th[cur].expected_hash \in {0, th[cur].reg_hash}

\* Fault: the first exit does not record the hash.
ExpectsAsBefore == th[cur].expected_hash

\* What the next exit of the thread has to confirm.
ExpectsNext == th[cur].reg_hash

AddHashWide(sum, h) == sum + h      \* Fault: wider than a uint32_t.
LastHashOnly(sum, h) == h           \* Fault: assigned, not added.
AddHash(sum, h) == (sum + h) % Word

\* Fault: no other thread is popped, and eqx_schedule goes on with this one.
SysExitFallsThrough ==
    /\ AtSwi("exit") /\ SpInStack /\ HashMatches
    /\ Schedule([th EXCEPT ![cur].regs = trapped, ![cur].expected_hash = th[cur].reg_hash])
    /\ UNCHANGED <<mem, executed, calls>>

\* The thread records or confirms its hash and the next queued thread runs;
\* after the last one control goes back to eqx_run_threads.
SysExit ==
    /\ AtSwi("exit") /\ SpInStack /\ HashMatches
    /\ complete_x_before_switch' =
          (complete_x_before_switch \/ (IsX(cur) /\ ~thread_x_has_yielded))
    /\ thread_x_has_yielded' = (thread_x_has_yielded \/ IsX(cur))
    /\ th' = [th EXCEPT ![cur].regs = trapped, ![cur].expected_hash = ExpectsNext]
    /\ exit_hash' = AddHash(exit_hash, th[cur].reg_hash)
    /\ finished' = finished \cup {cur}
    /\ \/ /\ runq = <<>>
          /\ cur' = 0 /\ mode' = "return" /\ ureg' = NoUserRegs
          /\ UNCHANGED <<runq, mismatch>>
       \/ /\ runq # <<>>
          /\ cur' = Head(runq) /\ runq' = Tail(runq)
          /\ RunOneInst(th[Head(runq)].regs)
    /\ UNCHANGED <<ntids, executed, calls, config, init_p, mem, why>>

SyscallPanics ==
    /\ \E kind \in {"putc", "exit", "illegal"} : AtSwi(kind)
    /\ \/ ~SpInStack /\ Panic("sp is outside the stack")
       \/ SpInStack /\ Insn(ureg) = "illegal" /\ Panic("illegal system call")
       \/ SpInStack /\ Insn(ureg) = "exit" /\ ~HashMatches /\ Panic("mismatch")
-----------------------------------------------------------------------------
\* What happens between the client's call of eqx_run_threads and its return.
Machine ==
    \/ UserInst \/ SingleStep \/ SysPutc \/ SysExit \/ SyscallPanics
    \/ RunThreadsReturn

\* A client that reforks only threads that are not queued, as eqx_refork's
\* comment demands: in client mode these are the terminated ones.
Client ==
    \/ EqxInit \/ RunThreads \/ RunThreadsPanics
    \/ \E c \in Configs : SetSchedulerConfig(c)
    \/ \E f \in Routines, h \in ExpectHashes : Fork(f, h) \/ ForkNostack(f, h)
    \/ \E t \in Tids : t \notin Queued /\ (Refork(t) \/ ReforkAsserts(t))

Next == Client \/ Machine

Spec == Init /\ [][Next]_vars

\* The CPU does not stop in the middle of a run.
FairSpec == Spec /\ WF_vars(Machine)
-----------------------------------------------------------------------------
Active == (Queued \cup {cur}) \ {0}      \* forked or reforked, and not finished

TypeOK ==
    /\ ntids \in 1..(MaxThreads + 1)
    /\ th \in [Tids -> Thread]
    /\ executed \in [1..MaxThreads -> Nat] /\ calls \in [1..MaxThreads -> Nat]
    /\ runq \in Seq(Tids)
    /\ cur \in Tids \cup {0}
    /\ exit_hash \in Hashes
    /\ finished \subseteq Tids
    /\ config \in SchedulerConfig
    /\ complete_x_before_switch \in BOOLEAN /\ thread_x_has_yielded \in BOOLEAN
    /\ init_p \in BOOLEAN
    /\ mismatch \in Addrs \cup {Off} /\ ureg \in Regs /\ mem \in Mem
    /\ mode \in Modes /\ why \in Reasons

\* A thread is in the run queue at most once and never while it runs: the one
\* next field of a thread (eqx-threads.h:30) links it into one place, and the
\* scheduler pops a thread before it appends the preempted one
\* (eqx-threads.c:308-322).
RunqSound ==
    /\ IsInjective(runq)
    /\ cur \notin Queued
    /\ mode = "user" => cur # 0
    /\ mode \in {"client", "return"} => cur = 0
    /\ mode = "return" => runq = <<>>

\* Every run is a run of the abstract batch: no thread is lost or run twice
\* when threads are preempted, exit and are popped (eqx-threads.c:308-322,
\* 506-517, 631-669).
Phase ==
    CASE mode = "client" -> "idle"
      [] mode = "panic"  -> "stopped"
      [] OTHER           -> "running"

B == INSTANCE Batch WITH
       Ids <- 1..MaxThreads, waiting <- Active, phase <- Phase, total <- exit_hash

RunsAreBatches == B!BSpec

\* The result of a run is the sum of the final hashes of its threads, in
\* whatever order they were interleaved (eqx-threads.c:504-506).
ExitHashIsSum ==
    mode \in {"user", "return"} =>
      exit_hash = SumFunction([t \in finished |-> th[t].reg_hash]) % Word

\* The single-step machinery sees every instruction once: a thread's count is
\* the number of instructions the CPU executed for it, but for the one whose
\* mismatch fault is still to come.  It would break if the mismatch address
\* were not the pc of the thread switched to (eqx-threads.c:224-237, 374-395).
FaultPending(t) == mode = "user" /\ t = cur /\ ~AtMismatch

CountsEveryInstruction ==
    \A t \in Tids :
      executed[t] = th[t].cumulative_inst_cnt + (IF FaultPending(t) THEN 1 ELSE 0)

\* The saved registers of the running thread are those of the CPU, or those
\* before the instruction whose fault is pending.
StepsFromSaved ==
    mode = "user" =>
      /\ mismatch = Pc(th[cur].regs)
      /\ AtMismatch => ureg = th[cur].regs

\* A branch to itself never faults: the CPU stays at the mismatch address.
NoSelfBranch ==
    \A r \in Regs, m \in Mem : Insn(r) = "step" => Pc(ExecRegs(r, m)) # Pc(r)

\* With EVERY_X no thread but X runs more than its n instructions in one turn:
\* the count is reset at every switch, when the thread is preempted and when
\* it has no one to switch to (eqx-threads.c:296-301).
QuantumBounded ==
    config.type = "EVERY_X" =>
      \A t \in Active :
        IsX(t) \/ th[t].inst_cnt = 0 \/ th[t].inst_cnt < config.switch_on_inst_n

\* With SEQUENTIAL only X is ever suspended half-way: every other thread that
\* waits in the queue has not started (eqx-threads.c:266-283).
OnlyXSuspended ==
    config.type \in {"SEQUENTIAL", "ALL_PATHS"} =>
      \A t \in Queued :
        IsX(t) \/ th[t].regs = EntryRegs(th[t].fn, th[t].stack_end)

\* With ROUND_ROBIN and no X, the threads progress in step: none has had more
\* than one turn more than another one that still runs, whatever the order of
\* forks and exits.  An instruction takes a turn, and so does a system call
\* (eqx-threads.c:291-293, 308-322, 526).
Turns(t) == executed[t] + calls[t]

RoundRobinBalanced ==
    config.type = "ROUND_ROBIN" /\ ~config.enable_interleave /\ mode = "user" =>
      \A s, t \in Active : Turns(s) - Turns(t) <= 1

\* A run that was started returns to the client or panics: no schedule keeps
\* routines that terminate from terminating.
RunsReturn == mode = "user" ~> mode \in {"client", "panic"}
=============================================================================
