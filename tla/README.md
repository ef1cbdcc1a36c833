# A verification development of the interleave checker

The repository is a small bare-metal system for the Raspberry Pi (ARM1176).  Its
program is the *interleave checker* in `src/interleave-checker/code`: it runs a
few routines as user-mode threads, one machine instruction at a time, hashes the
registers after every instruction, and compares the hash of a routine that was
interrupted by others with the hash of the same routine run alone.  A routine
whose hash changes depends on what the others do.

This directory holds TLA+ modules for the part of the program that decides
whether such a verdict means anything: the run queue, the single-stepped threads
and their scheduler, the two checkers that drive them, the exception and
context-switch code below the threads, and the page-table and MMU code that a
checker with virtual memory stands on.  TLC checks the
modules on small instances, TLAPS proves the theorems listed below for every
instance.  `PROJECT.json` is the machine-readable index: which lines each
definition models, which property each run checks, the fault that shows a
property can fail, and the hazards the properties are there for.

Source paths below are relative to `src/interleave-checker/code`.

## 1. Inventory

| Component | Files | State | Operations | Status |
|---|---|---|---|---|
| Run queue | `queue-ext-T.h` | `head`, `tail`, one `next` per thread | push, append, pop | modelled |
| Single-stepped threads | `eqx-threads.c/.h`, `eqx-syscalls.h` | thread blocks, `ntids`, `eqx_runq`, `cur_thread`, `exit_hash`, `config`, `complete_x_before_switch`, `thread_x_has_yielded`, `eqx_init_p` | `eqx_init`, `eqx_fork`, `eqx_fork_nostack`, `eqx_refork`, `set_scheduler_config`, `eqx_run_threads`; the single-step and system-call handlers, `eqx_schedule`; `eqx_init_w_vm` | modelled |
| `interleave_multiple` | `interleave-checker.c/.h` | locals of `run_single`, `interleave_x_with_others`, `interleave_multiple` | the three of them | modelled |
| `simple_interleave_check` | `interleave-checker.c` | its locals | itself | modelled |
| Mismatch breakpoint | `breakpoint.c/.h`, `armv6-debug-impl.h` | `single_step_on_p`, `bcr0`, `bvr0`, `dscr`, `ifsr` | start, stop, set, fault test | modelled but for the matching breakpoint and the watchpoint, which nothing here uses |
| Exceptions and context switch | `staff-full-except.c`, `full-except-asm.S`, `switchto*.{h,S}`, `syscall-invoke-asm.S` | the handlers, the vector base, the interrupt stack, banked registers | install, set a handler, three trampolines and dispatchers, `switchto`, `switchto_cswitch` | modelled |
| Page tables | `pt-vm.c/.h`, `armv6-vm.h`, `procmap.h`, `mem-attr.h`, `pinned-vm.h`, `memmap-default.h` | the first-level tables, the process map, the heap | alloc, dup, map, lookup, translate, map kernel, permissions | modelled |
| MMU, TLB and caches | `mmu.c/.h`, `mmu-internal.h`, `your-mmu-asm.S`, `cache-support.h`, `armv6-cp15.h`, `mmu-helpers.c` | cp15 registers, domain register, TLB, caches | reset, enable, disable, set context, sync of table changes, cache switches | modelled but for the switches of single caches |
| Register hash | `fast-hash32.h` | none | `fast_hash_inc32` | a constant of the model |
| Test programs | `../../archive/pt-tests`, `new-tests/`, `staff-start.S`, `expected-hashes.h` | none | programs of calls; routines given to the checkers | the ten programs of `pt-tests`; toy routines in `ToyMachine` for the others |
| Cooperative checker | `check-interleave.h` | none here | only a header; its implementation is not in the tree | not modelled |

`archive/tests` has earlier single-file clients of the threads, whose calls are
among those of the client in `EqxThreads`; `objs/` and the `.list` files are build
output.

**How the parts interact.**  A checker runs in kernel mode.  It forks threads
(each is pushed at the head of the run queue), chooses a scheduler configuration
and calls `eqx_run_threads`, which pops the first thread, sets the mismatch
breakpoint at its pc and switches to user mode.  From then on the code runs only
in exception handlers: the CPU executes the instruction at the mismatch address
and faults before the next one; the prefetch-abort handler saves the registers,
counts and hashes the instruction and calls `eqx_schedule`, which goes on with
this thread or pops the head of the queue and appends the thread it preempts.  A
`swi` comes to the system-call handler instead, without a fault for the `swi`
itself.  The last thread to exit switches back to the registers saved by
`eqx_run_threads`, which returns the sum of the hashes of all threads of the
run.  The checker then decides on the next run from that sum and from
`complete_x_before_switch`, which the handlers set.

A program that wants virtual memory calls `eqx_init_w_vm` first, which sets up a
heap, allocates a page table from it, maps the kernel's sections and one user
section over the heap's, makes the program manager of every domain and turns the
MMU on.  From then on every fork writes a stack and a thread block through that
mapping.

**What is hard about it.**
- *Interleaving.*  Threads share the memory and are cut at every instruction;
  the point of the program is that a cut at any instruction of X gives the
  result of some serial execution, and that it really tries every cut.
- *Ordering inside the handlers.*  Save, hash, count, test for a switch, pop,
  append, set the breakpoint: most orders compile and run, one is right.
- *One `next` field per thread.*  A thread that is pushed while it is queued or
  running makes a cycle or loses its successors.  Only the callers' discipline
  prevents it: `eqx_refork` cannot check "given a terminated thread".
- *State that outlives a run.*  The scheduler configuration, the yield flags,
  the expected hash and the instruction counts are read in the next run.
- *Termination.*  `simple_interleave_check` has no bound on its loop, and a
  routine must reach its exit under every scheduler.
- *The hardware behind the MMU code.*  Walks, evictions and the write buffer act
  between any two instructions of a routine; a missing barrier shows once in a
  long while.
- *Banked registers and one interrupt stack.*  Two privileged modes save into the
  same memory, a switch to user mode loads `sp` and `lr` of another mode by hand,
  and each kind of exception leaves the pc at another distance.
- *Bit fields.*  Permissions, memory types and domains have one layout in the
  attributes and another in the entry, and a wrong bit grants or denies silently.
- *Edges.*  Instruction number 0 and the last one, `>=` against `==` in the
  two switch tests, the `uint32_t` sum, hash 0 standing for "no hash yet".

**What makes each component correct.**
- Run queue: it implements a double-ended queue; tail is the last element, no
  cycle.
- Threads: a thread is in one place; every executed instruction is counted and
  hashed once, with the registers it left; nobody is lost or run twice in a run;
  the sum is right; each scheduler type switches when it should; a routine that
  does not depend on the others is never reported; runs return.
- Checkers: they use the threads as the interface demands; every switch point
  of X is tried and the loop ends; each run is equivalent to a serial one; the
  verdict is right.
- Exceptions: a thread is resumed with the registers it was stopped
  with, whatever ran in between on the one interrupt stack.
- MMU: after a change to the table has been synchronised no access
  uses the old entry; a change of address space never pairs the new ASID with
  the old table; disabling the MMU loses no dirty line.
- Page tables: the hardware grants of an address what it was last mapped with,
  whatever else was mapped, copied or switched; the programs that set tables up
  never take the ground from under themselves.

## 2. Modules

```
 Deque  <- refines -  LinkedQueue            (queue-ext-T.h)
 Batch  <- refines -  EqxThreads             (eqx-threads.c)
                       |- LocalRoutines      (routines that do not disturb each other)
                       '- SerialRuns         (what routines compute in turn)
                            '- Harness       (what both checkers do)
                                 |- InterleaveMultiple
                                 '- SimpleInterleave
 Contexts <- refines - Exceptions           (full-except-asm.S, switchto-asm.S,
                                             staff-full-except.c, breakpoint.c)
 Mmu                                        (your-mmu-asm.S, mmu.c, pt-vm.c)
 PageTables <- Vm <- VmPrograms             (pt-vm.c, armv6-vm.h, mem-attr.h, procmap.h,
                                             eqx_init_w_vm, archive/pt-tests)
 ToyMachine: an instruction set, for the MC modules
 *Proofs: theorems
```

| Module | What it is |
|---|---|
| `Deque` | the abstract queue: a sequence without repetition, elements enter at either end and leave at the head |
| `LinkedQueue` | `queue-ext-T.h` at the level of pointers: `head`, `tail` and the `next` fields. `Contents` follows the pointers; it is the refinement mapping to `Deque` |
| `Batch` | what a client may think a run is: threads wait, a run finishes them one by one in any order, it returns when none waits |
| `EqxThreads` | `eqx-threads.c`: one action per client call and per handler |
| `LocalRoutines` | `EqxThreads` restricted to routines that do not disturb each other: each has its solo run, a sequence of points with the registers, the hash and the memories the routine counts on there |
| `SerialRuns` | what routines compute when they run one after the other, without threads, faults or a scheduler: `Alone` for one of them, `CutRun` for a serial execution with one cut; the reference of the two checkers' properties, for any machine |
| `Harness` | program counter, loops and history variables the two checkers share |
| `InterleaveMultiple`, `SimpleInterleave` | the two checkers, one action per call they make, composed with the machine |
| `Mmu` | the MMU routines as sequences of instructions, with the page-table walker, the TLB, the data cache and the write buffer acting in between |
| `Contexts` | what a context switch promises: each context's registers change only while it has the CPU |
| `Exceptions` | a CPU with banked registers, the debug registers, the trampolines, dispatchers and switches, and the handlers of `eqx-threads.c` that call them |
| `PageTables` | the pure part of the page tables: entries, attributes, permissions, domain registers, the layout checks |
| `Vm` | the state behind them (heap, tables, cp15, domains, caches) and one action per routine, with its assertions |
| `VmPrograms` | `vm_map_kernel`, `eqx_init_w_vm` and the programs of `archive/pt-tests` as sequences of the calls of `Vm`, and a client that makes any call |
| `ToyMachine` | ten routines over one data register, a stack pointer and one shared word (`MCLocalRoutines` has a machine of its own, with stacks in memory) |
| `MC...` | values for the constants |

**State and code.**  `th[t]` is the thread block of tid `t` (`eqx-threads.h:28-54`)
without its `next`; `runq` is the sequence of tids in `eqx_runq`, which
`LinkedQueue` justifies; `cur` is `cur_thread`; `exit_hash`, `config` and the
flags are the globals of the same name; `mismatch` is the address in `bvr0`, or
`Off`; `ureg` and `mem` are what the CPU works on.  `mode` says who has the CPU:
the checker (`client`), a thread (`user`), the code after the context switch in
`eqx_run_threads` (`return`), or nobody because `panic` or a failed `assert`
rebooted the machine.  `why` names the panic.  `executed` and `calls` (the
instructions and the system calls of a thread since its last fork) and `finished`
are history variables.

**Actions and code.**  `UserInst` is the CPU executing an instruction at the
mismatch address.  `SingleStep` is the whole prefetch-abort handler with the
scheduler and the switch; `SysPutc`, `SysExit` and `SyscallPanics` are the
system-call handler.  Handlers run with interrupts off on one CPU, so a handler
is one action.  `RunThreads` and `RunThreadsReturn` are the two halves of
`eqx_run_threads`.  The instruction set is a set of constants (`Insn`,
`ExecRegs`, `ExecMem`, `HashInc`...): the model, and so the proofs, are about
every set of routines and every hash.  Each reading of the timer that the
`RANDOM` scheduler takes is a choice from `Ticks`.

A routine starts with `EntryRegs`, runs to a `swi`, and the model's `exit` is
the one that `eqx_fork` arranges in the return address.  `ExecRegs` at a `swi`
gives the registers the trap saves, the pc after the `swi`.

**`Mmu` and the code.**  A call puts the instructions of the routine in `code`;
`Instruction` executes the first of them, `Hardware` may act before each.  `cp15`
holds the registers as last written.  `stale` holds the values they had since the
last prefetch flush, any of which a walk may still use; `doomed` the TLB entries
that an invalidation without its DSB may have left; `btb` whether the branch
predictor may hold entries of another mapping.  A walk reads `mem`, while a store
goes to `dcache` or `wbuf` first.  `vm_map_sec` is three stores to the entry (the
tag, the not-global bit, the base), the order of the assignments; a compiler that
merges some of them gives fewer interleavings.  The hardware is not in the
repository: it is modelled as what the routines' comments and barriers say it may
do, and marked external in the map.  The client (`Kernel`) keeps to `mmu.h`:
initialise once and first, choose a table and an address space and map the
kernel's section in it before the MMU goes on, and load and store through a
changed table only after `mmu_sync_pte_mods`.  `hot`, `unsynced` and `last` are
history variables.

`use` is chosen once: which sections are data, which are cached and which
mappings the kernel makes.  `TwoSpaces` remaps with cached tables, `OneSection`
stores data through the cache (`pt-vm.c:172` maps the tables' section uncached).

**`Exceptions` and the code.**  `cpu` holds r0-r3 and r12 as one register `a`, the
callee-saved ones as `c`, the pc, the mode and the flags; `sp` and `lr` are
banked by mode.  `mem` holds the saved registers (`regs_t`) where the code keeps
them: on the interrupt stack, in `start_regs` and in the thread blocks.  An
exception is three steps: the hardware's entry, `Trampoline`, and the C code from
the dispatcher to the switch (`PrefetchAbort`, `DataAbort`, `SyscallReturns`,
`SysPutc`, `SysExit`, or `ExceptionPanics`).  Interrupts are off, but a fault may
come at any instruction of a thread or of the client.  Which thread runs next is
left open: it is `EqxThreads`' business, and what holds for every choice holds for
its scheduler.  A `swi` and a data abort are allowed at addresses below `MaxPc`.
`debug` is the few bits of `dscr`, `bcr0`, `bvr0` and `ifsr` that the code tests.
The hardware's part is external; the offsets of the link register (4 for a
prefetch abort, 8 for a data abort, the next instruction for a `swi`) are the
architecture's.

**`Vm` and the code.**  A program is a sequence of calls (`todo`), each a step:
`Mmu`'s `TranslationsCurrent` is what lets this module translate by the table.  A
call that asserts something has it in `Asserts`; `Panic` is the failure of the
first such call.  Sections stand for the addresses in them and hold one value;
heap addresses are bytes, so that alignment, exhaustion and the end of the
segment are exact.  `TEX`, `C`, `B`, `AP`, `APX`, `nG` and `domain` are fields of
an entry, packed and unpacked as `vm_map_sec` and `armv6-vm.h` do; the fields the
code leaves zero stay zero.  Whether a store that misses allocates a line is a
choice.  A program goes on only while its code and its stack are mapped
(`KernelRuns`).  `code_start` and `prog_end` are the linker's symbols, which two
assertions look at: the repository has no linker script, the programs start at
32 KB (`pt-tests/*.list`), and the 512 KB of the configurations is above the end of
each of them.  `5-new-test.c` maps no section in its second domain (`heap_pin_t` is not
used) and installs a prefetch handler that no fetch of the program calls; its data
abort handler gets the saved registers, as in its recorded output, which is of other
objects than the dispatcher that `Exceptions` models (section 6, `priv_get_sp_lr_asm`).

The checkers' `scheduler_config_t` has fields that nobody sets
(`interleave-checker.c:233-236`, `160-166`); the model takes any value from
`Garbage`.

## 3. Runs

| Run | Instance | Shows |
|---|---|---|
| `queue` | 4 elements, every sequence of operations | `Shape` and that the pointers implement `Deque` |
| `threads` | 2 threads, 5 routines, 8 configurations covering the types, with and without X, both outcomes of the timer; any client that keeps to the interface | the invariants of `EqxThreads`, that runs are batches, that runs return |
| `local_routines` | 2 threads, 3 routines: one reads a constant, one a word that only it writes, one its own stack; any client | no schedule makes such a routine mismatch |
| `interleave_multiple` | 1 to 3 routines, with and without stacks, every scheduler type, limits below and above the length of X | the checker's loop, its contract with the threads, and its verdict |
| `simple_interleave` | 23 pairs A, B with 1 or 2 copies of B | the same for the other checker |
| `mmu` | 2 address spaces, 3 sections, two uses: the same address mapped to different sections with cached tables, and a write-back section with 2 values | no stale translation after a sync or a switch, every routine returns with all it did in effect, no store is lost, the kernel is always found |
| `exceptions` | 2 threads of 2 instructions, every register with two contents, 2 contents of the client's registers, faults and `swi`s at address 0 | registers are saved and restored right, threads are single-stepped |
| `vm` | 13 programs: the ten of `pt-tests` with `Rounds` = 2, `eqx_init_w_vm` with and without caches and 15 forks, a client with 2 tables that maps one section in 6 ways | the tests pass, entries grant what was mapped, threads can run |
| `x_finishes_last`, `same_result` | one call each | two comments that the code contradicts, section 6 |
| `resumes_in_right_place` | as `exceptions` | another one |
| `heap_in_segment` | as `vm`, with a sixteenth fork | another one |

What each property says stands above its definition.  The ones that carry the
weight:

- `CountsEveryInstruction`: what the handlers counted is what the CPU executed,
  minus the instruction whose fault is still pending.
- `RunsAreBatches`: `EqxThreads` implements `Batch`.
- `NoFalseAlarm`, `ExitsWithSoloHash`: a routine that finds in memory what it
  finds there alone, because the others do not write it or write the same,
  exits with the hash of its solo execution, however it is scheduled.
- `RoundRobinBalanced`: with `ROUND_ROBIN` and no X, no thread is ever two turns
  (instructions or system calls) ahead of another that still runs.
- `CutsTried`: after the run for `i`, X was preempted at exactly its first `i`
  instructions, and the loop ends exactly after the last one.  Off-by-one
  errors in the scheduler or the loop show here.
- `ExitsCompared`: a checker comes to its runs of several threads with a hash for
  every thread, so none of their exits goes uncompared; and the only refork that is
  refused is that of a thread that ended with hash 0.
- `CutRunsAreSerial`: each of these runs computes what the reference execution
  `CutRun` computes, for every hash and for the memory.
- `VerdictIsRight`: for routines that restore the memory, "no errors" is reported
  exactly when no cut changes a hash.
- `KeepsContract`: the checkers are clients as `EqxThreads` assumes them; in
  particular no thread is reforked while it is queued.
- `TranslationsCurrent`: after any history of calls, once changes are
  synchronised, every TLB entry that an access can hit is what the table says.
- `NoLostWrites`: a section reads as what was stored in it last, through the
  cache or past it, while the MMU and the cache go on and off.
- `KernelReachable`: a walk through any table that may be in effect finds the
  kernel, also in the middle of a switch of address spaces.
- `ContextsArePrivate`: `Exceptions` implements `Contexts`; no thread, and not the
  client that called `eqx_run_threads`, finds a register changed that it did not
  change, the flags, `sp` and `lr` included.
- `SingleStepped`: a debug fault comes after exactly one instruction, through
  system calls and data aborts in between, and never in the client.
- `AccessAsMapped`: for every table, address, mode and access, what the hardware
  decides from the entry and the domain register is what the attributes of the
  last mapping say.
- `TestsPass`: no assertion of a test program fails, through hits, misses and
  write-backs.
- `ThreadsCanRun`: under `eqx_init_w_vm` user mode may fetch the code and write
  every stack, and no stack lies on another one or on the page table in use.
- `Ends`, `RunsReturn`: liveness.

**Bounds.**  Two threads exhibit every step of the scheduler (switch, nothing to
switch to, preempted X), three the order of more than one other thread; no
action depends on more than the head and the tail of the queue and on `cur`.
Routines have at most three counted instructions, which is more than the
thresholds of the configurations (1 and 2), so that each is met before, at and
after it.  `Word = 256` lets `exit_hash` wrap: the toy hashes are spread over the
whole range.  `Garbage` is `{0, 7}`: one value equal to and one different from
what the code would want.  `MaxThreads` bounds the forks; everything else in
`EqxThreads` is bounded by the routines.  `max_num_inst` is 10, above every
length, and 1 in one call, below.  In `Exceptions`, a
register with two contents per context is enough to tell whose it is, and two
threads with the client make every pair of contexts; `MaxPc` = 1 puts the
faults at an address that every thread passes again and again.  `Rounds` = 2
repeats a test's loop once, after which the state recurs; `MaxForks` = 15 is what
fits in the mapped megabyte, and 16 is one more.  The client of `Vm` maps with
each memory type and each permission, with an address space and globally, and
with two attributes that `pin_mk` and `vm_map_sec` must refuse.  In `Mmu`, `TlbSize` is 1: every entry is
walked and evicted at any time, and the properties are about single entries, so
that each entry a larger TLB could hold is met with every state of the rest.  Two
tables give every pairing of an ASID with another table.  There is no state constraint.

**Deadlock** is not checked where the system stops by itself: a panic or a
failed assertion reboots, and a checker ends.  `queue` checks it.

**Fairness.**  `FairSpec` has weak fairness of `Machine`, all the steps between
the client's call and its return; `FairMultipleSpec` and `FairSimpleSpec` have
weak fairness of the whole next-state relation.  There is one CPU, no other agent
and no interrupt: the only assumption is that the CPU executes its next
instruction.  No single handler or thread is given fairness of its own.

**Mutants.**  Each property of a passing run has, in `PROJECT.json`, a fault of
the code (operators whose comment starts with "Fault:") under which TLC finds the
property violated in the same run.

## 4. Theorems

All are theorems about the specifications above, for any constants that satisfy
the named assumptions.

| Module | Theorem | Establishes |
|---|---|---|
| `LinkedQueueProofs` | `QueueWellFormed` | `Spec => [](TypeOK /\ Shape)` |
| | `QueueIsDeque` | `Spec => ImplementsDeque`, the pointer queue implements the abstract one |
| `EqxThreadsProofs` | `TypeCorrect` | `Spec => []TypeOK` |
| | `RunQueueSound` | `Spec => []RunqSound`: a thread is in one place |
| | `RunsRefineBatch` | `Spec => RunsAreBatches` |
| | `RunsFromSaved`, `EveryInstructionCounted` | `Spec => []StepsFromSaved`, `Spec => []CountsEveryInstruction`, given `NoSelfBranch` |
| | `ResultIsSum` | `Spec => []ExitHashIsSum` |
| | `QuantumIsBounded`, `OthersRunWhole` | `Spec => []QuantumBounded`, `Spec => []OnlyXSuspended`: who is preempted, and when |
| | `RoundsAreFair` | `Spec => []RoundRobinBalanced`, given `NoSelfBranch` |
| `RoutineProofs` | `AlwaysOnSoloRun`, `NoFalseAlarms`, `ExitHashesAreSolo` | `LocalSpec => []OnSoloRun`, `[]NoFalseAlarm`, `[]ExitsWithSoloHash`, given `Undisturbed` |
| `InterleaveMultipleProofs` | `MultipleKeepsContract` | `MultipleSpec => KeepsContract`: the checker is a client as `EqxThreads` assumes it |
| | `NoErrorsCounted` | `MultipleSpec => []ErrorsNeverCounted` |
| | `MultipleTriesEveryCut` | `MultipleSpec => []CutsTried` |
| | `MultipleComparesExits` | `MultipleSpec => []ExitsCompared` |
| | `MultipleAccusesNobody` | `MultipleSpec => []NoFalseAlarm`, given `Undisturbed` |
| | `MultipleRunsAreSerial` | `MultipleSpec => []CutRunsAreSerial`, given `NoSelfBranch` |
| | `MultipleVerdictIsRight` | `MultipleSpec => []VerdictIsRight`, given `NoSelfBranch`: sound and complete for routines that restore the memory |
| `SimpleInterleaveProofs` | `SimpleKeepsContract` | `SimpleSpec => KeepsContract`, for clients with every configuration and hash |
| | `SumNeverWrong` | `SimpleSpec => []SumAlwaysRight` |
| | `SimpleTriesEveryCut` | `SimpleSpec => []CutsTried` |
| | `SimpleComparesExits` | `SimpleSpec => []ExitsCompared` |
| | `SimpleAccusesNobody` | no false alarm either, given `Undisturbed`, without stacks (with them there is one: `same_result`, section 6) |
| | `SimpleRunsAreSerial` | `SimpleSpec => []CutRunsAreSerial`, given `NoSelfBranch` |
| | `SimpleVerdictIsRight` | `SimpleSpec => []VerdictIsRight`, given `NoSelfBranch`; without stacks, as above |
| `ExceptionsProofs` | `TypesCorrect` | `Spec => []TypeOK` |
| | `SavedRegistersRight` | `Spec => []SavedAsInterrupted` |
| | `ContextsHaveOwnCpu` | `Spec => ContextsArePrivate`, switches implement `Contexts` |
| | `OneInstructionAtATime` | `Spec => []SingleStepped` |
| `MmuProofs` | `VmTypesCorrect` | `Spec => []TypeOK` |
| | `RoutinesReturnInSync` | `Spec => []ReturnsInSync` |
| | `KernelAlwaysReachable` | `Spec => []KernelReachable` |
| | `NoTranslationIsStale` | `Spec => []TranslationsCurrent` |
| | `StoresAreKept` | `Spec => []NoLostWrites` |
| `VmProofs` | `VmTypeCorrect` | `Spec => []TypeOK`: no field of an entry overflows, the heap is not exceeded |
| | `MappingsAreKept` | `Spec => []AccessAsMapped` |
| | `ThreadsRunInUserMode` | `Spec => []ThreadsCanRun`, for any number of forks |

**Assumptions.**  TLC evaluates all of them in the runs.
- Types of constants: `NullAssumption` (`LinkedQueue`), `BoundsAssumption` and
  `MachineAssumption` (`EqxThreads`), `GarbageAssumption` (`Harness`),
  `OptsAssumption` (`InterleaveMultiple`: at least one routine),
  `ChecksAssumption` (`SimpleInterleave`), `BoundsAssumption` of `VmPrograms` (both
  bounds are natural numbers), `VmAssumption` of `Mmu` (every table has
  an ASID of its own, from 1 to 63) and of `Vm` (sections are 0 to 4095).
- `ClientAssumption` (`InterleaveMultiple`): the client of `EqxThreads` may ask for
  all that the checker asks for.  The sets it speaks of bound TLC's exploration;
  `SimpleKeepsContract` says the same by taking all configurations and all hashes.
- `FilesAssumption` (`Exceptions`) gives the registers of threads their type, closed
  under what an instruction, a skipped one and a system call's result do to them,
  and has no instruction branch to itself.
- `CallsAssumption` (`VmPrograms`): the calls of the test programs and of the client
  have arguments of their types.  The programs are concatenations of concatenations,
  built by recursion in the community modules, so that TLC and not the prover shows
  it of them.
- Two hypotheses stand in the theorems themselves, because the rest of the system
  does without them.  `NoSelfBranch`: no instruction branches to itself; such an
  instruction never faults, and the thread would hang (`eqx-threads.c:225`).
  `Undisturbed` (`LocalRoutines`): `SoloRuns`, that `Solo` gives each routine's
  run alone, and `NoInterference`, that no instruction of one routine takes from
  another what it counts on in memory.  It allows shared words that are read only, or
  only given the value that is expected of them, and stacks.  `MCNoSelfBranch` and
  `MCUndisturbed` have TLC evaluate them in `threads` and `local_routines`.

**Arguments.**
- *Queue.*  `Shape` is inductive with the pointers' types; the refinement follows
  because each operation changes `Contents` at one end only.
- *`Inv == TypeOK /\ RunqSound`.*  `RunqSound` is not inductive without the types
  (the scheduler's pop and append need `runq` to be a sequence of tids), and
  `TypeOK` not without `RunqSound` (an exit with an empty queue leaves
  `cur = 0`, and `th[cur]` must be a thread in user mode).  The step proof has one
  case per action.  The first part of `EqxThreadsProofs` has what is needed on heads,
  tails and appends of injective sequences, on sums over finite sets, and on
  addition modulo a word.
- *`RunsRefineBatch`.*  `Active` is unchanged by every step but fork, refork and
  exit; injectivity of the queue and `cur \notin Queued` give that a
  switch rearranges it.
- *`StepInvariant`* for the instruction counts: `CountsEveryInstruction` is
  strengthened by `StepsFromSaved`, which ties the mismatch address to the saved
  pc of the running thread and the CPU's registers to the saved ones.  Without it
  a step could execute two instructions for one fault.
- *`RunResult`*: while a run goes on, `exit_hash` is the sum of the final hashes of
  the threads that have finished in it, modulo the word.  An exit adds one term to
  it and, because a run begins with no thread finished and a finished thread does not
  run, changes none of the others.  Sums over finite sets are folds of the community
  modules, that is recursive functions on the subsets of a set; that they add up
  (`SumsExist`, `SumIsFold`) is proved from a smallest subset on which they would not.
- *`TurnInv`* (`QuantumBounded`, `OnlyXSuspended`): between runs every queued thread
  is as its fork or refork left it (`Fresh`).  Without it a client could choose a
  configuration for a run in which some thread is in the middle of a quantum.
- *`LineInv`* (`RoundRobinBalanced`): along the queue the numbers of turns do not
  decrease, and each is that of the running thread or one more.  Balance alone
  is not inductive: it says nothing of the order in which the threads wait.
- *`LocalInv`*: every saved register file is the one on the solo run at the point
  where the thread stands, with its hash, and the memory is one the routine counts on
  there (`OnSoloRun`); a thread that has not started finds what it counts on whenever
  it will (`AllCanStart`); no two threads have one stack (`OwnStacks`).
- *The checkers.*  `MInv` and `SInv` say for each label of a checker who is queued,
  who has terminated, whose expected hash is recorded, and which point X is to be cut at
  (`AtLabels`).  At a refork, the threads forked before it in the loop are in the queue
  and the others are not, which is what `KeepsContract` needs.  `XKnown` says
  what became of X in a run: it was cut exactly at the point, or it is shorter; with
  `CutsSoFar` it gives `CutsTried`.  Machine steps keep the labels; that X goes
  first in its run is a fact on the head of the queue (`XIsNext`).
  `NoFalseAlarm` of a checker follows from `LocalInv` once its forks are known to
  be honest (`HonestFork`): the hash it expects of a thread is the final hash of a run
  of the same routine with the same stack, which `OnSoloRun` gives.
- *`IdleInv`* (`ExitsCompared`): a thread that is neither queued nor running has
  the hash of its last run for its expected one.  An exit makes it so, since it adopts
  the hash or finds it equal; fork and refork take the thread out of it.  A refused
  refork has thus met a thread that ended with hash 0, and a thread that has been
  reforked had a hash to compare with.
- *Runs in turn.*  `Along(q, J, n, m)` says how far a run with the queue `q`, the
  routines `J`, the cut `n` and the memory `m` at its start has come: X before its
  cut, the k-th of the others, the rest of X, or over; and in each of these that the
  registers, the hash, the count and the memory of whoever runs are those of a `State`
  of `SerialRuns` from which the reference still has the rest to go (`RunTo` of it is
  where the reference stops).  `SetUp` is the same before the run, for every queue in
  which all are fresh.  Each step of the machine moves the `State` by `Step` or goes
  over to the next routine (`AlongUserInst`, `AlongHandlerX`, `AlongExitOther`...);
  at the return `LeftIsCutRun` reads the result off.  This needs `TurnInv`, that the
  others are never suspended, and `StepInvariant`, that a fault comes after
  exactly one instruction.  `RunTo` and `Stops` are recursive functions; that they
  satisfy their equations (`RunToSteps`, `StopsSteps`) is proved on the functions
  themselves.  What they compute is never needed: the program is followed along
  them step by step.  A routine that does not end has no value under
  `RunTo`, and no run with it returns.  The order of the queue comes
  from the reforks, each of which pushes at the head (`QueuedSoFar`).
- *The verdict.*  `Right` says, as long as nobody has been accused and if the
  routines restore the memory: the memory is that of the boot whenever the client has
  the CPU, every expected hash is that of the routine alone, and every cut so far has
  changed no hash (`Agreed`).  A run that returns adds its cut to the latter
  (`RunAgrees`): it left the hashes of `CutRun`, and each passed the comparison with
  the expected one.  An accusation is at an exit, with a hash that `Along` gives, and
  shows a cut that changes it (`AccusesRacy`).  `simple_interleave_check` cuts A at
  every point of its run alone and stops at the first cut A does not reach; a later
  one would change nothing (`NoLaterCut`).
- *`Inv` of `Exceptions`.*  `Owners` says who has the CPU by its mode: a thread in
  user mode, or in a handler whose `spsr` is user mode, and the client otherwise;
  threads in the queue were saved in user mode and `start_regs` in the client's
  mode.  Without it a switch could load the registers of one mode into another.
  `Saved` says what the trampoline has, or is about to, put on the interrupt
  stack; `ThreadFiles` keeps the threads' registers in the assumption's domain.
  The refinement looks at each context before and after a step: `Executes` covers
  all steps of the running one, `ThreadSwitches` the handlers that copy from the
  interrupt stack and load from a thread block.
- *`Stepping`.*  A thread is at the mismatch address with no instruction done, or
  elsewhere with one; in a handler of a `swi` or a data abort, the exception came at
  the mismatch address.  The handlers that return without a new mismatch address
  keep this because they return one instruction further on.
- *`MemoryInv` of `Mmu`* is about the rest of the routine under way (`code`): what it
  leaves open, a barrier or a clean further on closes.  `InSync` has this for register
  writes, the TLB and the branch predictor and gives `ReturnsInSync`.  `Phases` and
  `CacheSafe` say what the rest of a routine may still be, and that the cache is not
  used before it is valid; `KernelMapped` and `KernelInMemory`, that the kernel's
  entry is in every table a register has or is about to get, and reaches memory
  before a walk can miss it.  `Settled` says that no store to a table waits in the cache or the write buffer,
  or the clean and the DSB for it are ahead; `Spaces` follows the nine instructions
  of a switch one by one through address space 0, so that no walk through one table
  is entered under the ASID of the other; `Whole`, that an entry stored in part is
  stored again in the same routine; `TlbCurrent`, that a TLB entry is what the table
  says, or an invalidation is ahead, or a change has not been synchronised.
  `Values` says that a section is what was last stored in it, wherever the value is.
- *`VmInv`*: an entry of a table is `Pte` of the mapping last asked for, or zero,
  through allocations and copies (`TableInv`).  What the hardware makes of an entry
  is then a fact about `Pte`: `EntryFields`, `EntryMemory` and `EntryRights` follow
  each attribute through the bits it is packed into, for every permission and memory
  type that `pin_mk` lets through.
- *`EquivInv`* follows the calls of `eqx_init_w_vm` one by one: `Made` counts those
  made, and after each the invariant says what it leaves for the threads, in the
  tables (`MappedAsInit`), the control registers (`ControlAsInit`) and the heap
  (`HeapAsInit`).  `EquivCalls` reads the seventeen calls off the concatenation that
  they are.  `StacksInv` holds for any number of forks because a thread block past
  the section mapped for the heap is at an address never mapped, where even a manager
  faults (`ManagerFaults`): the fork panics and no stack is added.  The same lemma
  makes every permission of the mapped sections immaterial to the threads.

**Only model-checked.**  Liveness (`RunsReturn`, `Ends`) is out of the prover's
reach.  `TestsPass` is about ten given programs, most of them some dozens of calls
long and with loops that the community modules' recursion unrolls; it is evaluated
rather than proved.

## 5. Not modelled, and why

- The threads of `EqxThreads` see one memory, without page tables: `ThreadsCanRun`
  and `AccessAsMapped` are about what lies under them.  The programs of `VmPrograms`
  run one call at a time; the interleavings with the hardware are in `Mmu`.
- Switches of single caches and of the branch predictor, `caches_all_off` and the
  timing in the tests of caches; nothing of the modelled programs depends on them.
- The pinning of TLB entries in `pinned-vm.h` and `procmap.h`: declared, and no
  implementation in the tree.
- The matching breakpoint and the watchpoint of `armv6-debug-impl.h`: unused.
- A handler of the program that changes the saved registers it is given, or that
  does not return: `EqxThreads`' own handlers are modelled.
- `fast-hash32.h` is a pure function of data; the properties need only that it is
  a function of the registers and the hash so far.
- Of `mmu-helpers.c`, printing and decoding.
- Printing, verbosity and `reg_dump` change no state.
- `eqx_verbose`, `eqx_trace`: output only.
- `check-interleave.h`: no code of it in the repository.
- Overflow of the 32-bit instruction counts needs 2^32 single steps.

## 6. Where code and comments disagree

Shown by a run that TLC must find violated:
- `x_finishes_last`: "then, run thread X to completion" (`eqx-threads.c:273-275`);
  with `ROUND_ROBIN`, X is appended when it yields, and is popped after one
  instruction of each other thread.
- `same_result`: "each time we run them we should get the same result"
  (`interleave-checker.c:113-114`).  With stacks, B's solo run has none
  (`interleave-checker.c:60` forks it without), its copies have stacks of their
  own, and the stack pointer is part of the hash: the copies mismatch.
- `resumes_in_right_place`: after an abort "execution should resume in the right
  place --- for exceptions/interrupts exactly where the exception occured"
  (`full-except-asm.S:12-16`); a data abort's trampoline takes 4 off the link
  register, like a prefetch abort's, where the hardware left 8, so a handler that
  returns skips the access (`full-except-asm.S:132`).
- `heap_in_segment`: "our kernel heap ... it's 1MB, so fits in a segment"
  (`memmap-default.h:63-65`); `eqx_init_w_vm` makes it 2 MB and maps one of them.
  The sixteenth fork with a stack has its thread block past the mapping.

Noticed, without a run:
- `eqx-threads.h:61` speaks of the xor of the hashes, the code adds them.
- `simple_interleave_check` does not look at `max_num_inst`.
- A reg hash or an expected hash of 0 means "none": a routine that exits before
  its first counted instruction has hash 0 and is never compared, and its refork
  fails the assertion (`eqx-threads.c:203`); the run `interleave_multiple` has a
  call that ends this way.  `ExitsCompared` says that a checker stops there and goes
  on to no run with such a thread.
- A `swi` is not counted, so X can be cut only after counted instructions; at a
  `putc` after its n-th instruction X's count is still n and it yields again.
- A thread that is preempted by `RANDOM` with seed 1 never switches
  (`usec % 1 = 0`).
- "Run each function in order" (`interleave-checker.c:229`, and `README.md:29`):
  each refork pushes at the head, so the sequential run goes last to first.
- "You must disable the Data Cache in the world before or at the same time of
  disabling the MMU" (`your-mmu-asm.S:178-181`); the instruction that would is
  commented out, and `mmu_disable_set` (`mmu.c:33-46`) leaves the cache bit as it
  was, writing it set again when it was on.
  `NoLostWrites` holds all the same: the cache is cleaned first and the CPU does
  not use it while the MMU is off.
- `was_brkpt_fault` (`armv6-debug-impl.h:224-238`) tests bit 10 of `ifsr`, which is clear
  for translation faults as well, and the method of entry in `dscr`, which keeps
  its value: a prefetch abort of another kind after the first breakpoint is taken
  for one (`breakpoint.h:24-27` promises the check).  `Exceptions` has this:
  `brkpt_fault_p` looks at the sticky bits only.
- `brkpt_mismatch_stop` (`breakpoint.c:9-17`) clears the mismatch bit and leaves the
  breakpoint enabled, which makes it a match at the last address, against
  `breakpoint.h:11`.  The Makefile links the staff's object instead of this file.
- `priv_get_sp_lr_asm` (`switchto-asm.S:17`) uses r4 without saving it, and the
  compiled dispatcher keeps its pointer to the saved registers there: an abort in
  privileged mode gives the handler a wild pointer.  `Exceptions` panics there.
- `full-except-asm.S:154` and `:162` warn "do not set sp!" in code that sets it.
- `eqx-threads.c:577` says "identity map 16th MB", the code maps 1 MB to 2 MB, over
  the kernel's heap section: kernel and threads see other memory at those
  addresses from the enabling on, and the page table itself is out of reach.  The
  forks that follow write there first, so nothing reads what was lost.
- `vm_mmu_init(~0)` (`eqx-threads.c:552`) makes the program manager of every domain:
  no permission of any mapping is checked.  Threads run in user mode from sections
  mapped for the kernel alone, so as clients they would fault; a mutant shows it.
- `pin_mk` demands `dom <= 16` (`pinned-vm.h:117`); the field has four bits.
- `vm_pte_print` asserts that printing is not off (`mmu-helpers.c:176`), and
  `vm_map_sec` calls it: mapping after `mmu_be_quiet` panics.
- A process map has 8 entries (`procmap.h:38`) and `2-test-procmap.c` fills the last;
  `procmap_default_mk` asserts a heap of 1 MB and would panic on the heap of
  `eqx_init_w_vm`.
- `new-tests/9-shared-array-should-fail.c` does fail, but not for the race its
  comments name: one routine uses the even elements, the other the odd ones, and
  each adds to what it reads, so the first rerun of the first routine, alone, has
  another hash.  `write` and `incr` of `ToyMachine` are of this kind.
- The routine that reads the flags in `new-tests/8-memory-reordering.c` has no effect
  and is compiled to a return (`8-memory-reordering.list`), so nothing is tested there.

## 7. Plan

Done: the queue, the threads, both checkers, exceptions and switches, page tables
and the programs on them, the MMU routines, their runs, and the 40 theorems of
section 4.  Every safety property of a passing run but `TestsPass` is a theorem;
so are `StepsFromSaved` and `OnlyXSuspended`, which the proofs need and no run lists:
what breaks them breaks `CountsEveryInstruction` and `CutRunsAreSerial`.

Next:
1. A refinement of what the checkers promise together: one abstract specification
   of "run every routine alone, then all, then with X cut at each point", which
   both implement.
2. `Mmu` with the routines that switch single caches.
3. `ThreadsCanRun` for any list of sections and any domain rights, not only those
   of `eqx_init_w_vm`.
