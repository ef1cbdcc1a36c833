----------------------------- MODULE Exceptions -----------------------------
(***************************************************************************)
(* How registers are saved and restored: the trampolines of                *)
(* full-except-asm.S, the dispatch of staff-full-except.c, switchto.h and  *)
(* switchto-asm.S, the mismatch breakpoint of breakpoint.c, and the code   *)
(* of eqx-threads.c that uses them.                                        *)
(*                                                                         *)
(* The CPU has a mode; sp and lr are banked by mode, and a privileged mode *)
(* has an spsr.  An exception is three steps: the hardware enters the      *)
(* handler's mode, the trampoline saves the registers on the one interrupt *)
(* stack, and the C code runs the handler and switches to saved registers. *)
(* Which thread runs next is EqxThreads' business and left open here.      *)
(***************************************************************************)
EXTENDS Integers, FiniteSets

CONSTANTS
    Threads,
    Vals,            \* contents of a register
    Files,           \* the registers a thread can have
    NextFiles(_),    \* those one instruction can turn them into
    Entry(_),        \* those eqx_regs_init gives a thread
    KernelVals,      \* contents of the client's callee-saved registers
    ClientPcs,       \* addresses the client can be at
    MaxPc,           \* bound on the addresses of a swi or of a data abort
    Junk,            \* what code leaves behind in a register it may use
    None

\* r0-r3 and r12 count as one register a, r4-r11 as one register c, the
\* condition flags of the cpsr as f.
ASSUME FilesAssumption ==
    /\ Files \subseteq [a : Vals, c : Vals, sp : Vals, lr : Vals, pc : Nat, f : Vals]
    /\ \A u \in Files :
         /\ NextFiles(u) \subseteq Files /\ \A v \in NextFiles(u) : v.pc # u.pc
         /\ u.pc < MaxPc => [u EXCEPT !.pc = @ + 1] \in Files
         /\ \A v \in KernelVals : [u EXCEPT !.a = v] \in Files
    /\ \A t \in Threads : Entry(t) \in Files
    /\ KernelVals \subseteq Vals /\ KernelVals # {} /\ ClientPcs \subseteq Nat
    /\ None \notin Threads \cup {"int"} /\ Threads \cap {"int", "start", "client"} = {}

\* Where registers are saved: the interrupt stack, start_regs, the thread blocks.
Places == {"int", "start"} \cup Threads
Modes == {"usr", "svc", "abt"}
Kinds == {"prefetch", "data", "swi"}

VARIABLES
    cpu,         \* a, c, pc, mode and flags
    sp, lr,      \* the banked registers, by mode
    spsr,
    mem,         \* the saved registers (regs_t), by place
    debug,       \* the debug registers
    single_step_on_p,
    handler,     \* the client's handlers, by kind of exception
    vector,      \* whose exception vector is installed
    exc,         \* the exception that is being handled, or "none"
    r,           \* its saved registers, or None
    cur, ready,  \* cur_thread and the threads in the run queue
    why,         \* what the panic was about
    was,         \* history: the registers when the exception came
    insts        \* history: instructions done since the mismatch was set

cpuVars == <<cpu, sp, lr, spsr>>
setupVars == <<handler, vector>>
debugVars == <<debug, single_step_on_p, insts>>
threadVars == <<cur, ready>>
vars == <<cpuVars, mem, debugVars, setupVars, exc, r, threadVars, why, was>>

\* A thread's registers, and what of the client's a call has to preserve.
UserFile == [a |-> cpu.a, c |-> cpu.c, sp |-> sp["usr"], lr |-> lr["usr"],
             pc |-> cpu.pc, f |-> cpu.f]
ClientFile == [c |-> cpu.c, sp |-> sp["svc"], pc |-> cpu.pc]

Runs == exc = "none" /\ why = "none"
UserRuns == Runs /\ cpu.mode = "usr"
ClientRuns == Runs /\ cpu.mode = "svc" /\ ~single_step_on_p

Panic(reason) ==
    /\ why' = reason
    /\ UNCHANGED <<cpuVars, mem, debugVars, setupVars, exc, r, threadVars, was>>
-----------------------------------------------------------------------------
(* Debug registers.                                                        *)

DebugRegs == [monitor : BOOLEAN,                         \* dscr bits 14 and 15
              bcr0 : {"off", "match", "mismatch"},
              bvr0 : Nat,
              moe : {"none", "breakpoint"},              \* dscr bits 2 to 5
              ifsr : {"none", "debug", "translation"}]

\* Fault: the new address is not written to bvr0.
SetKeepsAddress(pc) == [debug EXCEPT !.bcr0 = "mismatch"]

brkpt_mismatch_set(pc) == [debug EXCEPT !.bcr0 = "mismatch", !.bvr0 = pc]

cp14_is_enabled == debug.monitor

cp14_enable(d) == IF cp14_is_enabled THEN d ELSE [d EXCEPT !.monitor = TRUE]

\* With the mismatch already at the first thread's pc, and not at 0.
brkpt_mismatch_start(pc) == cp14_enable(brkpt_mismatch_set(pc))

\* The enable bit stays as it is.
brkpt_mismatch_stop == [debug EXCEPT !.bcr0 = IF @ = "off" THEN @ ELSE "match"]

\* Both statuses of ifsr have bit 10 clear, which is all was_brkpt_fault tests.
brkpt_fault_p == debug.moe = "breakpoint"

\* The core ignores a mismatch in privileged modes.
MayFetch ==
    debug.monitor => CASE debug.bcr0 = "mismatch" -> debug.bvr0 = cpu.pc
                       [] debug.bcr0 = "match"    -> debug.bvr0 # cpu.pc
                       [] OTHER                   -> TRUE
-----------------------------------------------------------------------------
(* The CPU: instructions of a thread, and exceptions.                      *)

UserInst ==
    /\ UserRuns /\ MayFetch
    /\ \E u \in NextFiles(UserFile) :
         /\ cpu' = [a |-> u.a, c |-> u.c, pc |-> u.pc, mode |-> "usr", f |-> u.f]
         /\ sp' = [sp EXCEPT !["usr"] = u.sp]
         /\ lr' = [lr EXCEPT !["usr"] = u.lr]
    /\ insts' = insts + 1
    /\ UNCHANGED <<spsr, mem, debug, single_step_on_p, setupVars, exc, r, threadVars, why, was>>

\* The link register is the address of the instruction plus offset instructions.
TakeException(kind, mode, offset) ==
    /\ vector = "full"
    /\ exc' = kind
    /\ was' = UserFile
    /\ lr' = [lr EXCEPT ![mode] = cpu.pc + offset]
    /\ spsr' = [spsr EXCEPT ![mode] = [mode |-> cpu.mode, f |-> cpu.f]]
    /\ cpu' = [cpu EXCEPT !.mode = mode]
    /\ UNCHANGED <<sp, mem, single_step_on_p, setupVars, r, threadVars, why>>

BreakpointFault ==
    /\ UserRuns /\ ~MayFetch
    /\ debug' = [debug EXCEPT !.moe = "breakpoint", !.ifsr = "debug"]
    /\ TakeException("prefetch", "abt", 1)
    /\ UNCHANGED insts

\* A fetch from an address without translation: the method of entry in the dscr
\* is still that of the last debug event.
FetchFault ==
    /\ UserRuns \/ ClientRuns
    /\ debug' = [debug EXCEPT !.ifsr = "translation"]
    /\ TakeException("prefetch", "abt", 1)
    /\ UNCHANGED insts

DataFault ==
    /\ (UserRuns /\ MayFetch) \/ ClientRuns
    /\ cpu.pc < MaxPc
    /\ TakeException("data", "abt", 2)
    /\ UNCHANGED <<debug, insts>>

Swi ==
    /\ (UserRuns /\ MayFetch) \/ ClientRuns
    /\ cpu.pc < MaxPc
    /\ TakeException("swi", "svc", 1)
    /\ insts' = insts + 1
    /\ UNCHANGED debug
-----------------------------------------------------------------------------
(* Trampolines.                                                            *)

\* Fault: the link register of an abort is saved as it is.
ReturnPcUnadjusted == lr[cpu.mode]

\* Fault: every abort is taken for a data abort.
ReturnPcMinusEight == IF exc = "swi" THEN lr[cpu.mode] ELSE lr[cpu.mode] - 2

ReturnPc == IF exc = "swi" THEN lr[cpu.mode] ELSE lr[cpu.mode] - 1

\* The registers, with the sp and lr of user mode whatever the mode was.
SavedRegs ==
    [a |-> cpu.a, c |-> cpu.c, sp |-> sp["usr"], lr |-> lr["usr"], pc |-> ReturnPc,
     mode |-> spsr[cpu.mode].mode, f |-> spsr[cpu.mode].f]

Trampoline ==
    /\ exc # "none" /\ r = None /\ why = "none"
    /\ mem' = [mem EXCEPT !["int"] = SavedRegs]
    /\ r' = "int"
    /\ sp' = [sp EXCEPT ![cpu.mode] = "int"]
    /\ lr' = [lr EXCEPT ![cpu.mode] = ReturnPc]
    /\ cpu' = [cpu EXCEPT !.a = Junk]
    /\ UNCHANGED <<spsr, debugVars, setupVars, exc, threadVars, why, was>>
-----------------------------------------------------------------------------
(* Switching to saved registers.                                           *)

\* Fault: the flags of whoever ran before stay.
RestoredOldFlags(s) == [a |-> s.a, c |-> s.c, pc |-> s.pc, mode |-> s.mode, f |-> cpu.f]

Restored(s) == [a |-> s.a, c |-> s.c, pc |-> s.pc, mode |-> s.mode, f |-> s.f]

\* switchto: to user mode the stack pointer of this mode is used to load the
\* registers, and left pointing to them.
switchto(s, place) ==
    /\ cpu' = Restored(s)
    /\ sp' = IF s.mode = "usr" THEN [sp EXCEPT !["usr"] = s.sp, ![cpu.mode] = place]
                               ELSE [sp EXCEPT ![s.mode] = s.sp]
    /\ lr' = [lr EXCEPT ![s.mode] = s.lr]
    /\ exc' = "none" /\ r' = None /\ was' = None

\* brkpt_run_one_inst.
RunOneInst(t, s) ==
    /\ cur' = t
    /\ debug' = brkpt_mismatch_set(s.pc)
    /\ insts' = 0
    /\ switchto(s, t)

\* eqx_schedule: go on with this thread or with one from the run queue.
Schedule(saved) ==
    \E t \in ready \cup {cur} :
      /\ ready' = (ready \cup {cur}) \ {t}
      /\ RunOneInst(t, saved[t])

\* Fault: the handler does not copy the registers to the thread.
NotCopied == mem

\* th->regs = *regs, in both handlers of eqx-threads.c.
Copied == [mem EXCEPT ![cur] = mem[r]]
-----------------------------------------------------------------------------
(* The C handlers.                                                         *)

Handles(kind) == exc = kind /\ r # None /\ why = "none"
FromUser == spsr[cpu.mode].mode = "usr"

\* prefetch_abort_full_except and equiv_single_step_handler.
PrefetchAbort ==
    /\ Handles("prefetch") /\ handler["prefetch"] = "eqx" /\ FromUser /\ brkpt_fault_p
    /\ mem' = Copied
    /\ Schedule(Copied)
    /\ UNCHANGED <<spsr, single_step_on_p, setupVars, why>>

\* data_abort_full_except, with a handler that returns.
DataAbort ==
    /\ Handles("data") /\ handler["data"] = "client" /\ FromUser
    /\ switchto(mem[r], r)
    /\ insts' = insts + 1
    /\ UNCHANGED <<spsr, mem, debug, single_step_on_p, setupVars, threadVars, why>>

\* syscall_full_except, with a handler that returns a value.
SyscallReturns ==
    /\ Handles("swi") /\ handler["swi"] = "client" /\ FromUser
    /\ \E v \in KernelVals : switchto([mem[r] EXCEPT !.a = v], r)
    /\ UNCHANGED <<spsr, mem, debugVars, setupVars, threadVars, why>>

\* syscall_full_except and equiv_syscall_handler.
SysPutc ==
    /\ Handles("swi") /\ handler["swi"] = "eqx" /\ FromUser
    /\ mem' = Copied
    /\ Schedule(Copied)
    /\ UNCHANGED <<spsr, single_step_on_p, setupVars, why>>

SysExit ==
    /\ Handles("swi") /\ handler["swi"] = "eqx" /\ FromUser
    /\ mem' = Copied
    /\ \/ /\ ready = {}
          /\ cur' = None
          /\ switchto(mem["start"], "start")
          /\ UNCHANGED <<ready, debug, insts>>
       \/ \E t \in ready :
            /\ ready' = ready \ {t}
            /\ RunOneInst(t, mem[t])
    /\ UNCHANGED <<spsr, single_step_on_p, setupVars, why>>

\* The panics of the three dispatchers and of the two handlers.  An abort that
\* came from a privileged mode: priv_get_sp_lr_asm, called to patch up sp and lr,
\* leaves the cpsr in r4, where the compiled dispatchers keep the pointer to the
\* saved registers, and the handler gets that.
ExceptionPanics ==
    \E kind \in Kinds :
      /\ Handles(kind)
      /\ \/ handler[kind] = "none" /\ Panic("unhandled exception")
         \/ handler[kind] # "none" /\ ~FromUser
              /\ Panic(IF kind = "swi" THEN "system call from privileged mode"
                                       ELSE "wild pointer")
         \/ handler[kind] = "eqx" /\ FromUser /\ kind = "swi" /\ Panic("illegal system call")
         \/ handler[kind] = "eqx" /\ FromUser /\ kind = "prefetch" /\ ~brkpt_fault_p
              /\ Panic("impossible: should get no other faults")
-----------------------------------------------------------------------------
(* The client.                                                             *)

\* full_except_install(0) and the handlers, in eqx_init.
EqxInit ==
    /\ ClientRuns
    /\ \/ /\ vector # "other"
          /\ vector' = "full"
          /\ handler' = [handler EXCEPT !["prefetch"] = "eqx", !["swi"] = "eqx"]
          /\ UNCHANGED <<cpuVars, mem, debugVars, exc, r, threadVars, why, was>>
       \/ vector = "other" /\ Panic("already have exception handlers installed")

\* full_except_install(1)
InstallOverride ==
    /\ ClientRuns
    /\ vector' = "full"
    /\ UNCHANGED <<cpuVars, mem, debugVars, handler, exc, r, threadVars, why, was>>

\* full_except_set_data_abort and full_except_set_syscall.
SetHandler(kind) ==
    /\ ClientRuns
    /\ handler' = [handler EXCEPT ![kind] = "client"]
    /\ UNCHANGED <<cpuVars, mem, debugVars, vector, exc, r, threadVars, why, was>>

ClientInst ==
    /\ ClientRuns
    /\ \E v \in KernelVals, pc \in ClientPcs : cpu' = [cpu EXCEPT !.c = v, !.pc = pc]
    /\ UNCHANGED <<sp, lr, spsr, mem, debugVars, setupVars, exc, r, threadVars, why, was>>

\* Fork or refork: eqx_regs_init, and into the run queue.
StartThread(t) ==
    /\ ClientRuns
    /\ t \notin ready
    /\ mem' = [mem EXCEPT ![t] = [a |-> Entry(t).a, c |-> Entry(t).c, sp |-> Entry(t).sp,
                                  lr |-> Entry(t).lr, pc |-> Entry(t).pc,
                                  mode |-> "usr", f |-> Entry(t).f]]
    /\ ready' = ready \cup {t}
    /\ UNCHANGED <<cpuVars, debugVars, setupVars, exc, r, cur, why, was>>

\* Fault: the callee-saved registers are not stored.
StartRegsNoCallee == [mem["start"] EXCEPT !.sp = sp["svc"], !.pc = cpu.pc, !.mode = "svc", !.f = cpu.f]

\* What cswitchto_user_asm stores; r0-r3, r12 and lr keep their old values.
StartRegs ==
    [mem["start"] EXCEPT !.c = cpu.c, !.sp = sp["svc"], !.pc = cpu.pc, !.mode = "svc", !.f = cpu.f]

\* The caller's registers into start_regs, and a switch to user mode.
switchto_cswitch(t) ==
    /\ mem' = [mem EXCEPT !["start"] = StartRegs]
    /\ switchto(mem[t], t)

\* eqx_run_threads, up to the switch to the first thread.  Its eqx_init_p is
\* that the handler is installed.
RunThreads ==
    /\ ClientRuns /\ handler["prefetch"] = "eqx"
    /\ single_step_on_p' = TRUE
    /\ \E t \in ready :
         /\ cur' = t /\ ready' = ready \ {t}
         /\ debug' = brkpt_mismatch_start(mem[t].pc)
         /\ insts' = 0
         /\ switchto_cswitch(t)
    /\ UNCHANGED <<spsr, setupVars, why>>

\* The rest of eqx_run_threads, back on the client's stack.
RunThreadsReturn ==
    /\ Runs /\ cpu.mode = "svc" /\ single_step_on_p
    /\ single_step_on_p' = FALSE
    /\ debug' = brkpt_mismatch_stop
    /\ UNCHANGED <<cpuVars, mem, insts, setupVars, exc, r, threadVars, why, was>>
-----------------------------------------------------------------------------
NoRegs == [a |-> Junk, c |-> Junk, sp |-> Junk, lr |-> Junk, pc |-> 0, mode |-> "svc", f |-> Junk]

Init ==
    /\ \E v \in KernelVals, pc \in ClientPcs :
         cpu = [a |-> Junk, c |-> v, pc |-> pc, mode |-> "svc", f |-> Junk]
    /\ sp = [m \in Modes |-> IF m = "svc" THEN "client" ELSE Junk]
    /\ lr = [m \in Modes |-> Junk]
    /\ spsr = [m \in Modes |-> [mode |-> "svc", f |-> Junk]]
    /\ mem = [p \in Places |-> NoRegs]
    /\ debug = [monitor |-> FALSE, bcr0 |-> "off", bvr0 |-> 0, moe |-> "none", ifsr |-> "none"]
    /\ single_step_on_p = FALSE /\ insts = 0
    /\ handler = [k \in Kinds |-> "none"] /\ vector \in {"none", "other"}
    /\ exc = "none" /\ r = None /\ was = None
    /\ cur = None /\ ready = {}
    /\ why = "none"

Hardware == UserInst \/ BreakpointFault \/ FetchFault \/ DataFault \/ Swi

Software ==
    \/ Trampoline \/ PrefetchAbort \/ DataAbort \/ SyscallReturns \/ SysPutc \/ SysExit
    \/ ExceptionPanics
    \/ EqxInit \/ InstallOverride \/ SetHandler("data") \/ SetHandler("swi") \/ ClientInst
    \/ \E t \in Threads : StartThread(t)
    \/ RunThreads \/ RunThreadsReturn

Next == Hardware \/ Software

Spec == Init /\ [][Next]_vars
-----------------------------------------------------------------------------
Client == "client"
Running == IF cur = None THEN Client ELSE cur

FileIn(s) == [a |-> s.a, c |-> s.c, sp |-> s.sp, lr |-> s.lr, pc |-> s.pc, f |-> s.f]

\* Where the registers of a context are: in the CPU and its banks, on the
\* interrupt stack, or in memory.
ThreadFile(t) ==
    CASE t # cur                        -> FileIn(mem[t])
      [] t = cur /\ exc = "none"        -> UserFile
      [] t = cur /\ exc # "none" /\ r = None -> FileIn(SavedRegs)
      [] OTHER                          -> FileIn(mem[r])

ContextFile ==
    [x \in Threads \cup {Client} |->
       IF x # Client THEN ThreadFile(x)
       ELSE IF cur = None THEN ClientFile
       ELSE [c |-> mem["start"].c, sp |-> mem["start"].sp, pc |-> mem["start"].pc]]

C == INSTANCE Contexts WITH
       Ctxs <- Threads \cup {Client}, file <- ContextFile, running <- Running

TypeOK ==
    /\ cpu.mode \in Modes /\ cpu.pc \in Nat
    /\ \A p \in Places : mem[p].mode \in {"usr", "svc"} /\ mem[p].pc \in Nat
    /\ debug \in DebugRegs /\ single_step_on_p \in BOOLEAN
    /\ handler \in [Kinds -> {"none", "eqx", "client"}]
    /\ vector \in {"none", "other", "full"}
    /\ exc \in Kinds \cup {"none"} /\ r \in {None, "int"}
    /\ cur \in Threads \cup {None} /\ ready \subseteq Threads

\* Every thread and the client has its registers to itself: whatever exceptions,
\* handlers and switches there are, in two privileged modes that share one
\* interrupt stack, no one finds a register changed that it did not change
\* (full-except-asm.S:96-181, staff-full-except.c:46-105, switchto-asm.S:36-132).
ContextsArePrivate == C!CSpec

\* A handler that is given the registers of a user-mode exception finds them all
\* as they were, and the pc at the instruction that did not execute; after a swi
\* or a data abort at the next (full-except-asm.S:96-181).
SavedAsInterrupted ==
    r # None /\ FromUser =>
      FileIn(mem[r]) = [was EXCEPT !.pc = IF exc = "prefetch" THEN @ ELSE @ + 1]

\* A thread is single-stepped from the first instruction of a run to the exit of
\* the last thread: a debug fault comes after exactly one instruction, and never
\* in the client (breakpoint.c:8-45, eqx-threads.c:224-237, 642-655).
SingleStepped ==
    /\ cpu.mode = "usr" => debug.monitor /\ debug.bcr0 = "mismatch" /\ single_step_on_p
    /\ exc = "prefetch" /\ debug.ifsr = "debug" => insts = 1 /\ cur # None

\* "the key property: if we call <switchto> on these saved registers execution
\* should resume in the right place --- for exceptions/interrupts exactly where
\* the exception occured, for the system call one instructon after"
\* (full-except-asm.S:12-16).
ResumesInRightPlace ==
    r # None => mem[r].pc = IF exc = "swi" THEN was.pc + 1 ELSE was.pc
=============================================================================
