------------------------- MODULE InterleaveMultiple -------------------------
(***************************************************************************)
(* interleave_multiple: every routine is run alone a few times, then all   *)
(* of them one after the other, then, for each of them as X, all of them   *)
(* with X preempted after 1, 2, 3, ... instructions.                       *)
(***************************************************************************)
EXTENDS Harness

\* The routines and the interleave_opt_t of a call.
CONSTANT Opts

MultipleOpt ==
    [fns : Seq(Routines), enable_stack : BOOLEAN, max_num_inst : Nat,
     non_interleave_type : SchedulerTypes, random_seed : Nat]

\* Scheduler configuration of a run with thread t as X.
InterleaveConfig(o, t, n) ==
    [type |-> o.non_interleave_type, switch_on_inst_n |-> n,
     random_seed |-> o.random_seed, enable_interleave |-> TRUE, interleave_tid |-> t]

ASSUME OptsAssumption ==
    /\ Opts \subseteq MultipleOpt
    /\ \A o \in Opts : o.fns # <<>>

\* The client of EqxThreads may ask for what the checker asks for.
ASSUME ClientAssumption ==
    /\ 0 \in ExpectHashes
    /\ \A g \in Garbage : Sequentially(g) \in Configs
    /\ \A o \in Opts, t \in 1..MaxThreads :
         \A n \in Garbage \cup 1..(o.max_num_inst + 1) : InterleaveConfig(o, t, n) \in Configs

VARIABLES
    opt,
    ths,         \* tids of the threads, in the order of opt.fns
    reruns,      \* i of run_single
    solo_hash,   \* hash of run_single
    hash,        \* hash of the sequential run
    x,
    n_errors

callVars == <<opt, ths, reruns, solo_hash, hash, x, n_errors>>

mvars == <<vars, loopVars, callVars>>

MultipleInit ==
    /\ HarnessInit
    /\ opt \in Opts
    /\ ths = <<>> /\ reruns = 0 /\ solo_hash = 0 /\ hash = 0 /\ x = 1 /\ n_errors = 0

Start ==
    /\ at = "init"
    /\ EqxInit
    /\ at' = "fork"
    /\ UNCHANGED <<todo, inst, mem0, cuts, callVars>>

-----------------------------------------------------------------------------
(* run_single(3, ...) for every routine.                                   *)

Reruns == 3
Newest == ths[Len(ths)]

SingleFork ==
    /\ at = "fork"
    /\ ForkWith(opt.enable_stack, opt.fns[Len(ths) + 1], 0)
    /\ ths' = Append(ths, ntids)
    /\ reruns' = 0
    /\ at' = "single"
    /\ UNCHANGED <<todo, inst, mem0, cuts, opt, solo_hash, hash, x, n_errors>>

SingleRun == Run("single", "single_check") /\ UNCHANGED callVars

\* The check that the rerun has the same hash, and what comes next.
SingleCheck ==
    /\ at = "single_check" /\ InClient
    /\ solo_hash' = th[Newest].reg_hash
    /\ \/ /\ reruns > 0 /\ th[Newest].reg_hash # solo_hash
          /\ Panic("eqx did not catch mismatch hash")
          /\ UNCHANGED <<at, todo>>
       \/ /\ reruns = 0 \/ th[Newest].reg_hash = solo_hash
          /\ \/ reruns < Reruns /\ at' = "single_refork" /\ UNCHANGED todo
             \/ reruns = Reruns /\ Len(ths) < Len(opt.fns) /\ at' = "fork" /\ UNCHANGED todo
             \/ reruns = Reruns /\ Len(ths) = Len(opt.fns) /\ at' = "seq_refork" /\ todo' = ths
          /\ UNCHANGED vars
    /\ UNCHANGED <<inst, mem0, cuts, opt, ths, reruns, hash, x, n_errors>>

SingleRefork ==
    /\ at = "single_refork"
    /\ ReforkCall(Newest)
    /\ reruns' = reruns + 1
    /\ at' = "single"
    /\ UNCHANGED <<todo, inst, mem0, cuts, opt, ths, solo_hash, hash, x, n_errors>>

-----------------------------------------------------------------------------
(* The sequential run of all routines.                                     *)

SequentialConfig ==
    /\ at = "seq_refork" /\ todo = <<>>
    /\ \E g \in Garbage : SetSchedulerConfig(Sequentially(g))
    /\ at' = "seq_run"
    /\ UNCHANGED <<todo, inst, mem0, cuts, callVars>>

SequentialRun == Run("seq_run", "seq_done") /\ UNCHANGED callVars

SequentialDone ==
    /\ at = "seq_done" /\ InClient
    /\ hash' = exit_hash
    /\ at' = "x_start"
    /\ UNCHANGED <<vars, todo, inst, mem0, cuts, opt, ths, reruns, solo_hash, x, n_errors>>

-----------------------------------------------------------------------------
(* interleave_x_with_others.                                               *)

\* Fault: X is not left out of the loop over the others.
ReforkOrderXTwice == Append(ths, ths[x])

\* The order of the reforks: X last, which puts it at the head of the queue.
ReforkOrder == Append(RemoveAt(ths, x), ths[x])

XConfig(n) == InterleaveConfig(opt, ths[x], n)

XStart ==
    /\ at = "x_start"
    /\ \E g \in Garbage : SetSchedulerConfig(XConfig(g))
    /\ n_errors' = 0
    /\ inst' = 1 /\ todo' = ReforkOrder
    /\ cuts' = {}
    /\ at' = "x_refork"
    /\ UNCHANGED <<mem0, opt, ths, reruns, solo_hash, hash, x>>

XSwitchAt ==
    /\ at = "x_refork" /\ todo = <<>>
    /\ SetSchedulerConfig(XConfig(inst))
    /\ at' = "x_run"
    /\ UNCHANGED <<todo, inst, mem0, cuts, callVars>>

XRun == Run("x_run", "x_check") /\ UNCHANGED callVars

LastInst == complete_x_before_switch \/ inst >= opt.max_num_inst

XCheck ==
    /\ at = "x_check" /\ InClient
    /\ n_errors' = IF exit_hash # hash THEN n_errors + 1 ELSE n_errors
    /\ \/ /\ ~LastInst
          /\ inst' = inst + 1 /\ todo' = ReforkOrder /\ at' = "x_refork"
          /\ UNCHANGED x
       \/ LastInst /\ x < Len(ths) /\ x' = x + 1 /\ at' = "x_start" /\ UNCHANGED <<inst, todo>>
       \/ LastInst /\ x = Len(ths) /\ at' = "done" /\ UNCHANGED <<x, inst, todo>>
    /\ UNCHANGED <<vars, mem0, cuts, opt, ths, reruns, solo_hash, hash>>

-----------------------------------------------------------------------------
MultipleNext ==
    \/ Start
    \/ SingleFork \/ SingleRun \/ SingleCheck \/ SingleRefork
    \/ ReforkTodo /\ UNCHANGED callVars
    \/ SequentialConfig \/ SequentialRun \/ SequentialDone
    \/ XStart \/ XSwitchAt \/ XRun \/ XCheck
    \/ RunStep /\ UNCHANGED callVars

MultipleSpec == MultipleInit /\ [][MultipleNext]_mvars

\* One CPU runs the checker and the threads, and it does not stop.
FairMultipleSpec == MultipleSpec /\ WF_mvars(MultipleNext)
-----------------------------------------------------------------------------
\* The checker itself never finds a hash or a sum of hashes wrong: a thread
\* whose hash differs stops the machine when it exits, so what remains agrees
\* and adds up (eqx-threads.c:489-506, interleave-checker.c:122-137, 185-190).
ErrorsNeverCounted == n_errors = 0 /\ why # "eqx did not catch mismatch hash"

\* No switch point of X is skipped, and the loop ends only after the last one
\* (interleave-checker.c:168-208).
CutsTried == EveryCutTried("x_check")

\* The sequential run and the runs with X compare the hash of every thread, and
\* the call fails on a refork only for a routine whose hash is 0
\* (interleave-checker.c:122-137, 167-175, 230-232, eqx-threads.c:201-203).
ExitsCompared == EveryExitCompared({"seq_done", "x_check"})

\* The routines of the call in the order in which a run with X = i executes
\* them: X, then the others, the last of them first.
XFirstOf(q, i) == <<q[i]>> \o Reverse(RemoveAt(q, i))

\* Types with which the others run one after the other, none of them preempted.
Serial == opt.non_interleave_type \in {"SEQUENTIAL", "ALL_PATHS"}

\* With such a type, a run with X preempted after inst instructions computes
\* what X's first inst instructions, the others one after the other, and the
\* rest of X compute, for every thread's hash and for the memory
\* (eqx-threads.c:266-325, 474-515, interleave-checker.c:168-183).
CutRunsAreSerial ==
    at = "x_check" /\ InClient /\ Serial =>
      LET q == XFirstOf(ths, x)
      IN  LeftBy(q) = CutRun(JobsOf(q), inst, mem0)

\* The call itself: its routines with the stacks they get, and the switch
\* points of the loop, which tries at least one.
StackOf(i) == IF opt.enable_stack THEN i * StackSize + StackSize ELSE 0
JobsFor == [i \in 1..Len(opt.fns) |-> Job(opt.fns[i], StackOf(i))]
SwitchPoints == 1..(IF opt.max_num_inst = 0 THEN 1 ELSE opt.max_num_inst)

\* Routines that leave the memory as they find it, alone and cut.
Restores ==
    \A i \in 1..Len(opt.fns) :
      /\ Alone(JobsFor[i].fn, JobsFor[i].sp, InitMem).mem = InitMem
      /\ \A n \in SwitchPoints : CutRun(XFirstOf(JobsFor, i), n, InitMem).mem = InitMem

\* Some routine, cut somewhere by the others, gives one of them another hash
\* than it has alone.
Racy ==
    \E i \in 1..Len(opt.fns), n \in SwitchPoints :
      CutRun(XFirstOf(JobsFor, i), n, InitMem).hashes #
        HashesAlone(XFirstOf(JobsFor, i), InitMem)

\* The verdict on routines that leave the memory as they find it is right: the
\* checker ends without a mismatch exactly when no routine's hash is changed by
\* running the others in the middle of it, or it in the middle of them
\* (interleave-checker.c:213-255, eqx-threads.c:486-502).
VerdictIsRight ==
    (at = "done" \/ why = "mismatch") /\ Serial /\ Restores =>
      (why = "mismatch" <=> Racy)
=============================================================================
