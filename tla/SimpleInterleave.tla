-------------------------- MODULE SimpleInterleave --------------------------
(***************************************************************************)
(* simple_interleave_check: A and B are run alone, then A preempted after  *)
(* 1, 2, 3, ... instructions in favour of n_copies of B.                   *)
(***************************************************************************)
EXTENDS Harness

\* The checker_config_t of a call.
CONSTANT Checks

CheckerConfig ==
    [A : Routines, B : Routines, n_copies : Nat \ {0}, enable_stack : BOOLEAN]

ASSUME ChecksAssumption == Checks \subseteq CheckerConfig

VARIABLES
    c,
    th_A, th_B,   \* tids, 0 before the fork
    h_A, h_B,     \* hashes of the runs alone
    copies        \* tids of th[0..N-1], the copies of B, th_B first

checkVars == <<c, th_A, th_B, h_A, h_B, copies>>

svars == <<vars, loopVars, checkVars>>

N == c.n_copies
thsTwiceB == Append(copies, th_B)           \* Fault: B for A.
ths == Append(copies, th_A)                 \* th[0..N]
expected_hashNoFirst == (h_A + (N - 1) * h_B) % Word    \* Fault: off by one.
expected_hash == (h_A + N * h_B) % Word

SimpleInit ==
    /\ HarnessInit
    /\ c \in Checks
    /\ th_A = 0 /\ th_B = 0 /\ h_A = 0 /\ h_B = 0 /\ copies = <<>>

Start ==
    /\ at = "init"
    /\ EqxInit
    /\ at' = "config"
    /\ UNCHANGED <<todo, inst, mem0, cuts, checkVars>>

SequentialConfig ==
    /\ at = "config"
    /\ \E g \in Garbage : SetSchedulerConfig(Sequentially(g))
    /\ at' = "fork_A"
    /\ UNCHANGED <<todo, inst, mem0, cuts, checkVars>>
-----------------------------------------------------------------------------
(* A, then B, each alone.                                                  *)

ForkA ==
    /\ at = "fork_A"
    /\ ForkWith(c.enable_stack, c.A, 0)
    /\ th_A' = ntids
    /\ at' = "run_A"
    /\ UNCHANGED <<todo, inst, mem0, cuts, c, th_B, h_A, h_B, copies>>

RunA == Run("run_A", "done_A") /\ UNCHANGED checkVars

\* The result of the run of A, and the fork of B: with or without enable_stack
\* the code calls eqx_fork_nostack.
ForkB ==
    /\ at = "done_A" /\ InClient
    /\ h_A' = exit_hash
    /\ ForkNostack(c.B, 0)
    /\ th_B' = ntids
    /\ at' = "run_B"
    /\ UNCHANGED <<todo, inst, mem0, cuts, c, th_A, h_B, copies>>

RunB == Run("run_B", "done_B") /\ UNCHANGED checkVars

-----------------------------------------------------------------------------
(* N copies of B, and A at the head of the queue.                          *)

ReforkB ==
    /\ at = "done_B" /\ InClient
    /\ h_B' = exit_hash
    /\ ReforkCall(th_B)
    /\ copies' = <<th_B>>
    /\ at' = "fork_copies"
    /\ UNCHANGED <<todo, inst, mem0, cuts, c, th_A, th_B, h_A>>

ForkCopy ==
    /\ at = "fork_copies" /\ Len(copies) < N
    /\ ForkWith(c.enable_stack, c.B, h_B)
    /\ copies' = Append(copies, ntids)
    /\ UNCHANGED <<loopVars, c, th_A, th_B, h_A, h_B>>

ReforkA ==
    /\ at = "fork_copies" /\ Len(copies) = N
    /\ ReforkCall(th_A)
    /\ inst' = 1
    /\ at' = "x_refork"
    /\ UNCHANGED <<todo, mem0, cuts, checkVars>>

\* The type, which the code leaves as it was, and the seed, which nobody set.
SwitchAt ==
    /\ at = "x_refork" /\ todo = <<>>
    /\ SetSchedulerConfig([config EXCEPT !.type = "SEQUENTIAL", !.enable_interleave = TRUE,
                                         !.interleave_tid = th_A, !.switch_on_inst_n = inst])
    /\ at' = "x_run"
    /\ UNCHANGED <<todo, inst, mem0, cuts, checkVars>>

XRun == Run("x_run", "x_check") /\ UNCHANGED checkVars

Check ==
    /\ at = "x_check" /\ InClient
    /\ \/ /\ exit_hash # expected_hash
          /\ Panic("wrong sum of hashes")
          /\ UNCHANGED <<at, inst, todo>>
       \/ /\ exit_hash = expected_hash /\ complete_x_before_switch
          /\ at' = "done"
          /\ UNCHANGED <<vars, inst, todo>>
       \/ /\ exit_hash = expected_hash /\ ~complete_x_before_switch
          /\ inst' = inst + 1 /\ todo' = ths /\ at' = "x_refork"
          /\ UNCHANGED vars
    /\ UNCHANGED <<mem0, cuts, checkVars>>
-----------------------------------------------------------------------------
SimpleNext ==
    \/ Start \/ SequentialConfig
    \/ ForkA \/ RunA \/ ForkB \/ RunB
    \/ ReforkB \/ ForkCopy \/ ReforkA
    \/ ReforkTodo /\ UNCHANGED checkVars
    \/ SwitchAt \/ XRun \/ Check
    \/ RunStep /\ UNCHANGED checkVars

SimpleSpec == SimpleInit /\ [][SimpleNext]_svars

FairSimpleSpec == SimpleSpec /\ WF_svars(SimpleNext)
-----------------------------------------------------------------------------
\* The assertion after a run never fails: a copy whose hash differs stops the
\* machine before, and the hashes of the runs alone add up to the expected one
\* (interleave-checker.c:81, 96-100, eqx-threads.c:486-506).
SumAlwaysRight == why # "wrong sum of hashes"

\* No switch point of X is skipped, and the loop ends only after the last one
\* (interleave-checker.c:87-106).
CutsTried == EveryCutTried("x_check")

\* The runs with A preempted compare the hash of A and of every copy of B, and
\* the check fails on a refork only for a routine whose hash is 0
\* (interleave-checker.c:50-77, 87-92, eqx-threads.c:201-203).
ExitsCompared == EveryExitCompared({"x_check"})

\* "They are stateless, so each time we run them we should get the same
\* result" (interleave-checker.c:113-114): a routine that is run again in
\* another thread of the same check never has another hash.
SameResult == why # "mismatch"

\* A, at the head, then the copies of B, the last fork first.
QueueOrder == <<th_A>> \o Reverse(copies)

\* A run with A preempted after inst instructions computes what A's first inst
\* instructions, the copies of B, last fork first, and the rest of A compute
\* (interleave-checker.c:34-36, 87-100, eqx-threads.c:266-325, 474-515).
CutRunsAreSerial ==
    at = "x_check" /\ InClient =>
      LeftBy(QueueOrder) = CutRun(JobsOf(QueueOrder), inst, mem0)

\* The check itself, without stacks: A and the copies of B.
JobsFor == [k \in 1..(N + 1) |-> Job(IF k = 1 THEN c.A ELSE c.B, 0)]

\* Routines that leave the memory as they find it, alone and cut.
Restores ==
    /\ \A k \in 1..2 : Alone(JobsFor[k].fn, 0, InitMem).mem = InitMem
    /\ \A n \in 1..inst : CutRun(JobsFor, n, InitMem).mem = InitMem

\* The instructions of A after which it can be cut, and those tried so far.
CutPoints == (1..inst) \cup (1..Alone(c.A, 0, InitMem).cnt)

\* The copies of B, run in the middle of A, give one of them or A another hash
\* than it has alone.
RacyAt(n) == CutRun(JobsFor, n, InitMem).hashes # HashesAlone(JobsFor, InitMem)
Racy == \E n \in CutPoints : RacyAt(n)

\* The verdict on routines that leave the memory as they find it and need no
\* stack is right: the check succeeds when no cut of A by the copies of B
\* changes a hash and stops with a mismatch otherwise
\* (interleave-checker.c:39-109, eqx-threads.c:486-502).
VerdictIsRight ==
    (at = "done" \/ why = "mismatch") /\ ~c.enable_stack /\ Restores =>
      (why = "mismatch" <=> Racy)
=============================================================================
