----------------------------- MODULE SerialRuns -----------------------------
(***************************************************************************)
(* What routines compute when they run one after the other, each on the    *)
(* memory that the one before it left, without threads, faults or a        *)
(* scheduler: the reference for what a run of eqx-threads.c computes.      *)
(***************************************************************************)
EXTENDS EqxThreads

\* A routine that stands somewhere: its registers, the hash and the number of
\* the instructions it has executed, and the memory.
State == [regs : Regs, hash : Hashes, cnt : Nat, mem : Mem]

At(f, sp, m) == [regs |-> EntryRegs(f, sp), hash |-> 0, cnt |-> 0, mem |-> m]

Step(s) ==
    LET r == ExecRegs(s.regs, s.mem)
    IN  IF Insn(s.regs) = "step"
          THEN [regs |-> r, hash |-> HashInc(r, s.hash), cnt |-> s.cnt + 1,
                mem |-> ExecMem(s.regs, s.mem)]
          ELSE [s EXCEPT !.regs = r]

Ended(s) == Insn(s.regs) \in {"exit", "illegal"}

\* From s to the end of the routine, or to its n-th instruction.
RunTo(s, n) ==
    LET run[u \in State] == IF Ended(u) \/ u.cnt = n THEN u ELSE run[Step(u)]
    IN  run[s]

Never == -1      \* as n: to the end

Alone(f, sp, m) == RunTo(At(f, sp, m), Never)

\* Where the routines of jobs stop, from memory m: the first one after n
\* instructions, the others at their end.
Stops(jobs, n, m) ==
    LET stop[k \in 1..Len(jobs)] ==
          IF k = 1 THEN RunTo(At(jobs[1].fn, jobs[1].sp, m), n)
          ELSE Alone(jobs[k].fn, jobs[k].sp, stop[k - 1].mem)
    IN  stop

\* The first routine runs for n instructions, then the others run one after
\* the other, then the rest of the first one.
CutRun(jobs, n, m) ==
    LET stop == Stops(jobs, n, m)
        last == RunTo([stop[1] EXCEPT !.mem = stop[Len(jobs)].mem], Never)
    IN  [hashes |-> [k \in 1..Len(jobs) |-> IF k = 1 THEN last.hash ELSE stop[k].hash],
         mem |-> last.mem]

HashesAlone(jobs, m) ==
    [k \in 1..Len(jobs) |-> Alone(jobs[k].fn, jobs[k].sp, m).hash]

\* The threads of the list q as such routines, and what a run of them has left.
Job(f, sp) == [fn |-> f, sp |-> sp]

JobsOf(q) == [k \in 1..Len(q) |-> Job(th[q[k]].fn, th[q[k]].stack_end)]

LeftBy(q) == [hashes |-> [k \in 1..Len(q) |-> th[q[k]].reg_hash], mem |-> mem]
=============================================================================
