---------------------------- MODULE LocalRoutines ----------------------------
(***************************************************************************)
(* The checker run on routines that do not disturb each other: what a      *)
(* routine finds in memory is what it finds there when it runs alone,      *)
(* because it uses its own stack, words that no other routine writes, or   *)
(* words that are only ever given the value it expects.  The checker       *)
(* compares a hash of every register of every step with the hash of an     *)
(* earlier run (eqx-threads.c:339-341, 486-502) and must not raise a false *)
(* alarm, no matter where it preempts and whom it runs next.               *)
(***************************************************************************)
EXTENDS EqxThreads

\* Solo(f, sp) is the run of routine f on its own, from a stack that ends at
\* sp: before each instruction, the register file, the running hash, and mems,
\* the memories the routine counts on.
CONSTANT Solo(_, _)

Point == [regs : Regs, hash : Hashes, mems : SUBSET Mem]

MemAfter(r, m) == IF Insn(r) = "step" THEN ExecMem(r, m) ELSE m
HashAfter(r, next, h) == IF Insn(r) = "step" THEN HashInc(next, h) ELSE h

\* What Solo(f, sp) has to be.
SoloRuns ==
    \A f \in Routines, sp \in StackEnds :
      LET s == Solo(f, sp)
          n == Len(s)
      IN  /\ s \in Seq(Point) /\ n \in Nat \ {0}
          /\ s[1].regs = EntryRegs(f, sp) /\ s[1].hash = 0 /\ InitMem \in s[1].mems
          /\ Insn(s[n].regs) \in {"exit", "illegal"}
          /\ \A i \in 1..(n - 1) :
               /\ Insn(s[i].regs) \in {"step", "putc"}
               /\ \A m \in s[i].mems :
                    /\ ExecRegs(s[i].regs, m) = s[i + 1].regs
                    /\ MemAfter(s[i].regs, m) \in s[i + 1].mems
               /\ Pc(s[i + 1].regs) # Pc(s[i].regs)
               /\ s[i + 1].hash = HashAfter(s[i].regs, s[i + 1].regs, s[i].hash)

\* No instruction of a routine takes from another thread what that counts on,
\* nor from a thread that has not started.  Two threads of one routine either
\* have no stacks or different ones.
NoInterference ==
    \A f, g \in Routines, a, b \in StackEnds :
      \A i \in 1..Len(Solo(f, a)), j \in 1..Len(Solo(g, b)) :
        LET p == Solo(f, a)[i]
            q == Solo(g, b)[j]
        IN  (i = 1 \/ a = 0 \/ <<f, a>> # <<g, b>>) =>
              \A m \in p.mems \cap q.mems : MemAfter(q.regs, m) \in p.mems

Undisturbed == SoloRuns /\ NoInterference

LastHash(s) == s[Len(s)].hash

SoloOf(t) == Solo(th[t].fn, th[t].stack_end)
SoloHash(t) == LastHash(SoloOf(t))

\* A client forks with no expected hash or with the one of an earlier run.
HonestFork ==
    ntids' # ntids =>
      LET new == th'[ntids]
      IN  new.expected_hash \in {0, LastHash(Solo(new.fn, new.stack_end))}

LocalNext == Next /\ HonestFork

LocalSpec == Init /\ [][LocalNext]_vars
-----------------------------------------------------------------------------
\* A mismatch is never reported (eqx-threads.c:486-502).
NoFalseAlarm == why # "mismatch"

\* Every thread that exits has the hash of its run alone, so the result of a
\* run depends on which threads ran and not on how they were interleaved.
ExitsWithSoloHash ==
    mode \in {"user", "return"} => \A t \in finished : th[t].reg_hash = SoloHash(t)

-----------------------------------------------------------------------------
(* The invariant behind both: every thread that has not finished stands    *)
(* somewhere on its solo run, and finds in memory what it counts on.       *)

StandsAt(t, i) ==
    /\ th[t].regs = SoloOf(t)[i].regs
    /\ th[t].reg_hash = SoloOf(t)[i].hash
    /\ IF FaultPending(t)
         THEN /\ i # Len(SoloOf(t))
              /\ Insn(SoloOf(t)[i].regs) = "step"
              /\ ureg = SoloOf(t)[i + 1].regs
              /\ mem \in SoloOf(t)[i + 1].mems
         ELSE mem \in SoloOf(t)[i].mems

OnSoloRun ==
    /\ \A t \in Tids : th[t].expected_hash \in {0, SoloHash(t)}
    /\ \A t \in Active : \E i \in 1..Len(SoloOf(t)) : StandsAt(t, i)
=============================================================================
