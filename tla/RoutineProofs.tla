---------------------------- MODULE RoutineProofs ----------------------------
(***************************************************************************)
(* What the routines of the threads compute, for every machine.  The       *)
(* checker never reports a mismatch for routines that do not disturb each  *)
(* other, for any number of threads, any stacks, any scheduler             *)
(* configuration and any timer.  And a run whose threads execute one after *)
(* the other, but for X and its one cut, computes for any routines what    *)
(* SerialRuns says.                                                        *)
(***************************************************************************)
EXTENDS LocalRoutines, SerialRuns, EqxThreadsProofs, SequencesExt

FinishedIdle == mode \in {"user", "return"} => finished \cap Active = {}

\* Any routine may start: the memory is one it counts on at its entry.
AllCanStart == \A f \in Routines, sp \in StackEnds : mem \in Solo(f, sp)[1].mems

OwnStacks == \A t \in Tids : th[t].stack_end \in {0, t * StackSize + StackSize}

LocalInv ==
    /\ Inv /\ StepsFromSaved /\ OnSoloRun /\ AllCanStart /\ OwnStacks
    /\ FinishedIdle /\ ExitsWithSoloHash /\ NoFalseAlarm

\* The i-th point of a solo run is not the last, and the next one follows it.
Goes(s, i) ==
    /\ i # Len(s) /\ i + 1 \in 1..Len(s)
    /\ Insn(s[i].regs) \in {"step", "putc"}
    /\ \A m \in s[i].mems :
         /\ ExecRegs(s[i].regs, m) = s[i + 1].regs
         /\ MemAfter(s[i].regs, m) \in s[i + 1].mems
    /\ Pc(s[i + 1].regs) # Pc(s[i].regs)
    /\ s[i + 1].hash = HashAfter(s[i].regs, s[i + 1].regs, s[i].hash)

AtEnd(s, i) == i = Len(s) /\ Insn(s[i].regs) \in {"exit", "illegal"}

LEMMA SoloFacts ==
  ASSUME Undisturbed, NEW f \in Routines, NEW sp \in StackEnds
  PROVE  /\ Len(Solo(f, sp)) \in Nat \ {0} /\ 1 \in 1..Len(Solo(f, sp))
         /\ Solo(f, sp)[1].regs = EntryRegs(f, sp)
         /\ Solo(f, sp)[1].hash = 0 /\ InitMem \in Solo(f, sp)[1].mems
         /\ \A i \in 1..Len(Solo(f, sp)) :
              /\ Solo(f, sp)[i].regs \in Regs /\ Solo(f, sp)[i].mems \subseteq Mem
              /\ Goes(Solo(f, sp), i) \/ AtEnd(Solo(f, sp), i)
<1> DEFINE s == Solo(f, sp)
<1>1. /\ s \in Seq(Point) /\ Len(s) \in Nat \ {0}
      /\ s[1].regs = EntryRegs(f, sp) /\ s[1].hash = 0 /\ InitMem \in s[1].mems
      /\ Insn(s[Len(s)].regs) \in {"exit", "illegal"}
  BY DEF Undisturbed, SoloRuns
<1>2. \A i \in 1..(Len(s) - 1) :
        /\ Insn(s[i].regs) \in {"step", "putc"}
        /\ \A m \in s[i].mems :
             /\ ExecRegs(s[i].regs, m) = s[i + 1].regs
             /\ MemAfter(s[i].regs, m) \in s[i + 1].mems
        /\ Pc(s[i + 1].regs) # Pc(s[i].regs)
        /\ s[i + 1].hash = HashAfter(s[i].regs, s[i + 1].regs, s[i].hash)
  BY DEF Undisturbed, SoloRuns
<1> HIDE DEF s
<1>3. ASSUME NEW i \in 1..Len(s), i # Len(s)
      PROVE  i \in 1..(Len(s) - 1) /\ i + 1 \in 1..Len(s)
  BY <1>1, <1>3
<1>4. ASSUME NEW i \in 1..Len(s)
      PROVE  s[i] \in Point /\ (Goes(s, i) \/ AtEnd(s, i))
  BY <1>1, <1>2, <1>3 DEF Goes, AtEnd
<1>5. 1 \in 1..Len(s)
  BY <1>1
<1>6. \A i \in 1..Len(s) : s[i].regs \in Regs /\ s[i].mems \subseteq Mem
  BY <1>4 DEF Point
<1> QED BY <1>1, <1>4, <1>5, <1>6 DEF s

\* The same for the thread that has the CPU: it stands somewhere on its solo
\* run, and not at the end of it unless it is about to exit.
LEMMA CurStands ==
  ASSUME Undisturbed, LocalInv, mode = "user"
  PROVE  \E i \in 1..Len(SoloOf(cur)) :
           /\ StandsAt(cur, i)
           /\ AtMismatch => ureg = SoloOf(cur)[i].regs /\ mem \in SoloOf(cur)[i].mems
           /\ Goes(SoloOf(cur), i) \/ AtEnd(SoloOf(cur), i)
<1>1. /\ cur \in Tids /\ th[cur] \in Thread /\ cur \in Active
      /\ th[cur].fn \in Routines /\ th[cur].stack_end \in StackEnds
  BY UserFacts DEF LocalInv, Inv, RunqSound, Active, Thread
<1>2. PICK i \in 1..Len(SoloOf(cur)) : StandsAt(cur, i)
  BY <1>1 DEF LocalInv, OnSoloRun
<1>3. AtMismatch => ureg = SoloOf(cur)[i].regs /\ mem \in SoloOf(cur)[i].mems
  BY <1>2 DEF StandsAt, LocalInv, StepsFromSaved, FaultPending
<1> QED BY <1>1, <1>2, <1>3, SoloFacts DEF SoloOf

\* A thread whose registers, hash, routine and stack are left alone stays put
\* while the memory does.
LEMMA StandsAtFrame ==
  ASSUME NEW t, NEW i, StandsAt(t, i), ~FaultPending(t), ~FaultPending(t)', mem' = mem,
         th'[t].regs = th[t].regs, th'[t].reg_hash = th[t].reg_hash,
         th'[t].fn = th[t].fn, th'[t].stack_end = th[t].stack_end
  PROVE  StandsAt(t, i)' /\ SoloOf(t)' = SoloOf(t)
BY DEF StandsAt, SoloOf

\* Two threads of the same routine have different stacks or none.
LEMMA StacksApart ==
  ASSUME LocalInv, NEW t \in Tids, NEW u \in Tids, t # u
  PROVE  th[t].stack_end = 0 \/ <<th[t].fn, th[t].stack_end>> # <<th[u].fn, th[u].stack_end>>
<1> SUFFICES ASSUME th[t].stack_end # 0, th[t].stack_end = th[u].stack_end PROVE FALSE
  OBVIOUS
<1>1. t \in Nat /\ u \in Nat /\ StackSize \in Nat
  BY BoundsAssumption DEF LocalInv, Inv, TypeOK, Tids
<1>2. t * StackSize + StackSize = u * StackSize + StackSize /\ StackSize # 0
  BY <1>1 DEF LocalInv, OwnStacks
<1>3. t * StackSize = u * StackSize
  BY <1>1, <1>2
<1> QED BY <1>1, <1>2, <1>3
-----------------------------------------------------------------------------
LEMMA LocalUserInst ==
  ASSUME Undisturbed, LocalInv, UserInst
  PROVE  LocalInv'
<1>1. PICK i \in 1..Len(SoloOf(cur)) :
           /\ StandsAt(cur, i)
           /\ AtMismatch => ureg = SoloOf(cur)[i].regs /\ mem \in SoloOf(cur)[i].mems
           /\ Goes(SoloOf(cur), i) \/ AtEnd(SoloOf(cur), i)
  BY CurStands DEF UserInst
<1>2. /\ AtMismatch /\ Insn(ureg) = "step" /\ mode = "user" /\ mode' = "user"
      /\ ureg' = ExecRegs(ureg, mem) /\ th' = th /\ Tids' = Tids /\ Active' = Active
      /\ cur' = cur /\ finished' = finished /\ why' = why
      /\ mem' = MemAfter(ureg, mem)
  BY DEF UserInst, runVars, Tids, Active, Queued, MemAfter
<1>3. /\ Goes(SoloOf(cur), i) /\ ureg = SoloOf(cur)[i].regs
      /\ mem \in SoloOf(cur)[i].mems
  BY <1>1, <1>2 DEF AtEnd
<1>4. StepsFromSaved' /\ ~AtMismatch'
  <2>1. Pc(ExecRegs(ureg, mem)) # Pc(ureg)
    BY <1>3 DEF Goes
  <2> QED BY <2>1, UserInstSteps DEF LocalInv
<1>5. Inv'
  BY UserInstInv DEF LocalInv
<1>6. StandsAt(cur, i)'
  <2>1. SoloOf(cur)' = SoloOf(cur) /\ FaultPending(cur)' /\ ~FaultPending(cur)
    BY <1>2, <1>4 DEF SoloOf, FaultPending
  <2>2. /\ i # Len(SoloOf(cur)) /\ Insn(SoloOf(cur)[i].regs) = "step"
        /\ ureg' = SoloOf(cur)[i + 1].regs /\ mem' \in SoloOf(cur)[i + 1].mems
    BY <1>2, <1>3 DEF Goes
  <2>3. th[cur].regs = SoloOf(cur)[i].regs /\ th[cur].reg_hash = SoloOf(cur)[i].hash
    BY <1>1 DEF StandsAt
  <2> QED BY <1>2, <2>1, <2>2, <2>3 DEF StandsAt
<1>7. \A t \in Tids : th[t].fn \in Routines /\ th[t].stack_end \in StackEnds
  BY DEF LocalInv, Inv, TypeOK, Thread
<1>8. /\ cur \in Tids /\ th[cur].fn \in Routines /\ th[cur].stack_end \in StackEnds
      /\ Active \subseteq Tids /\ mem \in SoloOf(cur)[i].mems
  BY <1>2, <1>3, <1>7, UserFacts DEF LocalInv, Inv, TypeOK, Active, Queued, Range
<1>9. AllCanStart'
  <2>1. ASSUME NEW f \in Routines, NEW sp \in StackEnds PROVE mem' \in Solo(f, sp)[1].mems
    <3>1. 1 \in 1..Len(Solo(f, sp)) /\ mem \in Solo(f, sp)[1].mems
      BY SoloFacts DEF LocalInv, AllCanStart
    <3> QED BY <1>2, <1>3, <1>8, <3>1, Undisturbed DEF Undisturbed, NoInterference, SoloOf
  <2> QED BY <2>1 DEF AllCanStart
<1>10. OnSoloRun'
  <2>1. ASSUME NEW t \in Active, t # cur
        PROVE  (\E j \in 1..Len(SoloOf(t)) : StandsAt(t, j))'
    <3>1. PICK j \in 1..Len(SoloOf(t)) : StandsAt(t, j)
      BY DEF LocalInv, OnSoloRun
    <3>2. ~FaultPending(t)' /\ ~FaultPending(t)
      BY <1>2, <2>1 DEF FaultPending
    <3>3. mem \in SoloOf(t)[j].mems
      BY <3>1, <3>2 DEF StandsAt
    <3>4. \/ th[t].stack_end = 0
          \/ <<th[t].fn, th[t].stack_end>> # <<th[cur].fn, th[cur].stack_end>>
      BY <1>8, <2>1, StacksApart
    <3>5. mem' \in SoloOf(t)[j].mems
      BY <1>2, <1>3, <1>7, <1>8, <3>3, <3>4, Undisturbed DEF Undisturbed, NoInterference, SoloOf
    <3> QED BY <1>2, <3>1, <3>2, <3>5 DEF StandsAt, SoloOf
  <2>2. (\E j \in 1..Len(SoloOf(cur)) : StandsAt(cur, j))'
    BY <1>2, <1>6 DEF SoloOf
  <2> QED BY <1>2, <2>1, <2>2 DEF LocalInv, OnSoloRun, SoloHash, SoloOf
<1> QED BY <1>2, <1>4, <1>5, <1>9, <1>10
    DEF LocalInv, FinishedIdle, ExitsWithSoloHash, NoFalseAlarm, SoloHash, SoloOf, OwnStacks

\* A handler that advances the running thread by one place on its solo run and
\* then calls the scheduler.
LEMMA LocalSchedule ==
  ASSUME LocalInv, mode = "user", NEW T \in [Tids -> Thread], Schedule(T), Inv',
         \A t \in Tids : /\ T[t].fn = th[t].fn /\ T[t].stack_end = th[t].stack_end
                         /\ T[t].expected_hash = th[t].expected_hash
                         /\ t # cur => T[t] = th[t],
         NEW k \in 1..Len(SoloOf(cur)), mem \in SoloOf(cur)[k].mems, mem' = mem,
         T[cur].regs = SoloOf(cur)[k].regs, T[cur].reg_hash = SoloOf(cur)[k].hash,
         StepsFromSaved'
  PROVE  LocalInv'
<1>1. cur \in Tids /\ th \in [Tids -> Thread] /\ cur \in Active
  BY UserFacts DEF LocalInv, Inv, TypeOK, RunqSound, Active
<1>2. /\ cur' \in Tids /\ Tids' = Tids /\ mode' = "user"
      /\ ureg' = th'[cur'].regs /\ mismatch' = Pc(th'[cur'].regs)
      /\ \A t \in Tids :
              /\ th'[t].regs = T[t].regs /\ th'[t].fn = T[t].fn
              /\ th'[t].stack_end = T[t].stack_end
              /\ th'[t].reg_hash = T[t].reg_hash
              /\ th'[t].expected_hash = T[t].expected_hash
  BY ScheduleEffect DEF LocalInv
<1>3. \A t \in Tids : SoloOf(t)' = SoloOf(t) /\ ~FaultPending(t)' /\ SoloHash(t)' = SoloHash(t)
  BY <1>2 DEF SoloOf, SoloHash, FaultPending, AtMismatch
<1>4. Active' = Active /\ finished' = finished /\ why' = why
  BY ScheduleStutters DEF LocalInv, Schedule, Rotated, B!batchVars
<1>5. Active \subseteq Tids
  BY <1>1 DEF LocalInv, Inv, TypeOK, Active, Queued, Range
<1>6. OnSoloRun'
  <2>1. ASSUME NEW t \in Active PROVE (\E j \in 1..Len(SoloOf(t)) : StandsAt(t, j))'
    <3>1. CASE t = cur
      <4>1. StandsAt(t, k)'
        BY <1>1, <1>2, <1>3, <3>1 DEF StandsAt
      <4> QED BY <1>1, <1>3, <3>1, <4>1
    <3>2. CASE t # cur
      <4>1. PICK j \in 1..Len(SoloOf(t)) : StandsAt(t, j)
        BY DEF LocalInv, OnSoloRun
      <4>2. ~FaultPending(t)
        BY <3>2 DEF FaultPending
      <4>3. StandsAt(t, j)'
        BY <1>2, <1>3, <1>5, <3>2, <4>1, <4>2, StandsAtFrame
      <4> QED BY <1>3, <1>5, <4>1, <4>3
    <3> QED BY <3>1, <3>2
  <2>2. \A t \in Tids : th'[t].expected_hash \in {0, SoloHash(t)'}
    BY <1>2, <1>3 DEF LocalInv, OnSoloRun
  <2> QED BY <1>2, <1>4, <2>1, <2>2 DEF OnSoloRun
<1>7. ExitsWithSoloHash'
  <2>1. finished \subseteq Tids /\ cur \notin finished
    BY <1>1 DEF LocalInv, Inv, TypeOK, FinishedIdle
  <2> QED BY <1>2, <1>3, <1>4, <2>1 DEF LocalInv, ExitsWithSoloHash
<1>8. AllCanStart' /\ OwnStacks'
  BY <1>2 DEF LocalInv, AllCanStart, OwnStacks
<1> QED BY <1>4, <1>6, <1>7, <1>8 DEF LocalInv, FinishedIdle, NoFalseAlarm

LEMMA LocalSingleStep ==
  ASSUME Undisturbed, LocalInv, SingleStep
  PROVE  LocalInv'
<1> DEFINE T == [th EXCEPT ![cur].regs = ureg, ![cur].inst_cnt = @ + 1,
                   ![cur].cumulative_inst_cnt = @ + 1, ![cur].reg_hash = HashInc(ureg, @)]
<1>1. Inv /\ mode = "user" /\ ~AtMismatch /\ Schedule(T) /\ FaultPending(cur) /\ mem' = mem
  <2>1. /\ Inv /\ mode = "user" /\ ~AtMismatch /\ Schedule(AfterStep) /\ FaultPending(cur)
        /\ mem' = mem
    BY DEF LocalInv, SingleStep, FaultPending
  <2>2. AfterStep = T
    BY DEF AfterStep
  <2> HIDE DEF T
  <2> QED BY <2>1, <2>2
<1>2. PICK i \in 1..Len(SoloOf(cur)) :
           /\ StandsAt(cur, i)
           /\ Goes(SoloOf(cur), i) \/ AtEnd(SoloOf(cur), i)
  BY <1>1, CurStands
<1>3. /\ i + 1 \in 1..Len(SoloOf(cur)) /\ ureg = SoloOf(cur)[i + 1].regs
      /\ SoloOf(cur)[i + 1].hash = HashInc(ureg, th[cur].reg_hash)
      /\ mem \in SoloOf(cur)[i + 1].mems
  BY <1>1, <1>2 DEF StandsAt, Goes, AtEnd, HashAfter
<1>4. cur \in Tids /\ th \in [Tids -> Thread] /\ th[cur] \in Thread
  BY <1>1, UserFacts DEF Inv, TypeOK
<1>5. T \in [Tids -> Thread]
  BY <1>1, StepUpdate
<1>6. \A t \in Tids : /\ T[t].fn = th[t].fn /\ T[t].stack_end = th[t].stack_end
                      /\ T[t].expected_hash = th[t].expected_hash
                      /\ t # cur => T[t] = th[t]
  BY <1>4 DEF Thread
<1>7. T[cur].regs = SoloOf(cur)[i + 1].regs /\ T[cur].reg_hash = SoloOf(cur)[i + 1].hash
  BY <1>3, <1>4 DEF Thread
<1>8. Inv' /\ StepsFromSaved'
  <2>1. ~UserInst
    BY <1>1 DEF UserInst
  <2> QED BY <2>1, SingleStepInv, OtherSteps DEF LocalInv, Machine
<1> HIDE DEF T
<1> QED BY <1>1, <1>3, <1>5, <1>6, <1>7, <1>8, LocalSchedule

LEMMA LocalSysPutc ==
  ASSUME Undisturbed, LocalInv, SysPutc
  PROVE  LocalInv'
<1> DEFINE T == [th EXCEPT ![cur].regs = trapped]
<1>1. /\ Inv /\ mode = "user" /\ AtMismatch /\ Schedule(T) /\ Insn(ureg) = "putc"
      /\ mem' = mem
  BY DEF LocalInv, SysPutc, AtSwi
<1>2. PICK i \in 1..Len(SoloOf(cur)) :
           /\ StandsAt(cur, i)
           /\ AtMismatch => ureg = SoloOf(cur)[i].regs /\ mem \in SoloOf(cur)[i].mems
           /\ Goes(SoloOf(cur), i) \/ AtEnd(SoloOf(cur), i)
  BY <1>1, CurStands
<1>3. /\ i + 1 \in 1..Len(SoloOf(cur)) /\ trapped = SoloOf(cur)[i + 1].regs
      /\ SoloOf(cur)[i + 1].hash = th[cur].reg_hash
      /\ mem \in SoloOf(cur)[i + 1].mems
  BY <1>1, <1>2 DEF StandsAt, trapped, Goes, AtEnd, HashAfter, MemAfter
<1>4. cur \in Tids /\ th \in [Tids -> Thread] /\ th[cur] \in Thread
  BY <1>1, UserFacts DEF Inv, TypeOK
<1>5. T \in [Tids -> Thread]
  BY <1>1, StepUpdate
<1>6. \A t \in Tids : /\ T[t].fn = th[t].fn /\ T[t].stack_end = th[t].stack_end
                      /\ T[t].expected_hash = th[t].expected_hash
                      /\ t # cur => T[t] = th[t]
  BY <1>4 DEF Thread
<1>7. T[cur].regs = SoloOf(cur)[i + 1].regs /\ T[cur].reg_hash = SoloOf(cur)[i + 1].hash
  BY <1>3, <1>4 DEF Thread
<1>8. Inv' /\ StepsFromSaved'
  <2>1. ~UserInst
    BY <1>1 DEF UserInst
  <2> QED BY <2>1, SysPutcInv, OtherSteps DEF LocalInv, Machine
<1> HIDE DEF T
<1> QED BY <1>1, <1>3, <1>5, <1>6, <1>7, <1>8, LocalSchedule

\* At an exit the thread stands at the end of its solo run.
LEMMA ExitHash ==
  ASSUME Undisturbed, LocalInv, AtSwi("exit")
  PROVE  th[cur].reg_hash = SoloHash(cur) /\ HashMatches
<1>1. mode = "user" /\ AtMismatch /\ Insn(ureg) = "exit" /\ cur \in Tids
  BY UserFacts DEF AtSwi, LocalInv
<1>2. PICK i \in 1..Len(SoloOf(cur)) :
           /\ StandsAt(cur, i)
           /\ AtMismatch => ureg = SoloOf(cur)[i].regs
           /\ Goes(SoloOf(cur), i) \/ AtEnd(SoloOf(cur), i)
  BY <1>1, CurStands
<1>3. i = Len(SoloOf(cur))
  BY <1>1, <1>2 DEF Goes, AtEnd
<1>4. th[cur].reg_hash = SoloHash(cur)
  BY <1>2, <1>3 DEF StandsAt, SoloHash, LastHash
<1> QED BY <1>1, <1>4 DEF LocalInv, OnSoloRun, HashMatches

LEMMA LocalSysExit ==
  ASSUME Undisturbed, LocalInv, SysExit
  PROVE  LocalInv'
<1>1. th[cur].reg_hash = SoloHash(cur)
  BY ExitHash DEF SysExit, AddHash, ExpectsNext
<1>2. /\ cur \in Tids /\ cur # 0 /\ cur \notin Queued /\ th \in [Tids -> Thread]
      /\ Tids' = Tids /\ Active \subseteq Tids /\ mode = "user"
      /\ runq \in Seq(Tids) /\ IsInjective(runq) /\ 0 \notin Queued
  BY TidsType DEF LocalInv, Inv, TypeOK, RunqSound, SysExit, AddHash, ExpectsNext, AtSwi, Tids, Active, Queued, Range
<1>3. /\ mode' \in {"user", "return"}
      /\ mode' = "user" => ureg' = th'[cur'].regs /\ mismatch' = Pc(th'[cur'].regs)
  BY ExitEffect DEF LocalInv
<1>4. Active' = Active \ {cur}
  BY ExitActive DEF LocalInv
<1>5. \A t \in Tids :
        /\ th'[t].fn = th[t].fn /\ th'[t].stack_end = th[t].stack_end
        /\ th'[t].reg_hash = th[t].reg_hash
        /\ t # cur => th'[t] = th[t]
        /\ t = cur => th'[t].expected_hash = th[t].reg_hash
  BY <1>2 DEF SysExit, AddHash, ExpectsNext, Thread
<1>6. \A t \in Tids : SoloOf(t)' = SoloOf(t) /\ SoloHash(t)' = SoloHash(t) /\ ~FaultPending(t)'
  BY <1>3, <1>5 DEF SoloOf, SoloHash, FaultPending, AtMismatch
<1>7. OnSoloRun'
  <2>1. ASSUME NEW t \in Active \ {cur} PROVE (\E j \in 1..Len(SoloOf(t)) : StandsAt(t, j))'
    <3>1. PICK j \in 1..Len(SoloOf(t)) : StandsAt(t, j)
      BY DEF LocalInv, OnSoloRun
    <3>2. t \in Tids /\ ~FaultPending(t) /\ mem' = mem
      BY <1>2 DEF FaultPending, SysExit, AddHash, ExpectsNext
    <3> QED BY <1>5, <1>6, <3>1, <3>2, StandsAtFrame
  <2>2. \A t \in Tids : th'[t].expected_hash \in {0, SoloHash(t)'}
    BY <1>1, <1>5, <1>6 DEF LocalInv, OnSoloRun
  <2> QED BY <1>2, <1>4, <2>1, <2>2 DEF OnSoloRun
<1>8. /\ finished' = finished \cup {cur} /\ why' = why
  BY DEF SysExit, AddHash, ExpectsNext
<1>9. ExitsWithSoloHash'
  <2>1. finished \subseteq Tids
    BY DEF LocalInv, Inv, TypeOK
  <2> QED BY <1>1, <1>2, <1>5, <1>6, <1>8, <2>1 DEF LocalInv, ExitsWithSoloHash
<1>10. Inv' /\ StepsFromSaved'
  <2>1. ~UserInst
    BY DEF UserInst, SysExit, AddHash, ExpectsNext, AtSwi
  <2> QED BY <2>1, SysExitInv, OtherSteps DEF LocalInv, Machine
<1>11. AllCanStart' /\ OwnStacks'
  BY <1>2, <1>5 DEF LocalInv, AllCanStart, OwnStacks, SysExit, AddHash, ExpectsNext
<1> QED BY <1>2, <1>4, <1>7, <1>8, <1>9, <1>10, <1>11 DEF LocalInv, FinishedIdle, NoFalseAlarm

-----------------------------------------------------------------------------
(* The calls of the client.                                                *)

\* A step that runs no thread and forks or reforks none.
LEMMA LocalIdle ==
  ASSUME LocalInv, UNCHANGED <<th, ntids, runq, cur, finished, mem>>, Inv', StepsFromSaved',
         mode = "user" => AtMismatch, mode' = "user" => AtMismatch',
         mode' \in {"user", "return"} => mode \in {"user", "return"},
         why' # "mismatch"
  PROVE  LocalInv'
<1>1. Tids' = Tids /\ Active' = Active
  BY DEF Tids, Active, Queued
<1>2. \A t \in Tids : SoloOf(t)' = SoloOf(t) /\ SoloHash(t)' = SoloHash(t) /\ ~FaultPending(t)'
  BY DEF SoloOf, SoloHash, FaultPending
<1>3. ASSUME NEW t \in Active PROVE (\E j \in 1..Len(SoloOf(t)) : StandsAt(t, j))'
  <2>1. PICK j \in 1..Len(SoloOf(t)) : StandsAt(t, j)
    BY DEF LocalInv, OnSoloRun
  <2>2. ~FaultPending(t)' /\ ~FaultPending(t)
    BY DEF FaultPending
  <2> QED BY <2>1, <2>2, StandsAtFrame
<1>4. OnSoloRun'
  BY <1>1, <1>2, <1>3 DEF LocalInv, OnSoloRun
<1>5. finished \subseteq Tids
  BY DEF LocalInv, Inv, TypeOK
<1> QED BY <1>1, <1>2, <1>4, <1>5
    DEF LocalInv, FinishedIdle, ExitsWithSoloHash, NoFalseAlarm, AllCanStart, OwnStacks

LEMMA LocalRunThreads ==
  ASSUME LocalInv, RunThreads
  PROVE  LocalInv'
<1>1. /\ Inv /\ Inv' /\ Active' = Active /\ Tids' = Tids /\ th' = th /\ mode' = "user"
      /\ mismatch' = Pc(ureg') /\ finished' = {} /\ why' = why /\ mem' = mem
      /\ mode = "client"
  BY StartEffect, RunThreadsActive, RunThreadsInv DEF LocalInv, RunThreads
<1>2. StepsFromSaved'
  <2>1. ~UserInst
    BY DEF RunThreads, UserInst
  <2> QED BY <2>1, OtherSteps DEF LocalInv, AnyClient
<1>3. ASSUME NEW t \in Active PROVE (\E j \in 1..Len(SoloOf(t)) : StandsAt(t, j))'
  <2>1. PICK j \in 1..Len(SoloOf(t)) : StandsAt(t, j)
    BY DEF LocalInv, OnSoloRun
  <2>2. ~FaultPending(t)' /\ ~FaultPending(t)
    BY <1>1 DEF FaultPending, AtMismatch
  <2> QED BY <1>1, <2>1, <2>2, StandsAtFrame
<1>4. OnSoloRun'
  BY <1>1, <1>3 DEF LocalInv, OnSoloRun, SoloHash, SoloOf
<1> QED BY <1>1, <1>2, <1>4
    DEF LocalInv, FinishedIdle, ExitsWithSoloHash, NoFalseAlarm, AllCanStart, OwnStacks

LEMMA LocalFork ==
  ASSUME Undisturbed, LocalInv, NEW f \in Routines, NEW h, NEW base, NEW nbytes,
         ForkStack(f, h, base, nbytes), HonestFork, Inv', StepsFromSaved',
         base + nbytes \in {0, ntids * StackSize + StackSize}
  PROVE  LocalInv'
<1>1. /\ ntids \in 1..MaxThreads /\ ntids \notin Tids
      /\ Tids' = Tids \cup {ntids} /\ Active' = Active \cup {ntids}
  BY ForkActive DEF LocalInv
<1>2. /\ mode = "client" /\ mode' = "client" /\ why' = why /\ ntids' # ntids /\ mem' = mem
      /\ \A t \in Tids : th'[t] = th[t]
      /\ th'[ntids] = NewThread(f, h, base, nbytes)
  <2>1. ntids \in Nat \ {0} /\ ntids' = ntids + 1
    BY <1>1 DEF ForkStack
  <2>2. \A t \in 1..ntids : th'[t] = IF t = ntids THEN NewThread(f, h, base, nbytes) ELSE th[t]
    BY DEF ForkStack
  <2>3. \A t \in Tids : t \in 1..ntids /\ t # ntids
    BY <2>1 DEF Tids
  <2> QED BY <2>1, <2>2, <2>3 DEF ForkStack, cpuVars
<1>3. ASSUME NEW t \in Tids
      PROVE  /\ SoloOf(t)' = SoloOf(t) /\ SoloHash(t)' = SoloHash(t)
             /\ ~FaultPending(t) /\ ~FaultPending(t)'
  BY <1>2 DEF SoloOf, SoloHash, FaultPending
<1>4. ASSUME NEW t \in Active PROVE (\E j \in 1..Len(SoloOf(t)) : StandsAt(t, j))'
  <2>1. t \in Tids
    BY DEF LocalInv, Inv, TypeOK, RunqSound, Active, Queued, Range
  <2>2. PICK j \in 1..Len(SoloOf(t)) : StandsAt(t, j)
    BY DEF LocalInv, OnSoloRun
  <2> QED BY <1>2, <1>3, <2>1, <2>2, StandsAtFrame
<1>5. ASSUME NEW n, n = ntids
      PROVE  /\ (\E j \in 1..Len(SoloOf(n)) : StandsAt(n, j))'
             /\ th'[n].expected_hash \in {0, SoloHash(n)'}
  <2>1. n \in Tids' /\ th'[n] \in Thread
    BY <1>1, <1>5 DEF Inv, TypeOK
  <2>2. /\ th'[n].fn \in Routines /\ th'[n].stack_end \in StackEnds
        /\ th'[n].regs = EntryRegs(th'[n].fn, th'[n].stack_end) /\ th'[n].reg_hash = 0
    BY <1>2, <1>5, <2>1 DEF Thread, NewThread
  <2>3. (\E j \in 1..Len(SoloOf(n)) : StandsAt(n, j))'
    <3>1. 1 \in 1..Len(SoloOf(n)') /\ ~FaultPending(n)'
      BY <1>2, <2>2, SoloFacts DEF SoloOf, FaultPending
    <3>2. StandsAt(n, 1)'
      BY <1>2, <2>2, <3>1, SoloFacts DEF SoloOf, StandsAt, LocalInv, AllCanStart
    <3> QED BY <3>1, <3>2
  <2>4. th'[n].expected_hash \in {0, SoloHash(n)'}
    BY <1>2, <1>5 DEF HonestFork, SoloHash, SoloOf
  <2> QED BY <2>3, <2>4
<1>6. OnSoloRun'
  BY <1>1, <1>2, <1>3, <1>4, <1>5 DEF LocalInv, OnSoloRun
<1>7. OwnStacks'
  <2>1. \A t \in Tids : th'[t].stack_end \in {0, t * StackSize + StackSize}
    BY <1>2 DEF LocalInv, OwnStacks
  <2>2. th'[ntids].stack_end \in {0, ntids * StackSize + StackSize}
    BY <1>2 DEF NewThread
  <2> QED BY <1>1, <2>1, <2>2 DEF OwnStacks
<1> QED BY <1>2, <1>6, <1>7
    DEF LocalInv, FinishedIdle, ExitsWithSoloHash, NoFalseAlarm, AllCanStart

LEMMA LocalRefork ==
  ASSUME Undisturbed, LocalInv, NEW t \in Tids, t \notin Queued, Refork(t), Inv', StepsFromSaved'
  PROVE  LocalInv'
<1>1. Tids' = Tids /\ Active' = Active \cup {t} /\ mode' = "client" /\ why' = why
      /\ mode = "client" /\ mem' = mem
  BY ReforkActive DEF LocalInv, Refork, Restarted, Tids, cpuVars
<1>2. \A s \in Tids : /\ th'[s].fn = th[s].fn /\ th'[s].stack_end = th[s].stack_end
                      /\ th'[s].expected_hash = th[s].expected_hash
                      /\ s # t => th'[s] = th[s]
  BY DEF LocalInv, Inv, TypeOK, Refork, Restarted, Thread
<1>3. ASSUME NEW s \in Tids
      PROVE  /\ SoloOf(s)' = SoloOf(s) /\ SoloHash(s)' = SoloHash(s)
             /\ ~FaultPending(s) /\ ~FaultPending(s)'
  BY <1>1, <1>2 DEF SoloOf, SoloHash, FaultPending
<1>4. ASSUME NEW s \in Active, s # t PROVE (\E j \in 1..Len(SoloOf(s)) : StandsAt(s, j))'
  <2>1. s \in Tids
    BY DEF LocalInv, Inv, TypeOK, RunqSound, Active, Queued, Range
  <2>2. PICK j \in 1..Len(SoloOf(s)) : StandsAt(s, j)
    BY DEF LocalInv, OnSoloRun
  <2>3. th'[s].regs = th[s].regs /\ th'[s].reg_hash = th[s].reg_hash
    BY <1>2, <1>4, <2>1
  <2>4. StandsAt(s, j)' /\ SoloOf(s)' = SoloOf(s)
    BY <1>1, <1>2, <1>3, <2>1, <2>2, <2>3, StandsAtFrame
  <2> QED BY <2>2, <2>4
<1>5. (\E j \in 1..Len(SoloOf(t)) : StandsAt(t, j))'
  <2>1. th[t] \in Thread /\ th \in [Tids -> Thread]
    BY DEF LocalInv, Inv, TypeOK
  <2>2. /\ th'[t].fn \in Routines /\ th'[t].stack_end \in StackEnds
        /\ th'[t].regs = EntryRegs(th'[t].fn, th'[t].stack_end) /\ th'[t].reg_hash = 0
    BY <2>1 DEF Refork, Restarted, Thread
  <2>3. 1 \in 1..Len(SoloOf(t)') /\ ~FaultPending(t)'
    BY <1>3, <2>2, SoloFacts DEF SoloOf
  <2>4. StandsAt(t, 1)'
    BY <1>1, <2>2, <2>3, SoloFacts DEF SoloOf, StandsAt, LocalInv, AllCanStart
  <2> QED BY <2>3, <2>4
<1>6. OnSoloRun'
  BY <1>1, <1>2, <1>3, <1>4, <1>5 DEF LocalInv, OnSoloRun
<1>7. OwnStacks'
  BY <1>1, <1>2 DEF LocalInv, OwnStacks
<1> QED BY <1>1, <1>6, <1>7
    DEF LocalInv, FinishedIdle, ExitsWithSoloHash, NoFalseAlarm, AllCanStart

LEMMA LocalClient ==
  ASSUME Undisturbed, LocalInv, AnyClient, HonestFork
  PROVE  LocalInv'
<1>1. Inv' /\ StepsFromSaved'
  <2>1. ~UserInst
    BY DEF AnyClient, EqxInit, RunThreads, RunThreadsPanics, SetSchedulerConfig, Fork,
       ForkNostack, ForkStack, Refork, Restarted, ReforkAsserts, UserInst
  <2> QED BY <2>1, AnyClientInv, OtherSteps DEF LocalInv
<1>2. CASE RunThreads
  BY <1>2, LocalRunThreads
<1>3. ASSUME NEW f \in Routines, NEW h, Fork(f, h) \/ ForkNostack(f, h) PROVE LocalInv'
  <2>1. CASE Fork(f, h)
    BY <1>1, <2>1, LocalFork DEF Fork
  <2>2. CASE ForkNostack(f, h)
    <3>1. 0 + 0 \in {0, ntids * StackSize + StackSize}
      OBVIOUS
    <3> QED BY <1>1, <2>2, <3>1, LocalFork DEF ForkNostack
  <2> QED BY <1>3, <2>1, <2>2
<1>4. ASSUME NEW t \in Tids, t \notin Queued, Refork(t) PROVE LocalInv'
  BY <1>1, <1>4, LocalRefork
<1>5. CASE EqxInit \/ RunThreadsPanics \/ (\E c \in SchedulerConfig : SetSchedulerConfig(c))
           \/ \E t \in Tids : ReforkAsserts(t)
  <2>1. /\ UNCHANGED <<th, ntids, runq, cur, finished, mem>>
        /\ mode = "client" /\ mode' \in {"client", "panic"} /\ why' # "mismatch"
    BY <1>5 DEF EqxInit, RunThreadsPanics, SetSchedulerConfig, ReforkAsserts, Panic,
       threadVars, runVars, cpuVars, LocalInv, NoFalseAlarm
  <2> QED BY <1>1, <2>1, LocalIdle
<1> QED BY <1>2, <1>3, <1>4, <1>5 DEF AnyClient

\* Any step of a client that forks honestly, and of the threads.
LEMMA LocalAny ==
  ASSUME Undisturbed, LocalInv, AnyClient \/ Machine \/ UNCHANGED vars, HonestFork
  PROVE  LocalInv'
<1>1. CASE AnyClient
  BY <1>1, LocalClient
<1>2. CASE UserInst
  BY <1>2, LocalUserInst
<1>3. CASE SingleStep
  BY <1>3, LocalSingleStep
<1>4. CASE SysPutc
  BY <1>4, LocalSysPutc
<1>5. CASE SysExit
  BY <1>5, LocalSysExit
<1>6. CASE SyscallPanics
  <2>1. Inv' /\ StepsFromSaved'
    <3>1. ~UserInst
      BY <1>6 DEF SyscallPanics, AtSwi, UserInst
    <3> QED BY <1>6, <3>1, MachineInv, OtherSteps DEF LocalInv, Machine
  <2>2. UNCHANGED <<th, ntids, runq, cur, finished, mem>> /\ mode' = "panic"
        /\ AtMismatch /\ why' # "mismatch"
    BY <1>6, ExitHash DEF SyscallPanics, AtSwi, Panic, threadVars, runVars, cpuVars
  <2> QED BY <2>1, <2>2, LocalIdle
<1>7. CASE RunThreadsReturn
  <2>1. Inv' /\ StepsFromSaved'
    <3>1. ~UserInst
      BY <1>7 DEF RunThreadsReturn, UserInst
    <3> QED BY <1>7, <3>1, MachineInv, OtherSteps DEF LocalInv, Machine
  <2>2. /\ UNCHANGED <<th, ntids, runq, cur, finished, mem>> /\ mode' \in {"client", "panic"}
        /\ mode = "return" /\ why' # "mismatch"
    BY <1>7 DEF RunThreadsReturn, threadVars, LocalInv, NoFalseAlarm, Inv, RunqSound
  <2> QED BY <2>1, <2>2, LocalIdle
<1>8. CASE UNCHANGED vars
  <2>1. Inv' /\ StepsFromSaved'
    BY <1>8, StepInv DEF vars, threadVars, runVars, cpuVars, LocalInv,
       StepsFromSaved, AtMismatch
  <2>2. LocalInv'
    BY <1>8, <2>1 DEF vars, threadVars, runVars, cpuVars, LocalInv, OnSoloRun, StandsAt,
       SoloOf, SoloHash, FaultPending, AtMismatch, FinishedIdle, ExitsWithSoloHash,
       NoFalseAlarm, Active, Queued, Tids, AllCanStart, OwnStacks
  <2> QED BY <2>2
<1> QED BY <1>1, <1>2, <1>3, <1>4, <1>5, <1>6, <1>7, <1>8 DEF Machine

LEMMA LocalStep == Undisturbed /\ LocalInv /\ [LocalNext]_vars => LocalInv'
<1> SUFFICES ASSUME Undisturbed, LocalInv, [LocalNext]_vars PROVE LocalInv'
  OBVIOUS
<1>1. CASE UNCHANGED vars
  <2>1. HonestFork
    BY <1>1 DEF vars, threadVars, HonestFork
  <2> QED BY <1>1, <2>1, LocalAny
<1>2. CASE LocalNext
  <2>1. AnyClient \/ Machine
    BY <1>2, ClientInv DEF LocalNext, Next, LocalInv
  <2> QED BY <1>2, <2>1, LocalAny DEF LocalNext
<1> QED BY <1>1, <1>2

LEMMA LocalInit == Undisturbed /\ Init => LocalInv
<1> SUFFICES ASSUME Undisturbed, Init PROVE LocalInv
  OBVIOUS
<1>1. Inv
  BY InitInv
<1>2. /\ ntids = 1 /\ cur = 0 /\ mode = "client" /\ finished = {} /\ why = "none"
      /\ mem = InitMem
  BY DEF Init
<1>3. Tids = {} /\ Active \subseteq Tids
  BY <1>1, <1>2 DEF Tids, Inv, TypeOK, Active, Queued, Range
<1>4. AllCanStart
  BY <1>2, SoloFacts DEF AllCanStart
<1> QED BY <1>1, <1>2, <1>3, <1>4 DEF LocalInv, StepsFromSaved, OnSoloRun, FinishedIdle,
        ExitsWithSoloHash, NoFalseAlarm, OwnStacks

\* Every thread stands, at every moment, at a point of its run alone, with the
\* registers and the hash of that point: no schedule, and no other thread, shifts it
\* (eqx-threads.c:284-322, 388-405).
THEOREM AlwaysOnSoloRun == Undisturbed => (LocalSpec => []OnSoloRun)
<1> SUFFICES ASSUME Undisturbed PROVE LocalSpec => []OnSoloRun
  OBVIOUS
<1>1. Init => LocalInv
  BY LocalInit
<1>2. LocalInv /\ [LocalNext]_vars => LocalInv'
  BY LocalStep
<1> QED BY <1>1, <1>2, PTL DEF LocalSpec, LocalInv

\* The checker raises no false alarm: if no routine takes from another what
\* that counts on finding in memory, no exit is ever reported as a mismatch,
\* however many threads there are and wherever the scheduler preempts them
\* (eqx-threads.c:486-502).
THEOREM NoFalseAlarms == Undisturbed => (LocalSpec => []NoFalseAlarm)
<1> SUFFICES ASSUME Undisturbed PROVE LocalSpec => []NoFalseAlarm
  OBVIOUS
<1>1. Init => LocalInv
  BY LocalInit
<1>2. LocalInv /\ [LocalNext]_vars => LocalInv'
  BY LocalStep
<1> QED BY <1>1, <1>2, PTL DEF LocalSpec, LocalInv

\* Every thread that exits has the hash of its run alone
\* (eqx-threads.c:388-405, 486-506).
THEOREM ExitHashesAreSolo == Undisturbed => (LocalSpec => []ExitsWithSoloHash)
<1> SUFFICES ASSUME Undisturbed PROVE LocalSpec => []ExitsWithSoloHash
  OBVIOUS
<1>1. Init => LocalInv
  BY LocalInit
<1>2. LocalInv /\ [LocalNext]_vars => LocalInv'
  BY LocalStep
<1> QED BY <1>1, <1>2, PTL DEF LocalSpec, LocalInv

-----------------------------------------------------------------------------
(* Runs in turn.  RunTo and Stops are recursive functions: the first       *)
(* lemmas show that a function with their equation exists, so that they    *)
(* can be unfolded.                                                        *)

LEMMA AtState ==
  ASSUME NEW f \in Routines, NEW sp \in StackEnds, NEW m \in Mem
  PROVE  At(f, sp, m) \in State
<1>1. EntryRegs(f, sp) \in Regs /\ 0 \in Hashes
  BY MachineAssumption, BoundsAssumption DEF Hashes
<1> QED BY <1>1 DEF At, State

LEMMA StepState ==
  ASSUME NEW s \in State
  PROVE  Step(s) \in State
<1>1. /\ s.regs \in Regs /\ s.hash \in Hashes /\ s.cnt + 1 \in Nat /\ s.mem \in Mem
      /\ s = [regs |-> s.regs, hash |-> s.hash, cnt |-> s.cnt, mem |-> s.mem]
  BY DEF State
<1>2. /\ ExecRegs(s.regs, s.mem) \in Regs /\ ExecMem(s.regs, s.mem) \in Mem
      /\ HashInc(ExecRegs(s.regs, s.mem), s.hash) \in Hashes
  BY <1>1, MachineAssumption
<1> QED BY <1>1, <1>2 DEF Step, State

\* Where a run from u can stop: the states that every set contains that
\* contains u and is closed under the steps before the stop.
StopsAt(u, n) == Ended(u) \/ u.cnt = n

RunsIn(C, n) == \A s \in C : StopsAt(s, n) \/ Step(s) \in C

EndsFrom(u, n) ==
    {e \in State : /\ StopsAt(e, n)
                   /\ \A C \in SUBSET State : RunsIn(C, n) /\ u \in C => e \in C}

\* The definition of RunTo has a solution, so it can be unfolded.
LEMMA RunToSteps ==
  ASSUME NEW s \in State, NEW n
  PROVE  RunTo(s, n) = IF StopsAt(s, n) THEN s ELSE RunTo(Step(s), n)
<1> DEFINE Body(g) == [u \in State |-> IF Ended(u) \/ u.cnt = n THEN u ELSE g[Step(u)]]
           run == CHOOSE g : g = Body(g)
           end == [u \in State |-> CHOOSE e : e \in EndsFrom(u, n)]
<1>1. ASSUME NEW u \in State, StopsAt(u, n) PROVE end[u] = u
  <2>1. u \in EndsFrom(u, n)
    BY <1>1 DEF EndsFrom
  <2>2. ASSUME NEW e \in EndsFrom(u, n) PROVE e = u
    <3>1. RunsIn({u}, n)
      BY <1>1 DEF RunsIn
    <3> QED BY <3>1 DEF EndsFrom
  <2>3. EndsFrom(u, n) = {u}
    BY <2>1, <2>2
  <2> QED BY <2>3
<1>2. ASSUME NEW u \in State, ~StopsAt(u, n) PROVE end[u] = end[Step(u)]
  <2>1. Step(u) \in State
    BY StepState
  <2>2. ASSUME NEW e \in State, StopsAt(e, n),
               \A C \in SUBSET State : RunsIn(C, n) /\ u \in C => e \in C,
               NEW C \in SUBSET State, RunsIn(C, n), Step(u) \in C
        PROVE  e \in C
    <3>1. RunsIn(C \cup {u}, n)
      BY <2>2 DEF RunsIn
    <3> QED BY <1>2, <2>2, <3>1
  <2>3. \A C \in SUBSET State : RunsIn(C, n) /\ u \in C => Step(u) \in C
    BY <1>2 DEF RunsIn
  <2>4. EndsFrom(u, n) = EndsFrom(Step(u), n)
    BY <2>2, <2>3 DEF EndsFrom
  <2> QED BY <2>1, <2>4
<1>3. end = Body(end)
  <2>1. ASSUME NEW u \in State PROVE end[u] = Body(end)[u]
    <3> HIDE DEF end
    <3> QED BY <1>1, <1>2 DEF StopsAt
  <2>2. end = [u \in State |-> end[u]] /\ Body(end) = [u \in State |-> Body(end)[u]]
    OBVIOUS
  <2> HIDE DEF Body, end
  <2> QED BY <2>1, <2>2
<1>4. run = Body(run)
  <2> HIDE DEF Body, end
  <2> QED BY <1>3
<1>5. RunTo(s, n) = run[s]
  BY DEF RunTo
<1>6. RunTo(Step(s), n) = run[Step(s)]
  BY DEF RunTo
<1>7. run[s] = IF StopsAt(s, n) THEN s ELSE run[Step(s)]
  <2>1. Body(run)[s] = IF StopsAt(s, n) THEN s ELSE run[Step(s)]
    BY DEF StopsAt
  <2> HIDE DEF Body, run
  <2> QED BY <1>4, <2>1
<1> QED BY <1>5, <1>6, <1>7

\* A set of numbers has one whose predecessor is not in it.
LEMMA FirstOne ==
  ASSUME NEW G \in SUBSET Nat, G # {}
  PROVE  \E i \in G : i = 0 \/ i - 1 \notin G
<1>1. PICK p \in G : TRUE
  OBVIOUS
<1> DEFINE W == {T \in SUBSET (0..p) : \E i \in G : T = 0..i}
<1>2. IsFiniteSet(0..p)
  BY FS_Interval
<1>3. W \in SUBSET (SUBSET (0..p)) /\ 0..p \in W
  OBVIOUS
<1>4. PICK T \in W : \A x \in T : T \ {x} \notin W
  <2> HIDE DEF W
  <2> QED BY <1>2, <1>3, MinimalSubset
<1>5. PICK i \in G : T = 0..i
  OBVIOUS
<1>6. CASE i # 0 /\ i - 1 \in G
  <2>1. i \in T /\ T \ {i} = 0..(i - 1)
    BY <1>5, <1>6
  <2>2. T \ {i} \in W
    BY <1>6, <2>1
  <2> QED BY <1>4, <2>1, <2>2
<1> QED BY <1>6

\* The list of stops, with the definition unfolded.
StopAt(J, n, m, k, before) ==
    IF k = 1 THEN RunTo(At(J[1].fn, J[1].sp, m), n)
    ELSE Alone(J[k].fn, J[k].sp, before.mem)

StopList(h, J, n, m, l) == h = [k \in 1..l |-> StopAt(J, n, m, k, h[k - 1])]

LEMMA StopsExist ==
  ASSUME NEW J, NEW n, NEW m, NEW l \in Nat
  PROVE  \E h : StopList(h, J, n, m, l)
<1> DEFINE Solves(h, i) == StopList(h, J, n, m, i)
           G == {i \in Nat : ~\E h : Solves(h, i)}
<1>1. SUFFICES ASSUME G # {} PROVE FALSE
  OBVIOUS
<1>2. PICK i \in G : i = 0 \/ i - 1 \notin G
  <2>1. G \in SUBSET Nat
    OBVIOUS
  <2> HIDE DEF G
  <2> QED BY <1>1, <2>1, FirstOne
<1>3. i \in Nat /\ ~\E h : Solves(h, i)
  OBVIOUS
<1>4. CASE i = 0
  <2>1. 1..0 = {}
    OBVIOUS
  <2>2. Solves([k \in {} |-> 0], 0)
    BY <2>1 DEF StopList
  <2> QED BY <1>3, <1>4, <2>2
<1>5. CASE i # 0
  <2>1. i - 1 \in Nat /\ i - 1 \notin G
    BY <1>2, <1>3, <1>5
  <2>2. PICK g : Solves(g, i - 1)
    BY <2>1
  <2> DEFINE h == [k \in 1..i |-> IF k = i THEN StopAt(J, n, m, k, g[k - 1]) ELSE g[k]]
  <2>3. ASSUME NEW k \in 1..i PROVE h[k] = StopAt(J, n, m, k, h[k - 1])
    <3>1. CASE k = 1
      <4>1. h[k] = StopAt(J, n, m, k, g[k - 1])
        <5>1. k # i => k \in 1..(i - 1) /\ h[k] = g[k]
          BY <1>3, <3>1
        <5>2. k = i => h[k] = StopAt(J, n, m, k, g[k - 1])
          OBVIOUS
        <5> HIDE DEF h
        <5> QED BY <2>2, <5>1, <5>2 DEF StopList
      <4> QED BY <3>1, <4>1 DEF StopAt
    <3>2. CASE k # 1
      <4>1. k - 1 \in 1..i /\ k - 1 # i /\ k - 1 \in 1..(i - 1)
        BY <1>3, <3>2
      <4>2. h[k - 1] = g[k - 1]
        BY <4>1
      <4>3. k # i => k \in 1..(i - 1) /\ h[k] = g[k]
        BY <1>3
      <4>4. k = i => h[k] = StopAt(J, n, m, k, g[k - 1])
        OBVIOUS
      <4> HIDE DEF h
      <4> QED BY <2>2, <4>2, <4>3, <4>4 DEF StopList
    <3> QED BY <3>1, <3>2
  <2>4. Solves(h, i)
    <3>1. h = [k \in 1..i |-> h[k]]
      OBVIOUS
    <3> HIDE DEF h
    <3> QED BY <2>3, <3>1 DEF StopList
  <2> QED BY <1>3, <2>4
<1> QED BY <1>4, <1>5

LEMMA StopsSteps ==
  ASSUME NEW J, Len(J) \in Nat, NEW n, NEW m, NEW k \in 1..Len(J)
  PROVE  Stops(J, n, m)[k] = StopAt(J, n, m, k, Stops(J, n, m)[k - 1])
<1> DEFINE stop == CHOOSE g : StopList(g, J, n, m, Len(J))
<1>1. Stops(J, n, m) = stop
  BY DEF Stops, StopAt, StopList
<1>2. StopList(stop, J, n, m, Len(J))
  <2>1. \E h : StopList(h, J, n, m, Len(J))
    BY StopsExist
  <2> QED BY <2>1
<1> HIDE DEF stop
<1>3. stop = [i \in 1..Len(J) |-> StopAt(J, n, m, i, stop[i - 1])]
  BY <1>2 DEF StopList
<1>4. stop[k] = StopAt(J, n, m, k, stop[k - 1])
  BY <1>3
<1> QED BY <1>1, <1>4

-----------------------------------------------------------------------------
(* One step of the machine is one step of the routine that runs.           *)

\* Where the running thread stands, the instruction included whose fault is
\* still to come.
Here ==
    [regs |-> ureg,
     hash |-> IF FaultPending(cur) THEN HashInc(ureg, th[cur].reg_hash)
                                   ELSE th[cur].reg_hash,
     cnt |-> th[cur].cumulative_inst_cnt + (IF FaultPending(cur) THEN 1 ELSE 0),
     mem |-> mem]

LEMMA HereState ==
  ASSUME Inv, mode = "user"
  PROVE  Here \in State
<1>1. cur \in Tids /\ th[cur] \in Thread /\ ureg \in Regs /\ mem \in Mem
  BY UserFacts
<1>2. th[cur].reg_hash \in Hashes /\ th[cur].cumulative_inst_cnt \in Nat
  BY <1>1 DEF Thread
<1>3. HashInc(ureg, th[cur].reg_hash) \in Hashes
  BY <1>1, <1>2, MachineAssumption
<1> DEFINE h == IF FaultPending(cur) THEN HashInc(ureg, th[cur].reg_hash) ELSE th[cur].reg_hash
           k == th[cur].cumulative_inst_cnt + (IF FaultPending(cur) THEN 1 ELSE 0)
<1>4. h \in Hashes /\ k \in Nat
  BY <1>2, <1>3
<1>5. Here = [regs |-> ureg, hash |-> h, cnt |-> k, mem |-> mem]
  BY DEF Here
<1> HIDE DEF h, k
<1> QED BY <1>1, <1>4, <1>5 DEF State

\* The instruction of the running thread, before its fault.
LEMMA HereUserInst ==
  ASSUME Inv, StepsFromSaved, NoSelfBranch, UserInst
  PROVE  /\ mode = "user" /\ ~Ended(Here) /\ ~FaultPending(cur)
         /\ UNCHANGED <<th, ntids, runq, runVars, config, flagVars, mode>>
         /\ FaultPending(cur)' /\ Here' = Step(Here)
<1>1. mode = "user" /\ AtMismatch /\ Insn(ureg) = "step"
      /\ ureg' = ExecRegs(ureg, mem) /\ mem' = ExecMem(ureg, mem)
      /\ UNCHANGED <<th, ntids, runq, runVars, config, flagVars, mode>>
  BY DEF UserInst
<1>2. cur \in Tids /\ th[cur] \in Thread /\ ureg \in Regs /\ mem \in Mem
  BY <1>1, UserFacts
<1>3. Pc(ExecRegs(ureg, mem)) # Pc(ureg)
  BY <1>1, <1>2 DEF NoSelfBranch
<1>4. ~AtMismatch'
  BY <1>3, UserInstSteps
<1>5. ~FaultPending(cur) /\ cur' = cur /\ FaultPending(cur)'
  BY <1>1, <1>4 DEF FaultPending, runVars
<1>6. Here = [regs |-> ureg, hash |-> th[cur].reg_hash,
              cnt |-> th[cur].cumulative_inst_cnt, mem |-> mem]
  <2>1. th[cur].cumulative_inst_cnt + 0 = th[cur].cumulative_inst_cnt
    BY <1>2 DEF Thread
  <2> QED BY <1>5, <2>1 DEF Here
<1>7. Here' = [regs |-> ureg', hash |-> HashInc(ureg', th[cur].reg_hash),
               cnt |-> th[cur].cumulative_inst_cnt + 1, mem |-> mem']
  BY <1>1, <1>5 DEF Here
<1>8. Step(Here) = [regs |-> ExecRegs(ureg, mem),
                    hash |-> HashInc(ExecRegs(ureg, mem), th[cur].reg_hash),
                    cnt |-> th[cur].cumulative_inst_cnt + 1, mem |-> ExecMem(ureg, mem)]
  BY <1>1, <1>6 DEF Step
<1>9. ~Ended(Here)
  BY <1>1, <1>6 DEF Ended
<1> QED BY <1>1, <1>5, <1>7, <1>8, <1>9

\* What the single-step handler and sys_putc save of the running thread.
Saved == IF SingleStep THEN Here ELSE Step(Here)

YieldsNow == IsX(cur) /\ Saved.cnt = config.switch_on_inst_n

LEMMA HereSaves ==
  ASSUME Inv, StepsFromSaved, SingleStep \/ SysPutc
  PROVE  /\ mode = "user" /\ cur \in Tids /\ Saved \in State
         /\ SingleStep => FaultPending(cur)
         /\ ~SingleStep => ~FaultPending(cur) /\ ~Ended(Here) /\ Saved.cnt = Here.cnt
         /\ \E T \in [Tids -> Thread] :
              /\ Schedule(T)
              /\ \A t \in Tids \ {cur} : T[t] = th[t]
              /\ T[cur].regs = Saved.regs /\ T[cur].reg_hash = Saved.hash
              /\ T[cur].cumulative_inst_cnt = Saved.cnt
         /\ mem' = Saved.mem
<1>1. mode = "user" /\ mem' = mem
  BY DEF SingleStep, SysPutc, AtSwi
<1>2. cur \in Tids /\ th[cur] \in Thread /\ ureg \in Regs /\ mem \in Mem
      /\ th \in [Tids -> Thread] /\ Here \in State
  BY <1>1, UserFacts, HereState DEF Inv, TypeOK
<1>3. CASE SingleStep
  <2> DEFINE T == [th EXCEPT ![cur].regs = ureg, ![cur].inst_cnt = @ + 1,
                     ![cur].cumulative_inst_cnt = @ + 1, ![cur].reg_hash = HashInc(ureg, @)]
  <2>1. T \in [Tids -> Thread]
    BY <1>1, StepUpdate
  <2>2. Schedule(T)
    <3>1. Schedule(AfterStep)
      BY <1>3 DEF SingleStep
    <3> QED BY <3>1 DEF AfterStep
  <2>3. FaultPending(cur)
    BY <1>3 DEF SingleStep, FaultPending
  <2>4. Saved = Here /\ Here = [regs |-> ureg, hash |-> HashInc(ureg, th[cur].reg_hash),
                cnt |-> th[cur].cumulative_inst_cnt + 1, mem |-> mem]
    BY <1>3, <2>3 DEF Here, Saved
  <2>5. /\ \A t \in Tids \ {cur} : T[t] = th[t]
        /\ T[cur].regs = ureg /\ T[cur].reg_hash = HashInc(ureg, th[cur].reg_hash)
        /\ T[cur].cumulative_inst_cnt = th[cur].cumulative_inst_cnt + 1
    BY <1>2 DEF Thread
  <2> HIDE DEF T
  <2> QED BY <1>1, <1>2, <1>3, <2>1, <2>2, <2>3, <2>4, <2>5
<1>4. CASE ~SingleStep
  <2> DEFINE T == [th EXCEPT ![cur].regs = trapped]
  <2>1. T \in [Tids -> Thread]
    BY <1>1, StepUpdate
  <2>2. Schedule(T) /\ AtMismatch /\ Insn(ureg) = "putc"
    BY <1>4 DEF SysPutc, AtSwi
  <2>3. ~FaultPending(cur)
    BY <2>2 DEF FaultPending
  <2>4. Here = [regs |-> ureg, hash |-> th[cur].reg_hash,
                cnt |-> th[cur].cumulative_inst_cnt, mem |-> mem]
    <3>1. th[cur].cumulative_inst_cnt + 0 = th[cur].cumulative_inst_cnt
      BY <1>2 DEF Thread
    <3> QED BY <2>3, <3>1 DEF Here
  <2>5. Saved = [regs |-> trapped, hash |-> th[cur].reg_hash,
                 cnt |-> th[cur].cumulative_inst_cnt, mem |-> mem]
    BY <1>4, <2>2, <2>4 DEF Saved, Step, trapped
  <2>6. /\ \A t \in Tids \ {cur} : T[t] = th[t]
        /\ T[cur].regs = trapped /\ T[cur].reg_hash = th[cur].reg_hash
        /\ T[cur].cumulative_inst_cnt = th[cur].cumulative_inst_cnt
    BY <1>2 DEF Thread
  <2>7. ~Ended(Here)
    BY <2>2, <2>4 DEF Ended
  <2>8. Saved \in State
    BY <1>2, <1>4, StepState DEF Saved
  <2> HIDE DEF T
  <2> QED BY <1>1, <1>2, <1>4, <2>1, <2>2, <2>3, <2>4, <2>5, <2>6, <2>7, <2>8
<1> QED BY <1>3, <1>4

\* Then the scheduler goes on with the thread or preempts it.
LEMMA HereSchedules ==
  ASSUME Inv, StepsFromSaved, SingleStep \/ SysPutc
  PROVE  /\ mode' = "user" /\ Tids' = Tids /\ mem' = Saved.mem
         /\ complete_x_before_switch' = complete_x_before_switch
         /\ thread_x_has_yielded' = (thread_x_has_yielded \/ YieldsNow)
         /\ \A t \in Tids \ {cur} : th'[t] = th[t]
         /\ th'[cur].regs = Saved.regs /\ th'[cur].reg_hash = Saved.hash
         /\ th'[cur].cumulative_inst_cnt = Saved.cnt
         /\ cur' \in Tids /\ ~FaultPending(cur)'
         /\ Here' = [regs |-> th'[cur'].regs, hash |-> th'[cur'].reg_hash,
                     cnt |-> th'[cur'].cumulative_inst_cnt, mem |-> mem']
         /\ runq = <<>> => UNCHANGED <<cur, runq>>
         /\ config.type \in {"SEQUENTIAL", "ALL_PATHS"} /\ ~YieldsNow => UNCHANGED <<cur, runq>>
         /\ runq # <<>> /\ YieldsNow => cur' = Head(runq) /\ runq' = Append(Tail(runq), cur)
<1>1. mode = "user" /\ cur \in Tids /\ Saved \in State /\ mem' = Saved.mem
  BY HereSaves
<1>2. PICK T \in [Tids -> Thread] :
              /\ Schedule(T)
              /\ \A t \in Tids \ {cur} : T[t] = th[t]
              /\ T[cur].regs = Saved.regs /\ T[cur].reg_hash = Saved.hash
              /\ T[cur].cumulative_inst_cnt = Saved.cnt
  BY HereSaves
<1>3. XYields(T) <=> YieldsNow
  BY <1>2 DEF XYields, YieldsNow
<1>4. /\ complete_x_before_switch' = complete_x_before_switch
      /\ thread_x_has_yielded' = (thread_x_has_yielded \/ YieldsNow)
  BY <1>2, <1>3 DEF Schedule
<1>5. /\ cur' \in Tids /\ Tids' = Tids /\ mode' = "user"
      /\ ureg' = th'[cur'].regs /\ mismatch' = Pc(th'[cur'].regs)
      /\ th' \in [Tids -> Thread]
      /\ \A t \in Tids : /\ th'[t].regs = T[t].regs /\ th'[t].reg_hash = T[t].reg_hash
                         /\ th'[t].cumulative_inst_cnt = T[t].cumulative_inst_cnt
  BY <1>1, <1>2, ScheduleEffect
<1>6. \A t \in Tids \ {cur} : th'[t] = th[t]
  BY <1>1, <1>2, ScheduleThreads
<1>7. ~FaultPending(cur)'
  BY <1>5 DEF FaultPending, AtMismatch
<1>8. Here' = [regs |-> th'[cur'].regs, hash |-> th'[cur'].reg_hash,
               cnt |-> th'[cur'].cumulative_inst_cnt, mem |-> mem']
  <2>1. th'[cur'].cumulative_inst_cnt + 0 = th'[cur'].cumulative_inst_cnt
    BY <1>5 DEF Thread
  <2> QED BY <1>5, <1>7, <2>1 DEF Here
<1>9. PICK usec \in Ticks :
        \/ /\ Switches(T, usec) /\ runq # <<>>
           /\ cur' = Head(runq)
           /\ runq' = Rotated
        \/ /\ ~(Switches(T, usec) /\ runq # <<>>)
           /\ UNCHANGED <<cur, runq>>
  BY <1>2 DEF Schedule
<1>10. config.type \in {"SEQUENTIAL", "ALL_PATHS"} => (Switches(T, usec) <=> YieldsNow)
  BY <1>3 DEF Switches, QuantumUsed
<1>11. YieldsNow => Switches(T, usec)
  BY <1>3 DEF Switches
<1> QED BY <1>1, <1>2, <1>4, <1>5, <1>6, <1>7, <1>8, <1>9, <1>10, <1>11 DEF Rotated

\* sys_exit: the thread that runs next, or none.
LEMMA HereExits ==
  ASSUME Inv, StepsFromSaved, SysExit
  PROVE  /\ mode = "user" /\ cur \in Tids /\ Ended(Here) /\ ~FaultPending(cur)
         /\ Here.hash = th[cur].reg_hash /\ Here.mem = mem
         /\ Tids' = Tids /\ mem' = mem
         /\ \A t \in Tids \ {cur} : th'[t] = th[t]
         /\ th'[cur].reg_hash = th[cur].reg_hash
         /\ complete_x_before_switch' =
              (complete_x_before_switch \/ (IsX(cur) /\ ~thread_x_has_yielded))
         /\ thread_x_has_yielded' = (thread_x_has_yielded \/ IsX(cur))
         /\ runq = <<>> => mode' = "return" /\ runq' = <<>>
         /\ runq # <<>> => /\ mode' = "user" /\ cur' = Head(runq) /\ runq' = Tail(runq)
                           /\ cur' \in Tids /\ cur' # cur /\ ~FaultPending(cur)'
                           /\ Here' = [regs |-> th[cur'].regs, hash |-> th[cur'].reg_hash,
                                       cnt |-> th[cur'].cumulative_inst_cnt, mem |-> mem]
<1>1. /\ mode = "user" /\ AtMismatch /\ Insn(ureg) = "exit" /\ mem' = mem
      /\ complete_x_before_switch' =
           (complete_x_before_switch \/ (IsX(cur) /\ ~thread_x_has_yielded))
      /\ thread_x_has_yielded' = (thread_x_has_yielded \/ IsX(cur))
      /\ th' = [th EXCEPT ![cur].regs = trapped, ![cur].expected_hash = th[cur].reg_hash]
      /\ runq = <<>> => mode' = "return" /\ runq' = <<>>
      /\ runq # <<>> => mode' = "user" /\ cur' = Head(runq) /\ runq' = Tail(runq)
  BY DEF SysExit, ExpectsNext, AtSwi, RunOneInst
<1>2. cur \in Tids /\ th[cur] \in Thread /\ ureg \in Regs /\ mem \in Mem
      /\ th \in [Tids -> Thread]
  BY <1>1, UserFacts DEF Inv, TypeOK
<1>3. /\ Tids' = Tids /\ \A t \in Tids \ {cur} : th'[t] = th[t]
      /\ mode' = "user" =>
              /\ cur' \in Active \ {cur} /\ cur' \in Tids
              /\ ureg' = th'[cur'].regs /\ mismatch' = Pc(th'[cur'].regs)
  BY ExitEffect
<1>4. ~FaultPending(cur)
  BY <1>1 DEF FaultPending
<1>5. Here.regs = ureg /\ Here.hash = th[cur].reg_hash /\ Here.mem = mem
  BY <1>4 DEF Here
<1>6. th'[cur].reg_hash = th[cur].reg_hash
  BY <1>1, <1>2 DEF Thread
<1>7. ASSUME runq # <<>> PROVE /\ cur' \in Tids /\ cur' # cur /\ ~FaultPending(cur)'
                              /\ th'[cur'] = th[cur']
  BY <1>1, <1>3, <1>7 DEF FaultPending, AtMismatch
<1>8. ASSUME runq # <<>>
      PROVE  Here' = [regs |-> th[cur'].regs, hash |-> th[cur'].reg_hash,
                      cnt |-> th[cur'].cumulative_inst_cnt, mem |-> mem]
  <2>1. ureg' = th'[cur'].regs
    BY <1>1, <1>3, <1>8
  <2>2. th[cur'].cumulative_inst_cnt + 0 = th[cur'].cumulative_inst_cnt
    BY <1>2, <1>7, <1>8 DEF Thread
  <2> QED BY <1>1, <1>7, <1>8, <2>1, <2>2 DEF Here
<1>9. Ended(Here)
  BY <1>1, <1>5 DEF Ended
<1> QED BY <1>1, <1>2, <1>3, <1>4, <1>5, <1>6, <1>7, <1>8, <1>9

-----------------------------------------------------------------------------
(* The invariant: a run stays on the way of the run in turn.               *)

\* What is left of the list o after its first k members.
RestOf(o, k) == [i \in 1..(Len(o) - k) |-> o[k + i]]

LEMMA RestFacts ==
  ASSUME NEW S, NEW o \in Seq(S), NEW k \in 0..Len(o)
  PROVE  /\ RestOf(o, k) \in Seq(S) /\ Len(RestOf(o, k)) = Len(o) - k
         /\ RestOf(o, k) = <<>> <=> k = Len(o)
         /\ k < Len(o) => Head(RestOf(o, k)) = o[k + 1] /\ Tail(RestOf(o, k)) = RestOf(o, k + 1)
<1> DEFINE r == RestOf(o, k)
<1>1. /\ r \in Seq(S) /\ Len(r) = Len(o) - k /\ Len(o) - k \in Nat
      /\ \A i \in 1..(Len(o) - k) : r[i] = o[k + i]
  <2>1. Len(o) - k \in Nat /\ \A i \in 1..(Len(o) - k) : k + i \in 1..Len(o)
    OBVIOUS
  <2>2. r = [i \in 1..(Len(o) - k) |-> o[k + i]]
    BY DEF RestOf
  <2>3. r \in [1..(Len(o) - k) -> S]
    BY <2>1, <2>2
  <2> QED BY <2>1, <2>2, <2>3
<1> HIDE DEF r
<1>2. r = <<>> <=> k = Len(o)
  <2>1. r = <<>> <=> Len(r) = 0
    BY <1>1, EmptySeq
  <2> QED BY <1>1, <2>1
<1>3. ASSUME k < Len(o) PROVE Head(r) = o[k + 1] /\ Tail(r) = RestOf(o, k + 1)
  <2>1. 1 \in 1..(Len(o) - k) /\ Head(r) = r[1]
    BY <1>1, <1>3
  <2>2. /\ Tail(r) \in Seq(S) /\ Len(Tail(r)) = Len(o) - k - 1
        /\ \A i \in 1..(Len(o) - k - 1) : Tail(r)[i] = r[i + 1]
    BY <1>1, <1>2, <1>3
  <2>3. Len(o) - (k + 1) = Len(o) - k - 1
    OBVIOUS
  <2>4. \A i \in 1..(Len(o) - k - 1) : Tail(r)[i] = o[(k + 1) + i]
    BY <1>1, <2>2
  <2> DEFINE t == Tail(r)
  <2>5. t = [i \in 1..(Len(o) - k - 1) |-> t[i]]
    <3>1. t \in Seq(S) /\ Len(t) = Len(o) - k - 1
      BY <2>2
    <3> HIDE DEF t
    <3>2. t = [i \in 1..Len(t) |-> t[i]]
      BY <3>1
    <3> QED BY <3>1, <3>2
  <2> QED BY <1>1, <2>1, <2>3, <2>4, <2>5 DEF RestOf
<1> QED BY <1>1, <1>2, <1>3 DEF r

LEMMA RestAppend ==
  ASSUME NEW S, NEW o \in Seq(S), NEW e \in S, NEW k \in 0..Len(o)
  PROVE  Append(RestOf(o, k), e) = RestOf(Append(o, e), k)
<1> DEFINE r == RestOf(o, k)
           a == Append(r, e)
           b == RestOf(Append(o, e), k)
<1>1. /\ r \in Seq(S) /\ Len(r) = Len(o) - k /\ Len(o) - k \in Nat
      /\ \A i \in 1..(Len(o) - k) : r[i] = o[k + i]
  BY RestFacts DEF RestOf
<1>2. Len(Append(o, e)) = Len(o) + 1 /\ (Len(o) + 1) - k = (Len(o) - k) + 1
      /\ Append(o, e)[Len(o) + 1] = e /\ \A i \in 1..Len(o) : Append(o, e)[i] = o[i]
  OBVIOUS
<1>3. b = [i \in 1..((Len(o) - k) + 1) |-> Append(o, e)[k + i]]
  BY <1>2 DEF RestOf
<1> HIDE DEF r
<1>4. /\ Len(a) = (Len(o) - k) + 1 /\ a = [i \in 1..Len(a) |-> a[i]]
      /\ a[(Len(o) - k) + 1] = e /\ \A i \in 1..(Len(o) - k) : a[i] = r[i]
  <2>1. /\ a \in Seq(S) /\ Len(a) = Len(r) + 1 /\ a[Len(r) + 1] = e
        /\ \A i \in 1..Len(r) : a[i] = r[i]
    BY <1>1
  <2> HIDE DEF a
  <2>2. a = [i \in 1..Len(a) |-> a[i]]
    BY <2>1
  <2> QED BY <1>1, <2>1, <2>2
<1> HIDE DEF a, b
<1>5. ASSUME NEW i \in 1..((Len(o) - k) + 1) PROVE a[i] = Append(o, e)[k + i]
  <2>1. CASE i = (Len(o) - k) + 1
    <3>1. k + i = Len(o) + 1
      BY <2>1
    <3> QED BY <1>2, <1>4, <2>1, <3>1
  <2>2. CASE i # (Len(o) - k) + 1
    <3>1. i \in 1..(Len(o) - k) /\ k + i \in 1..Len(o)
      <4>1. Len(o) \in Nat /\ k \in Nat /\ k <= Len(o) /\ i \in Nat /\ i >= 1
        OBVIOUS
      <4>2. i <= Len(o) - k
        BY <2>2, <4>1
      <4> QED BY <4>1, <4>2
    <3>2. a[i] = o[k + i]
      BY <1>1, <1>4, <3>1
    <3>3. Append(o, e)[k + i] = o[k + i]
      BY <1>2, <3>1
    <3> QED BY <3>2, <3>3
  <2> QED BY <2>1, <2>2
<1>6. a = b
  BY <1>3, <1>4, <1>5
<1> QED BY <1>6 DEF a, b, r

\* X runs for n instructions; Never is no such number.
SwitchPoint(n) == n = Never \/ n \in Nat \ {0}

\* A switch point with what lies behind it, the end included.
After(n) == {n, Never} \cup {i \in Nat : n # Never /\ i > n}

LEMMA AfterFacts ==
  ASSUME NEW n, SwitchPoint(n)
  PROVE  /\ n \in After(n) /\ Never \in After(n)
         /\ \A i \in After(n), c \in Nat : (n # Never => c < n) => c # i
BY DEF After, SwitchPoint, Never

Begun(J, m) == At(J[1].fn, J[1].sp, m)

\* The threads q execute the jobs J, one after the other, but for the first one
\* when it is X: n is its switch point then, and Never otherwise.  The memory
\* was m at the start.
SetUp(q, J, n, m) ==
    /\ q \in Seq(Tids) /\ q # <<>> /\ IsInjective(q)
    /\ J = JobsOf(q) /\ m \in Mem
    /\ SwitchPoint(n)
    /\ Len(q) > 1 => config.type \in {"SEQUENTIAL", "ALL_PATHS"}
    /\ \A k \in 1..Len(q) : IsX(q[k]) <=> k = 1 /\ n # Never
    /\ n # Never => config.switch_on_inst_n = n

\* The first routine ends before its switch point, and any later one would do
\* as well.
Short(J, n, m) ==
    /\ RunTo(Begun(J, m), n) \in State /\ Ended(RunTo(Begun(J, m), n))
    /\ \A i \in After(n) : RunTo(Begun(J, m), i) = RunTo(Begun(J, m), n)

\* The first thread runs up to the switch point.
OnX(q, J, n, m) ==
    /\ cur = q[1] /\ runq = RestOf(q, 1)
    /\ \A j \in 2..Len(q) : Unstarted(q[j])
    /\ n # Never => /\ ~thread_x_has_yielded /\ ~complete_x_before_switch
                    /\ Here.cnt <= n
                    /\ Here.cnt = n => FaultPending(cur)
    /\ \A i \in After(n) : RunTo(Here, i) = RunTo(Begun(J, m), i)

\* It waits at the switch point, when it was cut, or has finished.
XStopped(q, J, n, m, cut) ==
    LET s == Stops(J, n, m)[1]
        t == th[q[1]]
    IN  /\ s \in State /\ t.reg_hash = s.hash
        /\ cut => /\ n # Never /\ thread_x_has_yielded /\ ~complete_x_before_switch
                  /\ t.regs = s.regs /\ t.cumulative_inst_cnt = s.cnt
        /\ ~cut => Short(J, n, m)

\* One of the others runs.
OnOtherAt(q, J, n, m, k, cut) ==
    /\ cur = q[k] /\ runq = RestOf(IF cut THEN Append(q, q[1]) ELSE q, k)
    /\ \A j \in (k + 1)..Len(q) : Unstarted(q[j])
    /\ \A j \in 2..(k - 1) : th[q[j]].reg_hash = Stops(J, n, m)[j].hash
    /\ RunTo(Here, Never) = Stops(J, n, m)[k]
    /\ XStopped(q, J, n, m, cut)

OnOther(q, J, n, m) == \E k \in 2..Len(q), cut \in BOOLEAN : OnOtherAt(q, J, n, m, k, cut)

Resumed(J, n, m) == [Stops(J, n, m)[1] EXCEPT !.mem = Stops(J, n, m)[Len(J)].mem]
LastStop(J, n, m) == RunTo(Resumed(J, n, m), Never)

\* All others have finished, and the first thread goes on.
OnRest(q, J, n, m) ==
    /\ cur = q[1] /\ runq = <<>>
    /\ n # Never /\ thread_x_has_yielded /\ ~complete_x_before_switch
    /\ \A j \in 2..Len(q) : th[q[j]].reg_hash = Stops(J, n, m)[j].hash
    /\ RunTo(Here, Never) = LastStop(J, n, m)

Over(q, J, n, m) ==
    /\ LeftBy(q) = CutRun(J, n, m)
    /\ complete_x_before_switch \/ n = Never => Short(J, n, m)

Along(q, J, n, m) ==
    /\ SetUp(q, J, n, m)
    /\ mode = "user" => OnX(q, J, n, m) \/ OnOther(q, J, n, m) \/ OnRest(q, J, n, m)
    /\ mode # "user" => Over(q, J, n, m)
-----------------------------------------------------------------------------
LEMMA SetUpFacts ==
  ASSUME Inv, NEW q, NEW J, NEW n, NEW m, SetUp(q, J, n, m)
  PROVE  /\ q \in Seq(Tids) /\ Len(q) \in Nat \ {0} /\ Len(J) = Len(q)
         /\ \A k \in 1..Len(q) : /\ q[k] \in Tids /\ th[q[k]] \in Thread
                                 /\ J[k].fn = th[q[k]].fn /\ J[k].sp = th[q[k]].stack_end
                                 /\ J[k].fn \in Routines /\ J[k].sp \in StackEnds
         /\ \A i, k \in 1..Len(q) : q[i] = q[k] => i = k
<1>1. q \in Seq(Tids) /\ q # <<>> /\ IsInjective(q) /\ J = JobsOf(q) /\ th \in [Tids -> Thread]
  BY DEF SetUp, Inv, TypeOK
<1>2. Len(q) \in Nat \ {0} /\ DOMAIN q = 1..Len(q) /\ \A k \in 1..Len(q) : q[k] \in Tids
  BY <1>1, EmptySeq
<1>3. Len(J) = Len(q)
  BY <1>1, <1>2 DEF JobsOf
<1>4. \A k \in 1..Len(q) : J[k].fn = th[q[k]].fn /\ J[k].sp = th[q[k]].stack_end
  BY <1>1, <1>2 DEF JobsOf, Job
<1>5. \A i, k \in 1..Len(q) : q[i] = q[k] => i = k
  BY <1>1, <1>2 DEF IsInjective
<1> QED BY <1>1, <1>2, <1>3, <1>4, <1>5 DEF Thread

\* The set-up is that of the whole run.
LEMMA SetUpFrame ==
  ASSUME NEW q, NEW J, NEW n, NEW m, SetUp(q, J, n, m), Inv,
         Tids' = Tids, UNCHANGED config,
         \A t \in Tids : th'[t].fn = th[t].fn /\ th'[t].stack_end = th[t].stack_end
  PROVE  SetUp(q, J, n, m)'
<1>1. \A k \in 1..Len(q) : q[k] \in Tids
  BY SetUpFacts
<1>2. JobsOf(q)' = JobsOf(q)
  BY <1>1 DEF JobsOf, Job
<1> QED BY <1>2 DEF SetUp, IsX

LEMMA StopsFacts ==
  ASSUME NEW J, NEW n, NEW m, Len(J) \in Nat \ {0}
  PROVE  /\ Stops(J, n, m)[1] = RunTo(Begun(J, m), n)
         /\ \A k \in 2..Len(J) :
              Stops(J, n, m)[k] = Alone(J[k].fn, J[k].sp, Stops(J, n, m)[k - 1].mem)
<1>1. 1 \in 1..Len(J) /\ \A k \in 2..Len(J) : k \in 1..Len(J) /\ k # 1
  OBVIOUS
<1>2. \A k \in 1..Len(J) : Stops(J, n, m)[k] = StopAt(J, n, m, k, Stops(J, n, m)[k - 1])
  BY StopsSteps
<1>3. Stops(J, n, m)[1] = RunTo(Begun(J, m), n)
  BY <1>1, <1>2 DEF StopAt, Begun
<1>4. ASSUME NEW k \in 2..Len(J)
      PROVE  Stops(J, n, m)[k] = Alone(J[k].fn, J[k].sp, Stops(J, n, m)[k - 1].mem)
  BY <1>1, <1>2, <1>4 DEF StopAt
<1> QED BY <1>3, <1>4

LEMMA CutRunFacts ==
  ASSUME NEW J, NEW n, NEW m, Len(J) \in Nat \ {0}
  PROVE  CutRun(J, n, m) =
           [hashes |-> [k \in 1..Len(J) |-> IF k = 1 THEN LastStop(J, n, m).hash
                                                     ELSE Stops(J, n, m)[k].hash],
            mem |-> LastStop(J, n, m).mem]
BY DEF CutRun, LastStop, Resumed

LEMMA RunToUnfold ==
  ASSUME NEW s \in State, NEW n
  PROVE  /\ Ended(s) \/ s.cnt = n => RunTo(s, n) = s
         /\ ~Ended(s) /\ s.cnt # n => RunTo(s, n) = RunTo(Step(s), n)
BY RunToSteps DEF StopsAt

\* To the end of the routine no count stops the run.
LEMMA RunToEnd ==
  ASSUME NEW s \in State, ~Ended(s)
  PROVE  RunTo(s, Never) = RunTo(Step(s), Never)
<1>1. s.cnt # Never
  BY DEF State, Never
<1> QED BY <1>1, RunToUnfold

LEMMA XRuns ==
  ASSUME Inv, mode = "user", NEW q, NEW J, NEW n, NEW m, SetUp(q, J, n, m), OnX(q, J, n, m),
         ~Ended(Here), ~FaultPending(cur)
  PROVE  /\ \A i \in After(n) : RunTo(Step(Here), i) = RunTo(Begun(J, m), i)
         /\ n # Never => n \in Nat /\ Here.cnt < n
<1>1. Here \in State /\ Here.cnt \in Nat
  BY HereState DEF State
<1>2. SwitchPoint(n)
  BY DEF SetUp
<1>3. n # Never => n \in Nat /\ Here.cnt < n
  BY <1>1, <1>2 DEF OnX, SwitchPoint
<1>4. ASSUME NEW i \in After(n) PROVE RunTo(Step(Here), i) = RunTo(Begun(J, m), i)
  <2>1. Here.cnt # i
    BY <1>1, <1>2, <1>3, AfterFacts
  <2>2. RunTo(Here, i) = RunTo(Step(Here), i)
    BY <1>1, <2>1, RunToUnfold
  <2> QED BY <2>2 DEF OnX
<1> QED BY <1>3, <1>4

LEMMA AlongUserInst ==
  ASSUME Inv, StepsFromSaved, NoSelfBranch, UserInst,
         NEW q, NEW J, NEW n, NEW m, Along(q, J, n, m)
  PROVE  Along(q, J, n, m)'
<1>1. /\ mode = "user" /\ ~Ended(Here) /\ ~FaultPending(cur)
      /\ UNCHANGED <<th, ntids, runq, runVars, config, flagVars, mode>>
      /\ FaultPending(cur)' /\ Here' = Step(Here)
  BY HereUserInst
<1>2. SetUp(q, J, n, m)'
  BY <1>1, SetUpFrame DEF Along, Tids
<1>3. Here \in State /\ Here.cnt \in Nat /\ Step(Here) \in State
  BY <1>1, HereState, StepState DEF State
<1>4. RunTo(Here', Never) = RunTo(Here, Never)
  BY <1>1, <1>3, RunToEnd
<1>5. UNCHANGED <<cur, thread_x_has_yielded, complete_x_before_switch>>
  BY <1>1 DEF runVars, flagVars
<1>6. CASE OnX(q, J, n, m)
  <2>1. \A i \in After(n) : RunTo(Here', i) = RunTo(Begun(J, m), i)
    BY <1>1, <1>6, XRuns DEF Along
  <2>2. n # Never => n \in Nat /\ Here.cnt < n
    BY <1>1, <1>6, XRuns DEF Along
  <2>3. Here'.cnt = Here.cnt + 1 \/ Here'.cnt = Here.cnt
    BY <1>1, <1>3 DEF Step, State
  <2>4. n # Never => Here'.cnt <= n
    BY <1>3, <2>2, <2>3
  <2>5. OnX(q, J, n, m)'
    BY <1>1, <1>5, <1>6, <2>1, <2>4 DEF OnX, Unstarted
  <2> QED BY <1>1, <1>2, <2>5 DEF Along
<1>7. CASE OnOther(q, J, n, m)
  <2>1. PICK k \in 2..Len(q), cut \in BOOLEAN : OnOtherAt(q, J, n, m, k, cut)
    BY <1>7 DEF OnOther
  <2>2. OnOtherAt(q, J, n, m, k, cut)'
    BY <1>1, <1>4, <1>5, <2>1 DEF OnOtherAt, Unstarted, XStopped
  <2>3. OnOther(q, J, n, m)'
    BY <2>2 DEF OnOther
  <2> QED BY <1>1, <1>2, <2>3 DEF Along
<1>8. CASE OnRest(q, J, n, m)
  <2>1. OnRest(q, J, n, m)'
    BY <1>1, <1>4, <1>5, <1>8 DEF OnRest
  <2> QED BY <1>1, <1>2, <2>1 DEF Along
<1> QED BY <1>1, <1>6, <1>7, <1>8 DEF Along

\* The thread that has just been given the CPU stands where it was left.
LEMMA BeginOther ==
  ASSUME Inv, NEW q, NEW J, NEW n, NEW m, SetUp(q, J, n, m), NEW k \in 1..Len(q),
         Unstarted(q[k])
  PROVE  [regs |-> th[q[k]].regs, hash |-> th[q[k]].reg_hash,
          cnt |-> th[q[k]].cumulative_inst_cnt, mem |-> mem] = At(J[k].fn, J[k].sp, mem)
BY SetUpFacts DEF Unstarted, At

LEMMA BegunState ==
  ASSUME Inv, NEW q, NEW J, NEW n, NEW m, SetUp(q, J, n, m)
  PROVE  Begun(J, m) \in State
<1>1. 1 \in 1..Len(q) /\ J[1].fn \in Routines /\ J[1].sp \in StackEnds /\ m \in Mem
  BY SetUpFacts DEF SetUp
<1> QED BY <1>1, AtState DEF Begun

\* The record a thread stands at after it was given the CPU.
LEMMA HandlerFacts ==
  ASSUME Inv, StepsFromSaved, SingleStep \/ SysPutc,
         NEW q, NEW J, NEW n, NEW m, SetUp(q, J, n, m)
  PROVE  /\ SetUp(q, J, n, m)' /\ mode = "user" /\ mode' = "user" /\ mem' = Saved.mem
         /\ Saved \in State /\ RunTo(Saved, Never) = RunTo(Here, Never)
         /\ UNCHANGED <<cur, runq>> => Here' = Saved
         /\ \A t \in Tids \ {cur} : th'[t] = th[t]
         /\ \A t : t \in Tids \ {cur} /\ Unstarted(t) => Unstarted(t)'
<1>1. /\ mode = "user" /\ cur \in Tids /\ Saved \in State
      /\ ~SingleStep => ~Ended(Here)
  BY HereSaves
<1>2. /\ mode' = "user" /\ Tids' = Tids /\ mem' = Saved.mem
      /\ \A t \in Tids \ {cur} : th'[t] = th[t]
      /\ th'[cur].regs = Saved.regs /\ th'[cur].reg_hash = Saved.hash
      /\ th'[cur].cumulative_inst_cnt = Saved.cnt
      /\ Here' = [regs |-> th'[cur'].regs, hash |-> th'[cur'].reg_hash,
                  cnt |-> th'[cur'].cumulative_inst_cnt, mem |-> mem']
  BY HereSchedules
<1>3. config' = config /\ \A t \in Tids : th'[t].fn = th[t].fn /\ th'[t].stack_end = th[t].stack_end
  BY MachineFrame DEF Machine
<1>4. SetUp(q, J, n, m)'
  BY <1>2, <1>3, SetUpFrame
<1>5. RunTo(Saved, Never) = RunTo(Here, Never)
  BY <1>1, HereState, RunToEnd DEF Saved
<1>6. ASSUME cur' = cur PROVE Here' = Saved
  <2>1. Here' = [regs |-> Saved.regs, hash |-> Saved.hash, cnt |-> Saved.cnt, mem |-> Saved.mem]
    BY <1>2, <1>6
  <2> QED BY <1>1, <2>1 DEF State
<1>7. ASSUME NEW t \in Tids \ {cur}, Unstarted(t) PROVE Unstarted(t)'
  BY <1>2, <1>7 DEF Unstarted
<1> QED BY <1>1, <1>2, <1>4, <1>5, <1>6, <1>7

\* While X has not been cut, the handlers go on with it or cut it.
LEMMA AlongHandlerX ==
  ASSUME Inv, StepsFromSaved, SingleStep \/ SysPutc,
         NEW q, NEW J, NEW n, NEW m, SetUp(q, J, n, m), OnX(q, J, n, m)
  PROVE  Along(q, J, n, m)'
<1>1. /\ SetUp(q, J, n, m)' /\ mode = "user" /\ mode' = "user" /\ mem' = Saved.mem
      /\ Saved \in State
      /\ UNCHANGED <<cur, runq>> => Here' = Saved
      /\ \A t \in Tids \ {cur} : th'[t] = th[t]
      /\ \A t : t \in Tids \ {cur} /\ Unstarted(t) => Unstarted(t)'
  BY HandlerFacts
<1>2. /\ complete_x_before_switch' = complete_x_before_switch
      /\ thread_x_has_yielded' = (thread_x_has_yielded \/ YieldsNow)
      /\ th'[cur].regs = Saved.regs /\ th'[cur].reg_hash = Saved.hash
      /\ th'[cur].cumulative_inst_cnt = Saved.cnt
      /\ ~FaultPending(cur)'
      /\ Here' = [regs |-> th'[cur'].regs, hash |-> th'[cur'].reg_hash,
                  cnt |-> th'[cur'].cumulative_inst_cnt, mem |-> mem']
      /\ runq = <<>> => UNCHANGED <<cur, runq>>
      /\ config.type \in {"SEQUENTIAL", "ALL_PATHS"} /\ ~YieldsNow => UNCHANGED <<cur, runq>>
      /\ runq # <<>> /\ YieldsNow => cur' = Head(runq) /\ runq' = Append(Tail(runq), cur)
  BY HereSchedules
<1>3. /\ q \in Seq(Tids) /\ Len(q) \in Nat \ {0} /\ Len(J) = Len(q)
      /\ \A k \in 1..Len(q) : q[k] \in Tids
      /\ \A i, k \in 1..Len(q) : q[i] = q[k] => i = k
  BY SetUpFacts
<1>4. /\ cur = q[1] /\ runq = RestOf(q, 1) /\ \A j \in 2..Len(q) : Unstarted(q[j])
      /\ 1 \in 1..Len(q) /\ 1 \in 0..Len(q)
  BY <1>3 DEF OnX
<1>5. \A i \in After(n) : RunTo(Saved, i) = RunTo(Begun(J, m), i)
  <2>1. CASE SingleStep
    BY <2>1 DEF OnX, Saved
  <2>2. CASE ~SingleStep
    <3>1. ~FaultPending(cur) /\ ~Ended(Here)
      BY <2>2, HereSaves
    <3> QED BY <1>1, <2>2, <3>1, XRuns DEF Saved
  <2> QED BY <2>1, <2>2
<1>6. n # Never => /\ n \in Nat /\ Saved.cnt <= n /\ config.switch_on_inst_n = n
                   /\ ~SingleStep => Saved.cnt < n
                   /\ YieldsNow <=> Saved.cnt = n
  <2> SUFFICES ASSUME n # Never
               PROVE /\ n \in Nat /\ Saved.cnt <= n /\ config.switch_on_inst_n = n
                     /\ ~SingleStep => Saved.cnt < n
                     /\ YieldsNow <=> Saved.cnt = n
    OBVIOUS
  <2>1. n \in Nat /\ config.switch_on_inst_n = n /\ IsX(cur)
    BY <1>4 DEF SetUp, SwitchPoint
  <2>2. SingleStep => Saved = Here
    BY DEF Saved
  <2>3. ~SingleStep => Saved.cnt = Here.cnt /\ ~FaultPending(cur) /\ ~Ended(Here)
    BY HereSaves
  <2>4. ~SingleStep => Here.cnt < n
    BY <1>1, <2>3, XRuns
  <2>5. Here.cnt <= n
    BY DEF OnX
  <2> QED BY <2>1, <2>2, <2>3, <2>4, <2>5 DEF YieldsNow
<1>7. n = Never => ~YieldsNow
  BY <1>4 DEF YieldsNow, SetUp
<1>8. runq = <<>> <=> Len(q) = 1
  BY <1>3, <1>4, RestFacts
<1>9. \A j \in 2..Len(q) : q[j] \in Tids \ {cur} /\ Unstarted(q[j])'
  BY <1>1, <1>3, <1>4
<1>10. CASE ~YieldsNow
  <2>1. UNCHANGED <<cur, runq>> /\ Here' = Saved
    <3>1. CASE Len(q) = 1
      BY <1>1, <1>2, <1>8, <3>1
    <3>2. CASE Len(q) # 1
      <4>1. config.type \in {"SEQUENTIAL", "ALL_PATHS"}
        BY <1>3, <3>2 DEF SetUp
      <4> QED BY <1>1, <1>2, <1>10, <4>1
    <3> QED BY <3>1, <3>2
  <2>2. n # Never => /\ ~thread_x_has_yielded' /\ ~complete_x_before_switch'
                     /\ Here'.cnt <= n /\ Here'.cnt # n
    BY <1>2, <1>6, <1>10, <2>1 DEF OnX
  <2>3. OnX(q, J, n, m)'
    BY <1>4, <1>5, <1>9, <2>1, <2>2 DEF OnX
  <2> QED BY <1>1, <2>3 DEF Along
<1> DEFINE stop == Stops(J, n, m)
<1>11. ASSUME YieldsNow
       PROVE  n # Never /\ thread_x_has_yielded' /\ ~complete_x_before_switch' /\ stop[1] = Saved
  <2>1. n # Never /\ Saved.cnt = n
    BY <1>6, <1>7, <1>11
  <2>2. RunTo(Saved, n) = Saved
    BY <1>1, <2>1, RunToUnfold
  <2>3. RunTo(Begun(J, m), n) = Saved
    BY <1>5, <2>2 DEF After
  <2>4. stop[1] = Saved
    BY <1>3, <2>3, StopsFacts
  <2> QED BY <1>2, <1>11, <2>1, <2>4 DEF OnX
<1> HIDE DEF stop
<1>12. CASE YieldsNow /\ runq = <<>>
  <2>1. UNCHANGED <<cur, runq>> /\ Here' = Saved /\ Len(J) = 1
    BY <1>1, <1>2, <1>3, <1>8, <1>12
  <2>2. Resumed(J, n, m) = Saved
    <3>1. Resumed(J, n, m) = [Saved EXCEPT !.mem = Saved.mem]
      BY <1>11, <1>12, <2>1 DEF Resumed, stop
    <3> QED BY <1>1, <3>1 DEF State
  <2>3. RunTo(Here', Never) = LastStop(J, n, m)
    BY <2>1, <2>2 DEF LastStop
  <2>4. \A j \in 2..Len(q) : FALSE
    <3>1. Len(q) = 1
      BY <1>8, <1>12
    <3> QED BY <3>1
  <2>5. OnRest(q, J, n, m)'
    BY <1>4, <1>11, <1>12, <2>1, <2>3, <2>4 DEF OnRest
  <2> QED BY <1>1, <2>5 DEF Along
<1>13. CASE YieldsNow /\ runq # <<>>
  <2>1. 2 \in 2..Len(q) /\ 1 < Len(q) /\ 2 \in 1..Len(q)
    BY <1>3, <1>8, <1>13
  <2>2. cur' = q[2] /\ runq' = RestOf(Append(q, q[1]), 2)
    <3>1. Head(runq) = q[2] /\ Tail(runq) = RestOf(q, 2)
      <4>1. 1 + 1 = 2
        OBVIOUS
      <4>2. Head(RestOf(q, 1)) = q[1 + 1] /\ Tail(RestOf(q, 1)) = RestOf(q, 1 + 1)
        BY <1>3, <1>4, <2>1, RestFacts
      <4> QED BY <1>4, <4>1, <4>2
    <3>2. Append(RestOf(q, 2), q[1]) = RestOf(Append(q, q[1]), 2)
      BY <1>3, <1>4, <2>1, RestAppend
    <3> QED BY <1>2, <1>4, <1>13, <3>1, <3>2
  <2>3. th'[q[2]] = th[q[2]] /\ Unstarted(q[2])
    BY <1>1, <1>4, <1>9, <2>1
  <2>4. J[2].fn = th[q[2]].fn /\ J[2].sp = th[q[2]].stack_end
    BY <2>1, SetUpFacts
  <2>5. Here' = At(J[2].fn, J[2].sp, Saved.mem)
    BY <1>1, <1>2, <2>2, <2>3, <2>4 DEF Unstarted, At
  <2>6. RunTo(Here', Never) = stop[2]
    <3>1. stop[2] = Alone(J[2].fn, J[2].sp, stop[1].mem)
      <4>1. 2 - 1 = 1
        OBVIOUS
      <4> QED BY <1>3, <2>1, <4>1, StopsFacts DEF stop
    <3> QED BY <1>11, <1>13, <2>5, <3>1 DEF Alone
  <2>7. XStopped(q, J, n, m, TRUE)'
    BY <1>1, <1>2, <1>4, <1>11, <1>13 DEF XStopped, stop
  <2>8. \A j \in (2 + 1)..Len(q) : Unstarted(q[j])'
    BY <1>9, <1>3
  <2>9. \A j \in 2..(2 - 1) : FALSE
    OBVIOUS
  <2>10. OnOtherAt(q, J, n, m, 2, TRUE)'
    BY <2>2, <2>6, <2>7, <2>8, <2>9 DEF OnOtherAt, stop
  <2>11. OnOther(q, J, n, m)'
    BY <2>1, <2>10 DEF OnOther
  <2> QED BY <1>1, <2>11 DEF Along
<1> QED BY <1>10, <1>12, <1>13

\* The handlers go on with another thread, and with X after its cut.
LEMMA AlongHandlerOther ==
  ASSUME Inv, StepsFromSaved, SingleStep \/ SysPutc,
         NEW q, NEW J, NEW n, NEW m, SetUp(q, J, n, m), OnOther(q, J, n, m)
  PROVE  Along(q, J, n, m)'
<1>1. /\ SetUp(q, J, n, m)' /\ mode = "user" /\ mode' = "user"
      /\ RunTo(Saved, Never) = RunTo(Here, Never)
      /\ UNCHANGED <<cur, runq>> => Here' = Saved
      /\ \A t \in Tids \ {cur} : th'[t] = th[t]
      /\ \A t : t \in Tids \ {cur} /\ Unstarted(t) => Unstarted(t)'
  BY HandlerFacts
<1>2. /\ complete_x_before_switch' = complete_x_before_switch
      /\ thread_x_has_yielded' = (thread_x_has_yielded \/ YieldsNow)
      /\ config.type \in {"SEQUENTIAL", "ALL_PATHS"} /\ ~YieldsNow => UNCHANGED <<cur, runq>>
  BY HereSchedules
<1>3. /\ q \in Seq(Tids) /\ Len(q) \in Nat \ {0} /\ Len(J) = Len(q)
      /\ \A k \in 1..Len(q) : q[k] \in Tids
      /\ \A i, k \in 1..Len(q) : q[i] = q[k] => i = k
  BY SetUpFacts
<1>4. PICK k \in 2..Len(q), cut \in BOOLEAN : OnOtherAt(q, J, n, m, k, cut)
  BY DEF OnOther
<1>5. cur = q[k] /\ k \in 1..Len(q) /\ k # 1 /\ Len(q) > 1
  BY <1>3, <1>4 DEF OnOtherAt
<1>6. ~YieldsNow /\ config.type \in {"SEQUENTIAL", "ALL_PATHS"}
  BY <1>5 DEF SetUp, YieldsNow
<1>7. UNCHANGED <<cur, runq>> /\ Here' = Saved
  BY <1>1, <1>2, <1>6
<1>8. \A j \in 1..Len(q) : j # k => q[j] \in Tids \ {cur} /\ th'[q[j]] = th[q[j]]
  BY <1>1, <1>3, <1>5
<1>9. \A j \in (k + 1)..Len(q) : Unstarted(q[j])'
  <2>1. \A j \in (k + 1)..Len(q) : j \in 1..Len(q) /\ j # k
    BY <1>3
  <2> QED BY <1>1, <1>4, <1>8, <2>1 DEF OnOtherAt
<1>10. \A j \in 2..(k - 1) : th'[q[j]].reg_hash = Stops(J, n, m)[j].hash
  <2>1. \A j \in 2..(k - 1) : j \in 1..Len(q) /\ j # k
    BY <1>3
  <2> QED BY <1>4, <1>8, <2>1 DEF OnOtherAt
<1>11. XStopped(q, J, n, m, cut)'
  <2>1. th'[q[1]] = th[q[1]]
    BY <1>3, <1>5, <1>8
  <2> QED BY <1>2, <1>4, <1>6, <2>1 DEF OnOtherAt, XStopped
<1>12. OnOtherAt(q, J, n, m, k, cut)'
  BY <1>1, <1>4, <1>7, <1>9, <1>10, <1>11 DEF OnOtherAt
<1> QED BY <1>1, <1>12 DEF Along, OnOther

LEMMA AlongHandlerRest ==
  ASSUME Inv, StepsFromSaved, SingleStep \/ SysPutc,
         NEW q, NEW J, NEW n, NEW m, SetUp(q, J, n, m), OnRest(q, J, n, m)
  PROVE  Along(q, J, n, m)'
<1>1. /\ SetUp(q, J, n, m)' /\ mode' = "user"
      /\ RunTo(Saved, Never) = RunTo(Here, Never)
      /\ UNCHANGED <<cur, runq>> => Here' = Saved
      /\ \A t \in Tids \ {cur} : th'[t] = th[t]
  BY HandlerFacts
<1>2. /\ complete_x_before_switch' = complete_x_before_switch
      /\ thread_x_has_yielded' = (thread_x_has_yielded \/ YieldsNow)
      /\ runq = <<>> => UNCHANGED <<cur, runq>>
  BY HereSchedules
<1>3. \A j \in 2..Len(q) : q[j] \in Tids \ {cur}
  <2>1. \A j \in 2..Len(q) : j \in 1..Len(q) /\ 1 \in 1..Len(q) /\ j # 1
    BY SetUpFacts
  <2> QED BY <2>1, SetUpFacts DEF OnRest
<1>4. \A j \in 2..Len(q) : th'[q[j]] = th[q[j]]
  BY <1>1, <1>3
<1>5. UNCHANGED <<cur, runq>> /\ Here' = Saved
  BY <1>1, <1>2 DEF OnRest
<1>6. OnRest(q, J, n, m)'
  BY <1>1, <1>2, <1>4, <1>5 DEF OnRest
<1> QED BY <1>1, <1>6 DEF Along

\* The last exit leaves what the run in turn leaves.
LEMMA LeftIsCutRun ==
  ASSUME Inv, NEW q, NEW J, NEW n, NEW m, SetUp(q, J, n, m),
         th[q[1]].reg_hash = LastStop(J, n, m).hash,
         \A j \in 2..Len(q) : th[q[j]].reg_hash = Stops(J, n, m)[j].hash,
         mem = LastStop(J, n, m).mem
  PROVE  LeftBy(q) = CutRun(J, n, m)
<1>1. Len(q) \in Nat \ {0} /\ Len(J) = Len(q)
  BY SetUpFacts
<1>2. \A k \in 1..Len(q) : k = 1 \/ k \in 2..Len(q)
  BY <1>1
<1>3. [k \in 1..Len(q) |-> th[q[k]].reg_hash] =
        [k \in 1..Len(J) |-> IF k = 1 THEN LastStop(J, n, m).hash ELSE Stops(J, n, m)[k].hash]
  BY <1>1, <1>2
<1> QED BY <1>1, <1>3, CutRunFacts DEF LeftBy

LEMMA ExitFacts ==
  ASSUME Inv, StepsFromSaved, SysExit, NEW q, NEW J, NEW n, NEW m, SetUp(q, J, n, m)
  PROVE  /\ SetUp(q, J, n, m)' /\ Here \in State
         /\ \A t \in Tids \ {cur} : th'[t] = th[t]
         /\ \A t : t \in Tids \ {cur} /\ Unstarted(t) => Unstarted(t)'
         /\ \A t \in Tids : th'[t].reg_hash = th[t].reg_hash
         /\ \A i : RunTo(Here, i) = Here
         /\ LeftBy(q)' = LeftBy(q)
<1>1. /\ mode = "user" /\ cur \in Tids /\ Ended(Here) /\ Tids' = Tids
      /\ \A t \in Tids \ {cur} : th'[t] = th[t]
      /\ th'[cur].reg_hash = th[cur].reg_hash
  BY HereExits
<1>2. config' = config /\ \A t \in Tids : th'[t].fn = th[t].fn /\ th'[t].stack_end = th[t].stack_end
  BY MachineFrame DEF Machine
<1>3. SetUp(q, J, n, m)'
  BY <1>1, <1>2, SetUpFrame
<1>4. ASSUME NEW t \in Tids \ {cur}, Unstarted(t) PROVE Unstarted(t)'
  BY <1>1, <1>4 DEF Unstarted
<1>5. Here \in State /\ \A i : RunTo(Here, i) = Here
  BY <1>1, HereState, RunToUnfold
<1>6. LeftBy(q)' = LeftBy(q)
  <2>1. mem' = mem /\ \A k \in 1..Len(q) : th'[q[k]].reg_hash = th[q[k]].reg_hash
    BY <1>1, HereExits, SetUpFacts
  <2> QED BY <2>1 DEF LeftBy
<1> QED BY <1>1, <1>3, <1>4, <1>5, <1>6

\* The thread after the k-th one gets the CPU when that exits.
LEMMA NextOther ==
  ASSUME Inv, StepsFromSaved, SysExit, NEW q, NEW J, NEW n, NEW m, SetUp(q, J, n, m),
         NEW cut \in BOOLEAN, NEW k \in 1..Len(q), k < Len(q),
         cur = q[k], runq = RestOf(IF cut THEN Append(q, q[1]) ELSE q, k),
         \A j \in (k + 1)..Len(q) : Unstarted(q[j]),
         \A j \in 2..k : th[q[j]].reg_hash = Stops(J, n, m)[j].hash,
         Here.mem = Stops(J, n, m)[k].mem,
         XStopped(q, J, n, m, cut)'
  PROVE  OnOther(q, J, n, m)' /\ mode' = "user"
<1>1. /\ SetUp(q, J, n, m)' /\ Here \in State
      /\ \A t \in Tids \ {cur} : th'[t] = th[t]
      /\ \A t : t \in Tids \ {cur} /\ Unstarted(t) => Unstarted(t)'
      /\ \A t \in Tids : th'[t].reg_hash = th[t].reg_hash
  BY ExitFacts
<1>2. /\ q \in Seq(Tids) /\ Len(q) \in Nat \ {0} /\ Len(J) = Len(q)
      /\ \A i \in 1..Len(q) : q[i] \in Tids
      /\ \A i, j \in 1..Len(q) : q[i] = q[j] => i = j
  BY SetUpFacts
<1> DEFINE o == IF cut THEN Append(q, q[1]) ELSE q
<1>3. /\ o \in Seq(Tids) /\ k \in 0..Len(o) /\ k < Len(o) /\ o[k + 1] = q[k + 1]
      /\ k + 1 \in 2..Len(q) /\ k + 1 \in 1..Len(q)
  <2>1. /\ k + 1 \in 1..Len(q) /\ k + 1 \in 2..Len(q) /\ 1 \in 1..Len(q)
    BY <1>2
  <2>2. Append(q, q[1]) \in Seq(Tids) /\ Len(Append(q, q[1])) = Len(q) + 1
        /\ Append(q, q[1])[k + 1] = q[k + 1]
    BY <1>2, <2>1
  <2> QED BY <1>2, <2>1, <2>2
<1>4. runq = RestOf(o, k)
  OBVIOUS
<1> HIDE DEF o
<1>5. runq # <<>> /\ Head(runq) = q[k + 1] /\ Tail(runq) = RestOf(o, k + 1)
  BY <1>3, <1>4, RestFacts
<1>6. /\ mode' = "user" /\ cur' = q[k + 1] /\ runq' = RestOf(o, k + 1)
      /\ Here' = [regs |-> th[cur'].regs, hash |-> th[cur'].reg_hash,
                  cnt |-> th[cur'].cumulative_inst_cnt, mem |-> mem]
      /\ Here.mem = mem
  BY <1>5, HereExits
<1>7. Unstarted(q[k + 1])
  BY <1>3
<1>8. Here' = At(J[k + 1].fn, J[k + 1].sp, mem)
  BY <1>3, <1>6, <1>7, BeginOther
<1>9. RunTo(Here', Never) = Stops(J, n, m)[k + 1]
  <2>1. Stops(J, n, m)[k + 1] = Alone(J[k + 1].fn, J[k + 1].sp, Stops(J, n, m)[(k + 1) - 1].mem)
    BY <1>2, <1>3, StopsFacts
  <2>2. (k + 1) - 1 = k
    OBVIOUS
  <2> QED BY <1>6, <1>8, <2>1, <2>2 DEF Alone
<1>10. \A j \in ((k + 1) + 1)..Len(q) : Unstarted(q[j])'
  <2>1. \A j \in ((k + 1) + 1)..Len(q) : j \in (k + 1)..Len(q) /\ j \in 1..Len(q) /\ j # k
    BY <1>2
  <2> QED BY <1>1, <1>2, <2>1
<1>11. \A j \in 2..((k + 1) - 1) : th'[q[j]].reg_hash = Stops(J, n, m)[j].hash
  <2>1. \A j \in 2..((k + 1) - 1) : j \in 2..k /\ j \in 1..Len(q)
    BY <1>2
  <2> QED BY <1>1, <1>2, <2>1
<1>12. OnOtherAt(q, J, n, m, k + 1, cut)'
  BY <1>6, <1>9, <1>10, <1>11 DEF OnOtherAt, o
<1> QED BY <1>3, <1>6, <1>12 DEF OnOther

LEMMA AlongExitX ==
  ASSUME Inv, StepsFromSaved, SysExit,
         NEW q, NEW J, NEW n, NEW m, SetUp(q, J, n, m), OnX(q, J, n, m)
  PROVE  Along(q, J, n, m)'
<1>1. /\ SetUp(q, J, n, m)' /\ Here \in State
      /\ \A t \in Tids : th'[t].reg_hash = th[t].reg_hash
      /\ \A i : RunTo(Here, i) = Here
  BY ExitFacts
<1>2. /\ Ended(Here) /\ Here.hash = th[cur].reg_hash /\ Here.mem = mem /\ mem' = mem
      /\ runq = <<>> => mode' = "return" /\ runq' = <<>>
  BY HereExits
<1>3. /\ q \in Seq(Tids) /\ Len(q) \in Nat \ {0} /\ Len(J) = Len(q)
      /\ \A i \in 1..Len(q) : q[i] \in Tids
      /\ 1 \in 1..Len(q) /\ 1 \in 0..Len(q)
  BY SetUpFacts
<1>4. \A i \in After(n) : RunTo(Begun(J, m), i) = Here
  BY <1>1 DEF OnX
<1>5. RunTo(Begun(J, m), n) = Here /\ Stops(J, n, m)[1] = Here
  BY <1>3, <1>4, StopsFacts DEF After
<1>6. Short(J, n, m)
  BY <1>1, <1>2, <1>4, <1>5 DEF Short
<1>7. cur = q[1] /\ runq = RestOf(q, 1) /\ \A j \in 2..Len(q) : Unstarted(q[j])
  BY DEF OnX
<1>8. CASE Len(q) = 1
  <2>1. mode' = "return"
    BY <1>2, <1>3, <1>7, <1>8, RestFacts
  <2>2. LastStop(J, n, m) = Here
    <3>1. Resumed(J, n, m) = [Here EXCEPT !.mem = Here.mem]
      BY <1>3, <1>5, <1>8 DEF Resumed
    <3>2. Resumed(J, n, m) = Here
      BY <1>1, <3>1 DEF State
    <3> QED BY <1>1, <3>2 DEF LastStop
  <2>3. th[q[1]].reg_hash = LastStop(J, n, m).hash /\ mem = LastStop(J, n, m).mem
    BY <1>2, <1>7, <2>2
  <2>4. \A j \in 2..Len(q) : FALSE
    BY <1>8
  <2>5. LeftBy(q) = CutRun(J, n, m)
    BY <2>3, <2>4, LeftIsCutRun
  <2>6. LeftBy(q)' = CutRun(J, n, m)
    BY <2>5, ExitFacts
  <2> QED BY <1>1, <1>6, <2>1, <2>6 DEF Along, Over, Short
<1>9. CASE Len(q) # 1
  <2>1. XStopped(q, J, n, m, FALSE)'
    BY <1>1, <1>2, <1>3, <1>5, <1>6, <1>7 DEF XStopped, Short
  <2>2. 1 < Len(q) /\ \A j \in (1 + 1)..Len(q) : j \in 2..Len(q)
    BY <1>3, <1>9
  <2>3. \A j \in 2..1 : FALSE
    OBVIOUS
  <2>4. OnOther(q, J, n, m)' /\ mode' = "user"
    BY <1>3, <1>5, <1>7, <2>1, <2>2, <2>3, NextOther
  <2> QED BY <1>1, <2>4 DEF Along
<1> QED BY <1>8, <1>9

LEMMA AlongExitOther ==
  ASSUME Inv, StepsFromSaved, SysExit,
         NEW q, NEW J, NEW n, NEW m, SetUp(q, J, n, m), OnOther(q, J, n, m)
  PROVE  Along(q, J, n, m)'
<1>1. /\ SetUp(q, J, n, m)' /\ Here \in State
      /\ \A t \in Tids \ {cur} : th'[t] = th[t]
      /\ \A t \in Tids : th'[t].reg_hash = th[t].reg_hash
      /\ \A i : RunTo(Here, i) = Here
      /\ LeftBy(q)' = LeftBy(q)
  BY ExitFacts
<1>2. /\ Ended(Here) /\ Here.hash = th[cur].reg_hash /\ Here.mem = mem /\ mem' = mem
      /\ complete_x_before_switch' =
           (complete_x_before_switch \/ (IsX(cur) /\ ~thread_x_has_yielded))
      /\ thread_x_has_yielded' = (thread_x_has_yielded \/ IsX(cur))
  BY HereExits
<1>3. /\ q \in Seq(Tids) /\ Len(q) \in Nat \ {0} /\ Len(J) = Len(q)
      /\ \A i \in 1..Len(q) : q[i] \in Tids
      /\ \A i, j \in 1..Len(q) : q[i] = q[j] => i = j
      /\ 1 \in 1..Len(q)
  BY SetUpFacts
<1>4. PICK k \in 2..Len(q), cut \in BOOLEAN : OnOtherAt(q, J, n, m, k, cut)
  BY DEF OnOther
<1>5. /\ cur = q[k] /\ k \in 1..Len(q) /\ k # 1 /\ q[1] # cur
      /\ runq = RestOf(IF cut THEN Append(q, q[1]) ELSE q, k)
  BY <1>3, <1>4 DEF OnOtherAt
<1>6. ~IsX(cur)
  BY <1>5 DEF SetUp
<1>7. /\ complete_x_before_switch' = complete_x_before_switch
      /\ thread_x_has_yielded' = thread_x_has_yielded
  BY <1>2, <1>6 DEF Inv, TypeOK
<1>8. Stops(J, n, m)[k] = Here
  BY <1>1, <1>4 DEF OnOtherAt
<1>9. \A j \in 2..k : th[q[j]].reg_hash = Stops(J, n, m)[j].hash
  <2>1. \A j \in 2..k : j = k \/ j \in 2..(k - 1)
    OBVIOUS
  <2>2. th[q[k]].reg_hash = Stops(J, n, m)[k].hash
    BY <1>2, <1>5, <1>8
  <2> QED BY <1>4, <2>1, <2>2 DEF OnOtherAt
<1>10. XStopped(q, J, n, m, cut) /\ XStopped(q, J, n, m, cut)'
  <2>1. th'[q[1]] = th[q[1]]
    BY <1>1, <1>3, <1>5
  <2> QED BY <1>4, <1>7, <2>1 DEF OnOtherAt, XStopped
<1> DEFINE stop == Stops(J, n, m)
<1>11. stop[1] \in State => Resumed(J, n, m) =
         [regs |-> stop[1].regs, hash |-> stop[1].hash, cnt |-> stop[1].cnt,
          mem |-> stop[Len(J)].mem]
  BY DEF State, Resumed
<1>12. CASE k < Len(q)
  <2>1. \A j \in (k + 1)..Len(q) : Unstarted(q[j])
    BY <1>4 DEF OnOtherAt
  <2>2. OnOther(q, J, n, m)' /\ mode' = "user"
    BY <1>5, <1>8, <1>9, <1>10, <1>12, <2>1, NextOther
  <2> QED BY <1>1, <2>2 DEF Along
<1>13. CASE k = Len(q) /\ cut
  <2> DEFINE o == Append(q, q[1])
  <2>1. o \in Seq(Tids) /\ Len(o) = k + 1 /\ k \in 0..Len(o) /\ o[k + 1] = q[1]
    BY <1>3, <1>5, <1>13
  <2>2. runq = RestOf(o, k) /\ k + 1 \in 0..Len(o) /\ k < Len(o)
    BY <1>5, <1>13, <2>1
  <2> HIDE DEF o
  <2>3. runq # <<>> /\ Head(runq) = q[1] /\ Tail(runq) = <<>>
    <3>1. /\ RestOf(o, k) = <<>> <=> k = Len(o)
          /\ Head(RestOf(o, k)) = o[k + 1] /\ Tail(RestOf(o, k)) = RestOf(o, k + 1)
      BY <2>1, <2>2, RestFacts
    <3>2. RestOf(o, k + 1) = <<>> /\ k # Len(o)
      BY <2>1, <2>2, RestFacts
    <3> QED BY <2>1, <2>2, <3>1, <3>2
  <2>4. /\ mode' = "user" /\ cur' = q[1] /\ runq' = <<>>
        /\ Here' = [regs |-> th[q[1]].regs, hash |-> th[q[1]].reg_hash,
                    cnt |-> th[q[1]].cumulative_inst_cnt, mem |-> mem]
    BY <2>3, HereExits
  <2>5. /\ n # Never /\ thread_x_has_yielded' /\ ~complete_x_before_switch'
        /\ th[q[1]].regs = stop[1].regs /\ th[q[1]].reg_hash = stop[1].hash
        /\ th[q[1]].cumulative_inst_cnt = stop[1].cnt
    BY <1>7, <1>10, <1>13 DEF XStopped
  <2>6. Here' = [regs |-> stop[1].regs, hash |-> stop[1].hash, cnt |-> stop[1].cnt,
                 mem |-> stop[Len(J)].mem]
    BY <1>2, <1>3, <1>8, <1>13, <2>4, <2>5
  <2>7. stop[1] \in State
    BY <1>10 DEF XStopped
  <2>8. RunTo(Here', Never) = LastStop(J, n, m)
    BY <1>11, <2>6, <2>7 DEF LastStop
  <2>9. \A j \in 2..Len(q) : th'[q[j]].reg_hash = stop[j].hash
    <3>1. \A j \in 2..Len(q) : j \in 1..Len(q) /\ q[j] \in Tids
      BY <1>3
    <3> QED BY <1>1, <1>9, <1>13, <3>1
  <2>10. OnRest(q, J, n, m)'
    BY <2>4, <2>5, <2>8, <2>9 DEF OnRest
  <2> QED BY <1>1, <2>4, <2>10 DEF Along
<1>14. CASE k = Len(q) /\ ~cut
  <2>1. runq = <<>>
    <3>1. runq = RestOf(q, Len(q)) /\ Len(q) \in 0..Len(q)
      BY <1>3, <1>5, <1>14
    <3> QED BY <1>3, <3>1, RestFacts
  <2>2. mode' = "return"
    BY <2>1, HereExits
  <2>3. Short(J, n, m) /\ th[q[1]].reg_hash = stop[1].hash
    BY <1>10, <1>14 DEF XStopped
  <2>4. stop[1] \in State /\ Ended(stop[1])
    <3>1. stop[1] = RunTo(Begun(J, m), n)
      BY <1>3, StopsFacts
    <3> QED BY <1>10, <2>3, <3>1 DEF XStopped, Short
  <2>5. LastStop(J, n, m) = Resumed(J, n, m) /\ Resumed(J, n, m).hash = stop[1].hash
        /\ Resumed(J, n, m).mem = mem
    <3>1. stop[Len(J)].mem = mem
      BY <1>2, <1>3, <1>8, <1>14
    <3>2. Resumed(J, n, m) = [regs |-> stop[1].regs, hash |-> stop[1].hash,
                              cnt |-> stop[1].cnt, mem |-> mem]
      BY <1>11, <2>4, <3>1
    <3>3. Resumed(J, n, m) \in State /\ Ended(Resumed(J, n, m))
      BY <2>4, <3>2 DEF State, Ended, Inv, TypeOK
    <3>4. RunTo(Resumed(J, n, m), Never) = Resumed(J, n, m)
      BY <3>3, RunToUnfold
    <3> QED BY <3>2, <3>4 DEF LastStop
  <2>6. LeftBy(q) = CutRun(J, n, m)
    <3>1. \A j \in 2..Len(q) : th[q[j]].reg_hash = Stops(J, n, m)[j].hash
      BY <1>9, <1>14
    <3>2. th[q[1]].reg_hash = LastStop(J, n, m).hash /\ mem = LastStop(J, n, m).mem
      BY <2>3, <2>5
    <3> QED BY <3>1, <3>2, LeftIsCutRun
  <2>7. LeftBy(q)' = CutRun(J, n, m)
    BY <1>1, <2>6
  <2> QED BY <1>1, <2>2, <2>3, <2>7 DEF Along, Over, Short
<1> QED BY <1>3, <1>12, <1>13, <1>14

LEMMA AlongExitRest ==
  ASSUME Inv, StepsFromSaved, SysExit,
         NEW q, NEW J, NEW n, NEW m, SetUp(q, J, n, m), OnRest(q, J, n, m)
  PROVE  Along(q, J, n, m)'
<1>1. /\ SetUp(q, J, n, m)' /\ LeftBy(q)' = LeftBy(q)
      /\ RunTo(Here, Never) = Here
  BY ExitFacts
<1>2. /\ Here.hash = th[cur].reg_hash /\ Here.mem = mem
      /\ complete_x_before_switch' =
           (complete_x_before_switch \/ (IsX(cur) /\ ~thread_x_has_yielded))
      /\ runq = <<>> => mode' = "return"
  BY HereExits
<1>3. LastStop(J, n, m) = Here
  BY <1>1 DEF OnRest
<1>4. th[q[1]].reg_hash = LastStop(J, n, m).hash /\ mem = LastStop(J, n, m).mem
  BY <1>2, <1>3 DEF OnRest
<1>5. LeftBy(q) = CutRun(J, n, m)
  BY <1>4, LeftIsCutRun DEF OnRest
<1>6. mode' = "return" /\ ~complete_x_before_switch' /\ n # Never
  BY <1>2 DEF OnRest
<1> QED BY <1>1, <1>5, <1>6 DEF Along, Over

\* No step of a run leaves the way of the run in turn.
LEMMA AlongMachine ==
  ASSUME Inv, StepsFromSaved, NoSelfBranch, Machine, mode' # "panic",
         NEW q, NEW J, NEW n, NEW m, Along(q, J, n, m)
  PROVE  Along(q, J, n, m)'
<1>1. CASE UserInst
  BY <1>1, AlongUserInst
<1>2. CASE SingleStep \/ SysPutc
  <2>1. mode = "user"
    BY <1>2 DEF SingleStep, SysPutc, AtSwi
  <2> QED BY <1>2, <2>1, AlongHandlerX, AlongHandlerOther, AlongHandlerRest DEF Along
<1>3. CASE SysExit
  <2>1. mode = "user"
    BY <1>3 DEF SysExit, AtSwi
  <2> QED BY <1>3, <2>1, AlongExitX, AlongExitOther, AlongExitRest DEF Along
<1>4. CASE SyscallPanics
  BY <1>4 DEF SyscallPanics, Panic
<1>5. CASE RunThreadsReturn
  <2>1. /\ UNCHANGED <<th, ntids, config, mem, complete_x_before_switch>>
        /\ mode # "user" /\ mode' # "user"
    BY <1>5 DEF RunThreadsReturn, threadVars, flagVars
  <2>2. SetUp(q, J, n, m)'
    BY <2>1, SetUpFrame DEF Along, Tids
  <2> QED BY <2>1, <2>2 DEF Along, Over, LeftBy
<1> QED BY <1>1, <1>2, <1>3, <1>4, <1>5 DEF Machine

LEMMA AlongFrame ==
  ASSUME UNCHANGED vars, NEW q, NEW J, NEW n, NEW m
  PROVE  Along(q, J, n, m)' = Along(q, J, n, m)
<1>1. UNCHANGED <<th, ntids, runq, cur, mode, config, flagVars, mem, ureg, mismatch>>
  BY DEF vars, threadVars, runVars, cpuVars
<1>2. JobsOf(q)' = JobsOf(q) /\ LeftBy(q)' = LeftBy(q) /\ Here' = Here
  BY <1>1 DEF JobsOf, LeftBy, Here, FaultPending, AtMismatch
<1>3. SetUp(q, J, n, m)' = SetUp(q, J, n, m)
  BY <1>1, <1>2 DEF SetUp, Tids, IsX
<1>4. XStopped(q, J, n, m, TRUE)' = XStopped(q, J, n, m, TRUE)
      /\ XStopped(q, J, n, m, FALSE)' = XStopped(q, J, n, m, FALSE)
  BY <1>1 DEF XStopped, flagVars
<1>5. ASSUME NEW k, NEW cut \in BOOLEAN
      PROVE  OnOtherAt(q, J, n, m, k, cut)' = OnOtherAt(q, J, n, m, k, cut)
  BY <1>1, <1>2, <1>4 DEF OnOtherAt, Unstarted
<1>6. OnX(q, J, n, m)' = OnX(q, J, n, m)
  BY <1>1, <1>2 DEF OnX, Unstarted, flagVars, FaultPending, AtMismatch
<1>7. OnRest(q, J, n, m)' = OnRest(q, J, n, m)
  BY <1>1, <1>2 DEF OnRest, flagVars
<1>8. Over(q, J, n, m)' = Over(q, J, n, m)
  BY <1>1, <1>2 DEF Over, flagVars
<1> QED BY <1>1, <1>3, <1>5, <1>6, <1>7, <1>8 DEF Along, OnOther

-----------------------------------------------------------------------------
(* What the hashes of such a run say of the routines alone.                *)

\* Where a thread exits its hash is the one the run in turn gives it, or the one
\* of the routine alone when it is X and has not been cut.
LEMMA ExitsWith ==
  ASSUME Inv, AtSwi("exit"), NEW q, NEW J, NEW n, NEW m, Along(q, J, n, m)
  PROVE  \E k \in 1..Len(q) :
           /\ cur = q[k]
           /\ \/ k = 1 /\ th[cur].reg_hash = Alone(J[1].fn, J[1].sp, m).hash
              \/ n # Never /\ th[cur].reg_hash = CutRun(J, n, m).hashes[k]
              \/ k > 1 /\ th[cur].reg_hash = Stops(J, n, m)[k].hash
<1>1. mode = "user" /\ AtMismatch /\ Insn(ureg) = "exit" /\ Here \in State
  BY HereState DEF AtSwi
<1>2. Here.regs = ureg /\ Here.hash = th[cur].reg_hash
  BY <1>1 DEF Here, FaultPending
<1>3. RunTo(Here, Never) = Here
  BY <1>1, <1>2, RunToUnfold DEF Ended
<1>4. SetUp(q, J, n, m) /\ (OnX(q, J, n, m) \/ OnOther(q, J, n, m) \/ OnRest(q, J, n, m))
  BY <1>1 DEF Along
<1>5. Len(q) \in Nat \ {0} /\ Len(J) = Len(q) /\ 1 \in 1..Len(q) /\ SwitchPoint(n)
  BY <1>4, SetUpFacts DEF SetUp
<1>6. CASE OnX(q, J, n, m)
  <2>1. cur = q[1] /\ RunTo(Begun(J, m), Never) = Here
    BY <1>3, <1>5, <1>6, AfterFacts DEF OnX
  <2> QED BY <1>2, <1>5, <2>1 DEF Begun, Alone
<1>7. CASE OnOther(q, J, n, m)
  <2>1. PICK k \in 2..Len(q), cut \in BOOLEAN : OnOtherAt(q, J, n, m, k, cut)
    BY <1>7 DEF OnOther
  <2>2. k \in 1..Len(q) /\ k > 1 /\ cur = q[k] /\ Stops(J, n, m)[k] = Here
    BY <1>3, <1>5, <2>1 DEF OnOtherAt
  <2> QED BY <1>2, <2>2
<1>8. CASE OnRest(q, J, n, m)
  <2>1. cur = q[1] /\ n # Never /\ LastStop(J, n, m) = Here
    BY <1>3, <1>8 DEF OnRest
  <2>2. CutRun(J, n, m).hashes[1] = Here.hash
    BY <1>5, <2>1, CutRunFacts
  <2> QED BY <1>2, <1>5, <2>1, <2>2
<1> QED BY <1>4, <1>6, <1>7, <1>8

\* The routines of J leave the memory m as they find it, each alone.
Restoring(J, m) == \A k \in 1..Len(J) : Alone(J[k].fn, J[k].sp, m).mem = m

\* In a row they compute what each of them computes alone.
LEMMA StopsAlone ==
  ASSUME NEW J, NEW m, Len(J) \in Nat \ {0}, Restoring(J, m), NEW k \in 1..Len(J)
  PROVE  Stops(J, Never, m)[k] = Alone(J[k].fn, J[k].sp, m)
<1> DEFINE Right(i) == Stops(J, Never, m)[i] = Alone(J[i].fn, J[i].sp, m)
           G == {i \in Nat : i \in 1..Len(J) /\ ~Right(i)}
<1>1. SUFFICES ASSUME G # {} PROVE FALSE
  OBVIOUS
<1>2. PICK i \in G : i = 0 \/ i - 1 \notin G
  <2>1. G \in SUBSET Nat
    OBVIOUS
  <2> HIDE DEF G
  <2> QED BY <1>1, <2>1, FirstOne
<1>3. i \in 1..Len(J) /\ ~Right(i)
  OBVIOUS
<1>4. CASE i = 1
  <2>1. Stops(J, Never, m)[1] = Alone(J[1].fn, J[1].sp, m)
    BY StopsFacts DEF Begun, Alone
  <2> QED BY <1>3, <1>4, <2>1
<1>5. CASE i # 1
  <2>1. i \in 2..Len(J) /\ i - 1 \in 1..Len(J) /\ i - 1 \in Nat
    BY <1>3, <1>5
  <2>2. Right(i - 1)
    BY <1>2, <2>1
  <2>3. Stops(J, Never, m)[i - 1].mem = m
    BY <2>1, <2>2 DEF Restoring
  <2>4. Stops(J, Never, m)[i] = Alone(J[i].fn, J[i].sp, Stops(J, Never, m)[i - 1].mem)
    BY <2>1, StopsFacts
  <2> QED BY <1>3, <2>3, <2>4
<1> QED BY <1>4, <1>5

\* No hash of a run in a row differs from the one alone.
LEMMA ExitsAlone ==
  ASSUME Inv, AtSwi("exit"), NEW q, NEW J, NEW m, Along(q, J, Never, m), Restoring(J, m)
  PROVE  \E k \in 1..Len(q) :
           cur = q[k] /\ th[cur].reg_hash = Alone(J[k].fn, J[k].sp, m).hash
<1>1. Len(J) \in Nat \ {0} /\ Len(J) = Len(q)
  BY SetUpFacts DEF Along
<1>2. PICK k \in 1..Len(q) :
        /\ cur = q[k]
        /\ \/ k = 1 /\ th[cur].reg_hash = Alone(J[1].fn, J[1].sp, m).hash
           \/ k > 1 /\ th[cur].reg_hash = Stops(J, Never, m)[k].hash
  BY ExitsWith
<1>3. Stops(J, Never, m)[k] = Alone(J[k].fn, J[k].sp, m)
  BY <1>1, StopsAlone
<1> QED BY <1>2, <1>3

\* And after it the memory is the one before it.
LEMMA OverAlone ==
  ASSUME Inv, mode # "user", NEW q, NEW J, NEW m, Along(q, J, Never, m), Restoring(J, m)
  PROVE  mem = m
<1>1. Len(J) \in Nat \ {0} /\ 1 \in 1..Len(J) /\ Len(J) \in 1..Len(J)
  <2>1. Len(J) \in Nat \ {0}
    BY SetUpFacts DEF Along
  <2> QED BY <2>1
<1>2. LeftBy(q) = CutRun(J, Never, m) /\ Short(J, Never, m)
  BY DEF Along, Over
<1> DEFINE s == Stops(J, Never, m)[1]
<1>3. s \in State /\ Ended(s) /\ s.mem = m
  <2>1. s = RunTo(Begun(J, m), Never)
    BY <1>1, StopsFacts
  <2>2. s.mem = m
    BY <1>1, StopsAlone DEF Restoring
  <2> HIDE DEF s
  <2> QED BY <1>2, <2>1, <2>2 DEF Short
<1>4. Stops(J, Never, m)[Len(J)].mem = m
  BY <1>1, StopsAlone DEF Restoring
<1>5. Resumed(J, Never, m) = s
  <2>1. Resumed(J, Never, m) = [s EXCEPT !.mem = m]
    BY <1>4 DEF Resumed
  <2> HIDE DEF s
  <2> QED BY <1>3, <2>1 DEF State
<1>6. LastStop(J, Never, m) = s
  BY <1>3, <1>5, RunToUnfold DEF LastStop
<1>7. CutRun(J, Never, m).mem = m
  BY <1>1, <1>3, <1>6, CutRunFacts
<1> QED BY <1>2, <1>7 DEF LeftBy

\* When the first routine is too short for the switch point, a later one gives
\* the same run.
LEMMA ShortCutRun ==
  ASSUME NEW J, NEW n, NEW m, NEW i \in After(n), Len(J) \in Nat \ {0}, Short(J, n, m)
  PROVE  CutRun(J, i, m) = CutRun(J, n, m)
<1> DEFINE a == Stops(J, i, m)
           b == Stops(J, n, m)
<1>1. a[1] = b[1]
  BY StopsFacts DEF Short
<1>2. ASSUME NEW k \in 1..Len(J) PROVE a[k] = b[k]
  <2> DEFINE G == {j \in Nat : j \in 1..Len(J) /\ a[j] # b[j]}
  <2>1. SUFFICES ASSUME G # {} PROVE FALSE
    OBVIOUS
  <2>2. PICK j \in G : j = 0 \/ j - 1 \notin G
    <3>1. G \in SUBSET Nat
      OBVIOUS
    <3> HIDE DEF G
    <3> QED BY <2>1, <3>1, FirstOne
  <2>3. j \in 2..Len(J) /\ j - 1 \in 1..Len(J) /\ j - 1 \in Nat /\ a[j] # b[j]
    <3>1. j \in 1..Len(J) /\ a[j] # b[j]
      OBVIOUS
    <3>2. j # 1
      BY <1>1, <3>1
    <3> QED BY <3>1, <3>2
  <2>4. a[j - 1] = b[j - 1]
    BY <2>2, <2>3
  <2>5. /\ a[j] = Alone(J[j].fn, J[j].sp, a[j - 1].mem)
        /\ b[j] = Alone(J[j].fn, J[j].sp, b[j - 1].mem)
    BY <2>3, StopsFacts
  <2> QED BY <2>3, <2>4, <2>5
<1>3. Len(J) \in 1..Len(J)
  OBVIOUS
<1>4. Resumed(J, i, m) = Resumed(J, n, m)
  BY <1>1, <1>2, <1>3 DEF Resumed
<1>5. LastStop(J, i, m) = LastStop(J, n, m)
  BY <1>4 DEF LastStop
<1> HIDE DEF a, b
<1>6. [k \in 1..Len(J) |-> IF k = 1 THEN LastStop(J, i, m).hash ELSE a[k].hash] =
        [k \in 1..Len(J) |-> IF k = 1 THEN LastStop(J, n, m).hash ELSE b[k].hash]
  BY <1>2, <1>5
<1> QED BY <1>5, <1>6, CutRunFacts DEF a, b

-----------------------------------------------------------------------------
\* A run starts with the threads of the queue, none of which has started.
LEMMA AlongStart ==
  ASSUME Inv, Fresh, RunThreads, NEW q, q = runq, NEW m, m = mem, NEW J, NEW n,
         SetUp(q, J, n, m),
         n # Never => ~thread_x_has_yielded /\ ~complete_x_before_switch
  PROVE  Along(q, J, n, m)'
<1>1. /\ mode = "client" /\ runq # <<>>
      /\ UNCHANGED <<th, ntids, config, flagVars, mem>>
      /\ cur' = Head(runq) /\ runq' = Tail(runq)
  BY DEF RunThreads, threadVars
<1>2. /\ cur' \in Tids /\ mode' = "user" /\ Tids' = Tids
      /\ ureg' = th'[cur'].regs /\ mismatch' = Pc(th'[cur'].regs)
  BY StartEffect
<1>3. /\ q \in Seq(Tids) /\ Len(q) \in Nat \ {0} /\ Len(J) = Len(q)
      /\ 0 \in 0..Len(q) /\ 1 \in 1..Len(q)
  BY SetUpFacts
<1>4. cur' = q[1] /\ runq' = RestOf(q, 1)
  <2> DEFINE t == Tail(q)
  <2>1. t \in Seq(Tids) /\ Len(t) = Len(q) - 1 /\ \A i \in 1..(Len(q) - 1) : t[i] = q[1 + i]
    BY <1>1, <1>3
  <2>2. Head(q) = q[1] /\ runq' = t
    BY <1>1, <1>3
  <2> HIDE DEF t
  <2>3. t = [i \in 1..Len(t) |-> t[i]]
    BY <2>1
  <2> QED BY <1>1, <2>1, <2>2, <2>3 DEF RestOf
<1>5. \A k \in 1..Len(q) : Unstarted(q[k])
  <2>1. \A k \in 1..Len(q) : q[k] \in Queued
    BY <1>3 DEF Queued, Range
  <2> QED BY <1>1, <2>1 DEF Fresh
<1>6. ~FaultPending(cur)'
  BY <1>2 DEF FaultPending, AtMismatch
<1>7. Here' = Begun(J, m)
  <2>1. Here' = [regs |-> th[q[1]].regs, hash |-> th[q[1]].reg_hash,
                 cnt |-> th[q[1]].cumulative_inst_cnt, mem |-> mem]
    <3>1. th[q[1]].cumulative_inst_cnt + 0 = th[q[1]].cumulative_inst_cnt
      BY <1>3, <1>5 DEF Unstarted
    <3> QED BY <1>1, <1>2, <1>4, <1>6, <3>1 DEF Here
  <2> QED BY <1>3, <1>5, <2>1, BeginOther DEF Begun
<1>8. Here'.cnt = 0
  BY <1>7 DEF Begun, At
<1>9. SetUp(q, J, n, m)'
  BY <1>1, <1>2, SetUpFrame
<1>10. \A k \in 2..Len(q) : Unstarted(q[k])'
  <2>1. \A k \in 2..Len(q) : k \in 1..Len(q)
    BY <1>3
  <2> QED BY <1>1, <1>5, <2>1 DEF Unstarted
<1>11. n # Never => n \in Nat \ {0}
  BY DEF SetUp, SwitchPoint
<1>12. OnX(q, J, n, m)'
  BY <1>1, <1>4, <1>7, <1>8, <1>10, <1>11 DEF OnX, flagVars
<1> QED BY <1>2, <1>9, <1>12 DEF Along
\* A run with X at the head of the queue.
LEMMA AlongStartX ==
  ASSUME Inv, Fresh, RunThreads, NEW q, q = runq, NEW m, m = mem, NEW n \in Nat \ {0},
         config.enable_interleave, config.interleave_tid = Head(runq),
         config.switch_on_inst_n = n,
         Len(runq) > 1 => config.type \in {"SEQUENTIAL", "ALL_PATHS"},
         ~thread_x_has_yielded, ~complete_x_before_switch
  PROVE  Along(q, JobsOf(q), n, m)' /\ JobsOf(q)' = JobsOf(q)
<1>1. q \in Seq(Tids) /\ q # <<>> /\ IsInjective(q) /\ m \in Mem
  BY DEF RunThreads, Inv, TypeOK, RunqSound
<1>2. 1 \in 1..Len(q) /\ DOMAIN q = 1..Len(q) /\ Head(runq) = q[1]
  BY <1>1, EmptySeq
<1>3. n # Never
  BY DEF Never
<1>4. \A k \in 1..Len(q) : IsX(q[k]) <=> k = 1
  BY <1>1, <1>2 DEF IsX, IsInjective
<1>5. PICK J : J = JobsOf(q)
  OBVIOUS
<1>6. SetUp(q, J, n, m)
  BY <1>1, <1>3, <1>4, <1>5 DEF SetUp, SwitchPoint
<1>7. Along(q, J, n, m)'
  BY <1>6, AlongStart
<1>8. JobsOf(q)' = JobsOf(q)
  BY DEF RunThreads, threadVars, JobsOf
<1> QED BY <1>5, <1>7, <1>8

\* A run without X.
LEMMA AlongStartAll ==
  ASSUME Inv, Fresh, RunThreads, NEW q, q = runq, NEW m, m = mem,
         ~config.enable_interleave,
         Len(runq) > 1 => config.type \in {"SEQUENTIAL", "ALL_PATHS"}
  PROVE  Along(q, JobsOf(q), Never, m)' /\ JobsOf(q)' = JobsOf(q)
<1>1. q \in Seq(Tids) /\ q # <<>> /\ IsInjective(q) /\ m \in Mem
  BY DEF RunThreads, Inv, TypeOK, RunqSound
<1>2. PICK J : J = JobsOf(q)
  OBVIOUS
<1>3. SetUp(q, J, Never, m)
  BY <1>1, <1>2 DEF SetUp, SwitchPoint, IsX
<1>4. Along(q, J, Never, m)'
  BY <1>3, AlongStart
<1>5. JobsOf(q)' = JobsOf(q)
  BY DEF RunThreads, threadVars, JobsOf
<1> QED BY <1>2, <1>4, <1>5

-----------------------------------------------------------------------------
(* The queue after a loop of reforks: the last thread of the list is at    *)
(* its head.                                                               *)

\* The members of the list l that are not to do are in the queue, the last
\* first.
QueuedSoFar(S, l, left, queue) ==
    /\ l \in Seq(S) /\ left \in Seq(S) /\ queue \in Seq(S)
    /\ Len(left) + Len(queue) = Len(l)
    /\ \A i \in 1..Len(left) : left[i] = l[Len(queue) + i]
    /\ \A i \in 1..Len(queue) : queue[i] = l[Len(queue) + 1 - i]

LEMMA QueuedNone ==
  ASSUME NEW S, NEW l \in Seq(S), NEW queue, queue = <<>>
  PROVE  QueuedSoFar(S, l, l, queue)
<1>1. queue \in Seq(S) /\ Len(queue) = 0 /\ Len(l) \in Nat
  BY EmptySeq
<1> QED BY <1>1 DEF QueuedSoFar

LEMMA QueuedOneMore ==
  ASSUME NEW S, NEW l, NEW left, NEW queue, QueuedSoFar(S, l, left, queue), left # <<>>
  PROVE  QueuedSoFar(S, l, Tail(left), <<Head(left)>> \o queue)
<1> DEFINE t == Tail(left)
           p == <<Head(left)>> \o queue
           a == Len(left)
           b == Len(queue)
<1>1. /\ l \in Seq(S) /\ left \in Seq(S) /\ queue \in Seq(S)
      /\ a + b = Len(l) /\ a \in Nat /\ b \in Nat
      /\ \A i \in 1..a : left[i] = l[b + i]
      /\ \A i \in 1..b : queue[i] = l[b + 1 - i]
  BY DEF QueuedSoFar
<1>2. a # 0 /\ Head(left) = left[1] /\ left[1] \in S /\ left[1] = l[b + 1]
  <2>1. a # 0 /\ Head(left) = left[1]
    BY <1>1, EmptySeq
  <2>2. 1 \in 1..a
    BY <1>1, <2>1
  <2> QED BY <1>1, <2>1, <2>2
<1>3. t \in Seq(S) /\ Len(t) = a - 1 /\ \A i \in 1..(a - 1) : t[i] = left[i + 1]
  BY <1>1
<1>4. /\ p \in Seq(S) /\ Len(p) = b + 1 /\ p[1] = Head(left)
      /\ \A i \in 1..b : p[i + 1] = queue[i]
  BY <1>1, <1>2
<1> HIDE DEF t, p, a, b
<1>5. \A i \in 1..Len(t) : t[i] = l[Len(p) + i]
  <2>1. ASSUME NEW i \in 1..(a - 1) PROVE t[i] = l[(b + 1) + i]
    <3>1. i + 1 \in 1..a /\ b + (i + 1) = (b + 1) + i
      BY <1>1
    <3> QED BY <1>1, <1>3, <3>1
  <2> QED BY <1>3, <1>4, <2>1
<1>6. \A i \in 1..Len(p) : p[i] = l[Len(p) + 1 - i]
  <2>1. ASSUME NEW i \in 1..(b + 1) PROVE p[i] = l[(b + 1) + 1 - i]
    <3>1. CASE i = 1
      <4>1. (b + 1) + 1 - 1 = b + 1
        BY <1>1
      <4> QED BY <1>2, <1>4, <3>1, <4>1
    <3>2. CASE i # 1
      <4>1. i - 1 \in 1..b /\ (i - 1) + 1 = i /\ b + 1 - (i - 1) = (b + 1) + 1 - i
        BY <1>1, <3>2
      <4>2. p[(i - 1) + 1] = queue[i - 1] /\ queue[i - 1] = l[b + 1 - (i - 1)]
        BY <1>1, <1>4, <4>1
      <4> QED BY <4>1, <4>2
    <3> QED BY <3>1, <3>2
  <2> QED BY <1>4, <2>1
<1>7. Len(t) + Len(p) = Len(l)
  BY <1>1, <1>3, <1>4
<1>8. QueuedSoFar(S, l, t, p)
  BY <1>1, <1>3, <1>4, <1>5, <1>6, <1>7 DEF QueuedSoFar
<1> QED BY <1>8 DEF t, p

LEMMA QueuedAll ==
  ASSUME NEW S, NEW l, NEW left, NEW queue, QueuedSoFar(S, l, left, queue), left = <<>>
  PROVE  Len(queue) = Len(l) /\ \A i \in 1..Len(l) : queue[i] = l[Len(l) + 1 - i]
<1>1. Len(left) = 0 /\ Len(queue) \in Nat
  BY DEF QueuedSoFar
<1> QED BY <1>1 DEF QueuedSoFar

\* One more thread, forked or reforked as the next of a longer list.
LEMMA QueuedAppended ==
  ASSUME NEW S, NEW T, S \subseteq T, NEW l, NEW e \in T, NEW queue,
         QueuedSoFar(S, l, <<>>, queue)
  PROVE  QueuedSoFar(T, Append(l, e), <<>>, <<e>> \o queue)
<1> DEFINE n == Len(l)
           a == Append(l, e)
           p == <<e>> \o queue
<1>1. /\ l \in Seq(T) /\ queue \in Seq(T) /\ <<>> \in Seq(T)
      /\ n \in Nat /\ Len(queue) = n
      /\ \A i \in 1..n : queue[i] = l[n + 1 - i]
  <2>1. l \in Seq(S) /\ queue \in Seq(S) /\ Len(<<>>) = 0 /\ Len(queue) \in Nat
    BY DEF QueuedSoFar
  <2> QED BY <2>1 DEF QueuedSoFar
<1>2. /\ a \in Seq(T) /\ Len(a) = n + 1 /\ a[n + 1] = e
      /\ \A i \in 1..n : a[i] = l[i]
  BY <1>1
<1>3. /\ p \in Seq(T) /\ Len(p) = n + 1 /\ p[1] = e
      /\ \A i \in 1..n : p[i + 1] = queue[i]
  BY <1>1
<1> HIDE DEF a, p, n
<1>4. ASSUME NEW i \in 1..(n + 1) PROVE p[i] = a[(n + 1) + 1 - i]
  <2>1. CASE i = 1
    <3>1. (n + 1) + 1 - 1 = n + 1
      BY <1>1
    <3> QED BY <1>2, <1>3, <2>1, <3>1
  <2>2. CASE i # 1
    <3>1. /\ i - 1 \in 1..n /\ (i - 1) + 1 = i /\ n + 1 - (i - 1) = (n + 1) + 1 - i
          /\ (n + 1) + 1 - i \in 1..n
      BY <1>1, <2>2
    <3>2. p[(i - 1) + 1] = queue[i - 1] /\ queue[i - 1] = l[n + 1 - (i - 1)]
      BY <1>1, <1>3, <3>1
    <3>3. a[(n + 1) + 1 - i] = l[(n + 1) + 1 - i]
      BY <1>2, <3>1
    <3> QED BY <3>1, <3>2, <3>3
  <2> QED BY <2>1, <2>2
<1>5. Len(<<>>) = 0 /\ 1..0 = {} /\ 0 + (n + 1) = n + 1
  BY <1>1
<1> QED BY <1>1, <1>2, <1>3, <1>4, <1>5 DEF QueuedSoFar, a, p

\* The last of a list first, and the others in reverse.
LEMMA LastFirst ==
  ASSUME NEW S, NEW r \in Seq(S), NEW e \in S
  PROVE  /\ <<e>> \o Reverse(r) \in Seq(S) /\ Append(r, e) \in Seq(S)
         /\ Len(<<e>> \o Reverse(r)) = Len(r) + 1 /\ Len(Append(r, e)) = Len(r) + 1
         /\ <<e>> \o Reverse(r) # <<>> /\ Head(<<e>> \o Reverse(r)) = e
         /\ (<<e>> \o Reverse(r))[1] = e
         /\ \A k \in 1..Len(r) : (<<e>> \o Reverse(r))[k + 1] = r[Len(r) + 1 - k]
         /\ \A k \in 1..(Len(r) + 1) :
              (<<e>> \o Reverse(r))[k] = Append(r, e)[(Len(r) + 1) + 1 - k]
<1> DEFINE n == Len(r)
           o == Append(r, e)
           v == Reverse(r)
           f == <<e>> \o v
<1>1. n \in Nat
  OBVIOUS
<1>2. v \in Seq(S) /\ Len(v) = n /\ \A k \in 1..n : v[k] = r[n + 1 - k]
  <2>1. v = [k \in 1..n |-> r[(n - k) + 1]]
    BY DEF Reverse
  <2>2. ASSUME NEW k \in 1..n
        PROVE  (n - k) + 1 = n + 1 - k /\ r[(n - k) + 1] \in S
    <3>1. (n - k) + 1 = n + 1 - k /\ (n - k) + 1 \in 1..n
      BY <1>1
    <3> QED BY <3>1
  <2>3. v \in [1..n -> S] /\ \A k \in 1..n : v[k] = r[n + 1 - k]
    BY <2>1, <2>2
  <2> HIDE DEF v, n
  <2>4. v \in Seq(S) /\ Len(v) = n
    BY <1>1, <2>3
  <2> QED BY <2>3, <2>4
<1> HIDE DEF v, n
<1>3. o \in Seq(S) /\ Len(o) = n + 1 /\ o[n + 1] = e /\ \A k \in 1..n : o[k] = r[k]
  BY DEF n
<1>4. /\ f \in Seq(S) /\ Len(f) = n + 1 /\ f[1] = e /\ f # <<>> /\ Head(f) = e
      /\ \A k \in 1..n : f[k + 1] = v[k]
  BY <1>1, <1>2
<1> HIDE DEF o, f
<1>5. ASSUME NEW k \in 1..(n + 1) PROVE f[k] = o[(n + 1) + 1 - k]
  <2>1. CASE k = 1
    <3>1. (n + 1) + 1 - 1 = n + 1
      BY <1>1
    <3> QED BY <1>3, <1>4, <2>1, <3>1
  <2>2. CASE k # 1
    <3>1. /\ k - 1 \in 1..n /\ (k - 1) + 1 = k /\ n + 1 - (k - 1) = (n + 1) + 1 - k
          /\ (n + 1) + 1 - k \in 1..n
      BY <1>1, <2>2
    <3>2. f[(k - 1) + 1] = v[k - 1] /\ v[k - 1] = r[n + 1 - (k - 1)]
      BY <1>2, <1>4, <3>1
    <3>3. o[(n + 1) + 1 - k] = r[(n + 1) + 1 - k]
      BY <1>3, <3>1
    <3> QED BY <3>1, <3>2, <3>3
  <2> QED BY <2>1, <2>2
<1> QED BY <1>2, <1>3, <1>4, <1>5 DEF f, o, v, n

\* A list whose threads are all queued stands in reverse in the queue.
LEMMA QueuedInReverse ==
  ASSUME NEW S, NEW r \in Seq(S), NEW e \in S, NEW queue,
         QueuedSoFar(S, Append(r, e), <<>>, queue)
  PROVE  queue = <<e>> \o Reverse(r)
<1> DEFINE f == <<e>> \o Reverse(r)
           o == Append(r, e)
           n == Len(r) + 1
<1>1. /\ f \in Seq(S) /\ Len(f) = n /\ Len(o) = n /\ n \in Nat
      /\ \A k \in 1..n : f[k] = o[n + 1 - k]
  BY LastFirst
<1> HIDE DEF f, o, n
<1>2. queue \in Seq(S) /\ Len(queue) = n /\ \A k \in 1..n : queue[k] = o[n + 1 - k]
  <2>1. QueuedSoFar(S, o, <<>>, queue)
    BY DEF o
  <2>2. Len(queue) = Len(o) /\ \A k \in 1..Len(o) : queue[k] = o[Len(o) + 1 - k]
    BY <2>1, QueuedAll
  <2> QED BY <1>1, <2>1, <2>2 DEF QueuedSoFar
<1>3. queue = f
  BY <1>1, <1>2
<1> QED BY <1>3 DEF f

\* What the queue is when no thread is active.
LEMMA NoneQueued ==
  ASSUME Inv, Active = {}
  PROVE  runq = <<>>
<1>1. Range(runq) = {} /\ runq \in Seq(Tids)
  <2>1. Tids \subseteq 1..MaxThreads /\ runq \in Seq(Tids)
    BY TidsType DEF Inv, TypeOK
  <2>2. Queued \subseteq Tids
    BY <2>1 DEF Queued, Range
  <2>3. Queued = {}
    BY <2>1, <2>2 DEF Active
  <2> QED BY <2>1, <2>3 DEF Queued
<1>2. Len(runq) = 0
  <2>1. ASSUME Len(runq) # 0 PROVE runq[1] \in Range(runq)
    BY <1>1, <2>1 DEF Range
  <2> QED BY <1>1, <2>1
<1> QED BY <1>1, <1>2, EmptySeq
=============================================================================
