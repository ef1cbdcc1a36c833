-------------------------- MODULE ExceptionsProofs --------------------------
(***************************************************************************)
(* Theorems about Exceptions: the registers are saved as they were, and    *)
(* context switches give each context a CPU of its own, for any number of  *)
(* threads and any contents of registers.                                  *)
(***************************************************************************)
EXTENDS Exceptions, TLAPS

Word == Vals \cup Places \cup {Junk, Client} \cup Nat
FileSet == [a : Word, c : Word, sp : Word, lr : Word, pc : Nat, f : Word]
RegsSet == [a : Word, c : Word, sp : Word, lr : Word, pc : Nat, mode : {"usr", "svc"}, f : Word]
CpuSet == [a : Word, c : Word, pc : Nat, mode : Modes, f : Word]

CpuTypes ==
    /\ cpu \in CpuSet
    /\ sp \in [Modes -> Word] /\ lr \in [Modes -> Word]
    /\ spsr \in [Modes -> [mode : {"usr", "svc"}, f : Word]]

OtherTypes ==
    /\ mem \in [Places -> RegsSet]
    /\ debug \in DebugRegs /\ single_step_on_p \in BOOLEAN
    /\ handler \in [Kinds -> {"none", "eqx", "client"}]
    /\ vector \in {"none", "other", "full"}
    /\ exc \in Kinds \cup {"none"} /\ r \in {None, "int"}
    /\ cur \in Threads \cup {None} /\ ready \subseteq Threads

\* Who has the CPU, by mode, and to what mode saved registers belong.
Owners ==
    /\ cur \notin ready
    /\ \A t \in ready : mem[t].mode = "usr"
    /\ cur # None => mem["start"].mode = "svc"
    /\ exc = "none" => r = None /\ cpu.mode # "abt" /\ (cpu.mode = "usr" <=> cur # None)
    /\ exc # "none" => cpu.mode # "usr" /\ (spsr[cpu.mode].mode = "usr" <=> cur # None)

AsInterrupted == [was EXCEPT !.pc = IF exc = "prefetch" THEN @ ELSE @ + 1]

\* The registers of the interrupted context, before and after the trampoline.
Saved ==
    /\ exc # "none" => was \in FileSet
    /\ exc # "none" /\ r = None =>
         SavedRegs \in RegsSet /\ ReturnPc \in Nat /\ FileIn(SavedRegs) = AsInterrupted
    /\ exc # "none" /\ r # None =>
         mem[r].mode = spsr[cpu.mode].mode /\ FileIn(mem[r]) = AsInterrupted

ThreadFiles ==
    /\ \A t \in ready : FileIn(mem[t]) \in Files
    /\ cur # None => IF exc = "none" THEN UserFile \in Files ELSE AsInterrupted \in Files

Inv == CpuTypes /\ OtherTypes /\ Owners /\ Saved /\ ThreadFiles
-----------------------------------------------------------------------------
LEMMA Distinct == None \notin Threads /\ None # "int" /\ "int" \notin Threads
                  /\ "start" \notin Threads /\ Client \notin Threads
  BY FilesAssumption DEF Client

LEMMA InitInv == Init => Inv
  <1> SUFFICES ASSUME Init PROVE Inv
    OBVIOUS
  <1>1. Junk \in Word /\ "client" \in Word /\ KernelVals \subseteq Word /\ ClientPcs \subseteq Nat
    BY FilesAssumption DEF Word, Client
  <1>2. NoRegs \in RegsSet
    BY <1>1 DEF NoRegs, RegsSet
  <1>3. cpu \in CpuSet /\ cpu.mode = "svc"
    BY <1>1 DEF Init, CpuSet, Modes
  <1>4. CpuTypes
    BY <1>1, <1>3 DEF Init, CpuTypes, Modes
  <1>5. OtherTypes
    BY <1>2 DEF Init, OtherTypes, DebugRegs, Kinds
  <1>6. Owners /\ Saved /\ ThreadFiles
    BY <1>3, Distinct DEF Init, Owners, Saved, ThreadFiles
  <1> QED
    BY <1>4, <1>5, <1>6 DEF Inv
-----------------------------------------------------------------------------
(* What each part of a handler leaves.                                     *)

LEMMA SwitchTo ==
  ASSUME CpuTypes, NEW s \in RegsSet, NEW place \in Places, switchto(s, place), spsr' = spsr,
         cpu.mode # "usr"
  PROVE  /\ CpuTypes'
         /\ cpu'.mode = s.mode /\ exc' = "none" /\ r' = None
         /\ s.mode = "usr" => UserFile' = FileIn(s)
         /\ s.mode = "svc" => ClientFile' = [c |-> s.c, sp |-> s.sp, pc |-> s.pc]
  <1>1. place \in Word /\ s.sp \in Word /\ s.lr \in Word /\ s.mode \in Modes /\ cpu.mode \in Modes
    BY DEF Word, RegsSet, Modes, CpuTypes, CpuSet
  <1>2. /\ cpu' = [a |-> s.a, c |-> s.c, pc |-> s.pc, mode |-> s.mode, f |-> s.f]
        /\ lr' = [lr EXCEPT ![s.mode] = s.lr]
        /\ sp' = IF s.mode = "usr" THEN [sp EXCEPT !["usr"] = s.sp, ![cpu.mode] = place]
                                   ELSE [sp EXCEPT ![s.mode] = s.sp]
        /\ exc' = "none" /\ r' = None
    BY DEF switchto, Restored
  <1>3. cpu' \in CpuSet
    BY <1>1, <1>2 DEF RegsSet, CpuSet
  <1>4. sp' \in [Modes -> Word] /\ lr' \in [Modes -> Word]
    BY <1>1, <1>2 DEF CpuTypes, Modes
  <1>5. CpuTypes'
    BY <1>3, <1>4 DEF CpuTypes
  <1>6. lr'[s.mode] = s.lr
    BY <1>1, <1>2 DEF CpuTypes
  <1>7. sp'[s.mode] = s.sp
    BY <1>1, <1>2 DEF CpuTypes
  <1> QED
    BY <1>2, <1>5, <1>6, <1>7 DEF UserFile, ClientFile, FileIn

\* The handler of the running thread goes on with t, whose registers are s.
LEMMA RunsThread ==
  ASSUME CpuTypes, OtherTypes, NEW t \in Threads, NEW s \in RegsSet, RunOneInst(t, s),
         spsr' = spsr, cpu.mode # "usr", s.mode = "usr"
  PROVE  /\ CpuTypes' /\ debug' \in DebugRegs
         /\ cur' = t /\ cpu'.mode = "usr" /\ exc' = "none" /\ r' = None
         /\ UserFile' = FileIn(s)
  <1>1. t \in Places /\ switchto(s, t) /\ cur' = t /\ debug' = brkpt_mismatch_set(s.pc)
    BY DEF Places, RunOneInst
  <1>2. debug' \in DebugRegs
    BY <1>1 DEF brkpt_mismatch_set, DebugRegs, OtherTypes, RegsSet
  <1> QED
    BY <1>1, <1>2, SwitchTo

LEMMA Copies ==
  ASSUME OtherTypes, r # None, cur # None
  PROVE  /\ Copied \in [Places -> RegsSet]
         /\ Copied[cur] = mem["int"]
         /\ \A p \in Places \ {cur} : Copied[p] = mem[p]
         /\ r = "int" /\ cur \in Places
  BY DEF OtherTypes, Copied, Places

LEMMA FilesAreTyped == Files \subseteq FileSet /\ \A u \in Files : NextFiles(u) \subseteq Files
  BY FilesAssumption DEF FileSet, Word

LEMMA UserInstInv == Inv /\ UserInst => Inv'
  <1> SUFFICES ASSUME Inv, UserInst PROVE Inv'
    OBVIOUS
  <1> USE DEF Inv
  <1>1. PICK u \in NextFiles(UserFile) :
          /\ cpu' = [a |-> u.a, c |-> u.c, pc |-> u.pc, mode |-> "usr", f |-> u.f]
          /\ sp' = [sp EXCEPT !["usr"] = u.sp]
          /\ lr' = [lr EXCEPT !["usr"] = u.lr]
    BY DEF UserInst
  <1>2. exc = "none" /\ cpu.mode = "usr" /\ cur # None
    BY DEF UserInst, UserRuns, Runs, Owners
  <1>3. u \in Files /\ u \in FileSet
    BY <1>1, <1>2, FilesAreTyped DEF ThreadFiles
  <1>4. UNCHANGED <<spsr, mem, debug, single_step_on_p, handler, vector, exc, r, cur, ready>>
    BY DEF UserInst, setupVars, threadVars
  <1>5. CpuTypes'
    BY <1>1, <1>3, <1>4 DEF CpuTypes, CpuSet, FileSet, Modes
  <1>6. OtherTypes'
    BY <1>4 DEF OtherTypes
  <1>7. Owners' /\ Saved'
    BY <1>1, <1>2, <1>4 DEF Owners, Saved
  <1>8. UserFile' = u
    BY <1>1, <1>3 DEF UserFile, FileSet, CpuTypes, Modes
  <1>9. ThreadFiles'
    BY <1>2, <1>3, <1>4, <1>8 DEF ThreadFiles, FileIn
  <1> QED
    BY <1>5, <1>6, <1>7, <1>9

LEMMA TakeExceptionInv ==
  ASSUME Inv, exc = "none", why = "none", debug' \in DebugRegs,
         NEW kind \in Kinds, NEW mode \in {"svc", "abt"}, NEW offset \in 1..2,
         kind = "data" <=> offset = 2,
         kind # "prefetch" => cpu.pc < MaxPc,
         TakeException(kind, mode, offset)
  PROVE  Inv'
  <1> USE DEF Inv
  <1>1. /\ exc' = kind /\ was' = UserFile
        /\ lr' = [lr EXCEPT ![mode] = cpu.pc + offset]
        /\ spsr' = [spsr EXCEPT ![mode] = [mode |-> cpu.mode, f |-> cpu.f]]
        /\ cpu' = [cpu EXCEPT !.mode = mode]
        /\ UNCHANGED <<sp, mem, single_step_on_p, handler, vector, r, cur, ready>>
    BY DEF TakeException, setupVars, threadVars
  <1>2. /\ r = None /\ cpu.mode \in {"usr", "svc"} /\ (cpu.mode = "usr" <=> cur # None)
        /\ exc' # "none"
    BY <1>1 DEF Owners, CpuTypes, CpuSet, Modes, Kinds
  <1>3. cpu.pc \in Nat /\ cpu.pc + offset \in Nat /\ cpu.pc + offset \in Word /\ mode \in Modes
    BY DEF CpuTypes, CpuSet, Word, Modes
  <1>4. CpuTypes'
    BY <1>1, <1>2, <1>3 DEF CpuTypes, CpuSet
  <1>5. OtherTypes'
    BY <1>1 DEF OtherTypes
  <1>6. spsr'[mode] = [mode |-> cpu.mode, f |-> cpu.f] /\ lr'[mode] = cpu.pc + offset
        /\ cpu'.mode = mode
    BY <1>1, <1>3 DEF CpuTypes, CpuSet
  <1>7. Owners'
    BY <1>1, <1>2, <1>6 DEF Owners
  <1>8. UserFile \in FileSet
    BY DEF UserFile, FileSet, CpuTypes, CpuSet, Modes
  <1>9. ReturnPc' = IF kind = "prefetch" THEN cpu.pc ELSE cpu.pc + 1
    BY <1>1, <1>3, <1>6 DEF ReturnPc, Kinds
  <1>10. AsInterrupted' = [UserFile EXCEPT !.pc = IF kind = "prefetch" THEN @ ELSE @ + 1]
    BY <1>1 DEF AsInterrupted
  <1>11. UserFile.pc = cpu.pc
    BY DEF UserFile
  <1>12. AsInterrupted' = [a |-> cpu.a, c |-> cpu.c, sp |-> sp["usr"], lr |-> lr["usr"],
                           pc |-> ReturnPc', f |-> cpu.f]
    BY <1>9, <1>10, <1>11 DEF UserFile
  <1>13. SavedRegs' = [a |-> cpu.a, c |-> cpu.c, sp |-> sp["usr"], lr |-> lr["usr"],
                       pc |-> ReturnPc', mode |-> cpu.mode, f |-> cpu.f]
    BY <1>1, <1>6 DEF SavedRegs, CpuTypes, CpuSet, Modes
  <1>14. ReturnPc' \in Nat
    BY <1>3, <1>9
  <1>15. SavedRegs' \in RegsSet
    BY <1>2, <1>13, <1>14 DEF RegsSet, CpuTypes, CpuSet, Modes
  <1>16. FileIn(SavedRegs)' = AsInterrupted'
    BY <1>12, <1>13 DEF FileIn
  <1>17. Saved'
    BY <1>1, <1>2, <1>8, <1>14, <1>15, <1>16 DEF Saved
  <1>18. cur # None => AsInterrupted' \in Files
    <2> SUFFICES ASSUME cur # None PROVE AsInterrupted' \in Files
      OBVIOUS
    <2>1. UserFile \in Files
      BY DEF ThreadFiles
    <2>2. kind = "prefetch" => AsInterrupted' = UserFile
      BY <1>9, <1>12 DEF UserFile
    <2>3. kind # "prefetch" => AsInterrupted' = [UserFile EXCEPT !.pc = @ + 1]
      BY <1>10
    <2> QED
      BY <1>11, <2>1, <2>2, <2>3, FilesAssumption
  <1>19. ThreadFiles'
    BY <1>1, <1>2, <1>18 DEF ThreadFiles, FileIn
  <1> QED
    BY <1>4, <1>5, <1>7, <1>17, <1>19

LEMMA TrampolineInv == Inv /\ Trampoline => Inv'
  <1> SUFFICES ASSUME Inv, Trampoline PROVE Inv'
    OBVIOUS
  <1> USE DEF Inv
  <1>1. /\ exc # "none" /\ r = None
        /\ mem' = [mem EXCEPT !["int"] = SavedRegs] /\ r' = "int"
        /\ sp' = [sp EXCEPT ![cpu.mode] = "int"]
        /\ lr' = [lr EXCEPT ![cpu.mode] = ReturnPc]
        /\ cpu' = [cpu EXCEPT !.a = Junk]
        /\ UNCHANGED <<spsr, debug, single_step_on_p, handler, vector, exc, cur, ready, was>>
    BY DEF Trampoline, debugVars, setupVars, threadVars
  <1>2. SavedRegs \in RegsSet /\ ReturnPc \in Nat /\ FileIn(SavedRegs) = AsInterrupted
    BY <1>1 DEF Saved
  <1>3. cpu.mode \in Modes /\ "int" \in Word /\ Junk \in Word /\ ReturnPc \in Word
    BY <1>2 DEF CpuTypes, CpuSet, Word, Places
  <1>4. CpuTypes'
    BY <1>1, <1>3 DEF CpuTypes, CpuSet
  <1>5. OtherTypes'
    BY <1>1, <1>2 DEF OtherTypes, Places
  <1>6. cpu'.mode = cpu.mode
    BY <1>1 DEF CpuTypes, CpuSet
  <1>7. \A p \in Threads \cup {"start"} : mem'[p] = mem[p]
    BY <1>1, Distinct DEF OtherTypes, Places
  <1>8. mem'["int"] = SavedRegs
    BY <1>1 DEF OtherTypes, Places
  <1>9. Owners'
    BY <1>1, <1>6, <1>7 DEF Owners, OtherTypes
  <1>10. AsInterrupted' = AsInterrupted
    BY <1>1 DEF AsInterrupted
  <1>11. mem'[r'].mode = spsr[cpu.mode].mode /\ FileIn(mem[r])' = AsInterrupted
    BY <1>1, <1>2, <1>8 DEF FileIn, SavedRegs
  <1>12. Saved'
    BY <1>1, <1>6, <1>10, <1>11, Distinct DEF Saved
  <1>13. ThreadFiles'
    BY <1>1, <1>7, <1>10 DEF ThreadFiles, FileIn, OtherTypes
  <1> QED
    BY <1>4, <1>5, <1>9, <1>12, <1>13

\* A handler that was given the registers of a thread.
LEMMA InHandler ==
  ASSUME Inv, NEW kind \in Kinds, Handles(kind), FromUser
  PROVE  /\ exc # "none" /\ r = "int" /\ cur \in Threads /\ cur \notin ready
         /\ cpu.mode # "usr"
         /\ mem["int"] \in RegsSet /\ mem["int"].mode = "usr"
         /\ FileIn(mem["int"]) = AsInterrupted /\ AsInterrupted \in Files
  BY DEF Inv, Handles, FromUser, Kinds, OtherTypes, Owners, Saved, ThreadFiles, Places

\* t, another thread or this one, goes on after the handler copied the registers.
LEMMA SwitchesInv ==
  ASSUME Inv, NEW kind \in Kinds, Handles(kind), FromUser,
         NEW t \in ready \cup {cur}, NEW rest \in SUBSET ((ready \cup {cur}) \ {t}),
         mem' = Copied, ready' = rest, RunOneInst(t, Copied[t]),
         UNCHANGED <<spsr, single_step_on_p, handler, vector>>
  PROVE  Inv' /\ UserFile' = FileIn(Copied[t]) /\ cur' = t /\ exc' = "none"
  <1> USE DEF Inv
  <1>1. /\ exc # "none" /\ r = "int" /\ cur \in Threads /\ cur \notin ready
        /\ cpu.mode # "usr"
        /\ mem["int"] \in RegsSet /\ mem["int"].mode = "usr"
        /\ FileIn(mem["int"]) \in Files
    BY InHandler
  <1>2. /\ Copied \in [Places -> RegsSet]
        /\ Copied[cur] = mem["int"]
        /\ \A p \in Places \ {cur} : Copied[p] = mem[p]
    BY <1>1, Distinct, Copies
  <1>3. \A x \in ready \cup {cur} : /\ x \in Threads /\ Copied[x] \in RegsSet
                                    /\ Copied[x].mode = "usr" /\ FileIn(Copied[x]) \in Files
    BY <1>1, <1>2 DEF Owners, ThreadFiles, OtherTypes, Places
  <1>4. /\ CpuTypes' /\ debug' \in DebugRegs
        /\ cur' = t /\ cpu'.mode = "usr" /\ exc' = "none" /\ r' = None
        /\ UserFile' = FileIn(Copied[t])
    BY <1>1, <1>3, RunsThread
  <1>5. OtherTypes'
    BY <1>2, <1>3, <1>4 DEF OtherTypes
  <1>6. mem'["start"].mode = "svc"
    BY <1>1, <1>2, Distinct DEF Owners, Places
  <1>7. Owners'
    BY <1>3, <1>4, <1>6, Distinct DEF Owners
  <1>8. Saved' /\ ThreadFiles'
    BY <1>3, <1>4 DEF Saved, ThreadFiles, FileIn
  <1> QED
    BY <1>4, <1>5, <1>7, <1>8

LEMMA ScheduleInv ==
  ASSUME Inv, NEW kind \in Kinds, Handles(kind), FromUser, mem' = Copied, Schedule(Copied),
         UNCHANGED <<spsr, single_step_on_p, handler, vector>>
  PROVE  Inv'
  <1>1. PICK t \in ready \cup {cur} : ready' = (ready \cup {cur}) \ {t} /\ RunOneInst(t, Copied[t])
    BY DEF Schedule
  <1> QED
    BY <1>1, SwitchesInv

LEMMA PrefetchAbortInv == Inv /\ PrefetchAbort => Inv'
  BY ScheduleInv DEF PrefetchAbort, setupVars, Kinds

LEMMA SysPutcInv == Inv /\ SysPutc => Inv'
  BY ScheduleInv DEF SysPutc, setupVars, Kinds

\* The interrupted thread goes on with the registers s.
LEMMA ResumesInv ==
  ASSUME Inv, NEW kind \in Kinds, Handles(kind), FromUser,
         NEW s \in RegsSet, s.mode = "usr", FileIn(s) \in Files, switchto(s, r),
         UNCHANGED <<spsr, mem, debug, single_step_on_p, handler, vector, cur, ready>>
  PROVE  Inv' /\ UserFile' = FileIn(s) /\ exc' = "none"
  <1> USE DEF Inv
  <1>1. /\ exc # "none" /\ r = "int" /\ cur \in Threads /\ cur \notin ready
        /\ cpu.mode # "usr"
    BY InHandler
  <1>2. r \in Places
    BY <1>1 DEF Places
  <1>3. CpuTypes' /\ cpu'.mode = "usr" /\ exc' = "none" /\ r' = None /\ UserFile' = FileIn(s)
    BY <1>1, <1>2, SwitchTo
  <1>4. OtherTypes' /\ Owners'
    BY <1>1, <1>3, Distinct DEF OtherTypes, Owners
  <1>5. Saved' /\ ThreadFiles'
    BY <1>3 DEF Saved, ThreadFiles, FileIn
  <1> QED
    BY <1>3, <1>4, <1>5

LEMMA DataAbortInv ==
  Inv /\ DataAbort => Inv' /\ UserFile' = FileIn(mem["int"]) /\ exc' = "none"
  <1> SUFFICES ASSUME Inv, DataAbort PROVE Inv' /\ UserFile' = FileIn(mem["int"]) /\ exc' = "none"
    OBVIOUS
  <1>1. "data" \in Kinds /\ Handles("data") /\ FromUser
    BY DEF DataAbort, Kinds
  <1>2. /\ r = "int" /\ mem["int"] \in RegsSet /\ mem["int"].mode = "usr"
        /\ FileIn(mem["int"]) \in Files
    BY <1>1, InHandler
  <1>3. switchto(mem["int"], r)
        /\ UNCHANGED <<spsr, mem, debug, single_step_on_p, handler, vector, cur, ready>>
    BY <1>2 DEF DataAbort, setupVars, threadVars
  <1> QED
    BY <1>1, <1>2, <1>3, ResumesInv

LEMMA SyscallReturnsInv == Inv /\ SyscallReturns => Inv' /\ exc' = "none"
  <1> SUFFICES ASSUME Inv, SyscallReturns PROVE Inv' /\ exc' = "none"
    OBVIOUS
  <1>1. "swi" \in Kinds /\ Handles("swi") /\ FromUser
    BY DEF SyscallReturns, Kinds
  <1>2. /\ r = "int" /\ mem["int"] \in RegsSet /\ mem["int"].mode = "usr"
        /\ FileIn(mem["int"]) \in Files
    BY <1>1, InHandler
  <1>3. PICK v \in KernelVals : switchto([mem["int"] EXCEPT !.a = v], r)
    BY <1>2 DEF SyscallReturns
  <1> DEFINE s == [mem["int"] EXCEPT !.a = v]
  <1>4. s \in RegsSet /\ s.mode = "usr"
    BY <1>2, FilesAssumption DEF RegsSet, Word
  <1>5. FileIn(s) = [FileIn(mem["int"]) EXCEPT !.a = v]
    BY <1>2 DEF FileIn, RegsSet
  <1>6. FileIn(s) \in Files
    BY <1>2, <1>5, FilesAssumption
  <1>7. UNCHANGED <<spsr, mem, debug, single_step_on_p, handler, vector, cur, ready>>
    BY DEF SyscallReturns, setupVars, threadVars, debugVars
  <1> HIDE DEF s
  <1>8. switchto(s, r)
    BY <1>3 DEF s
  <1> QED
    BY <1>1, <1>4, <1>6, <1>7, <1>8, ResumesInv

\* The last exit: back to the client.
LEMMA ReturnsToClient ==
  ASSUME Inv, Handles("swi"), FromUser, mem' = Copied, ready = {}, cur' = None,
         switchto(mem["start"], "start"),
         UNCHANGED <<spsr, single_step_on_p, handler, vector, ready, debug>>
  PROVE  /\ Inv' /\ exc' = "none"
         /\ ClientFile' = [c |-> mem["start"].c, sp |-> mem["start"].sp, pc |-> mem["start"].pc]
  <1> USE DEF Inv
  <1>1. "swi" \in Kinds
    BY DEF Kinds
  <1>2. exc # "none" /\ r = "int" /\ cur \in Threads /\ cpu.mode # "usr"
    BY <1>1, InHandler
  <1>3. mem["start"] \in RegsSet /\ mem["start"].mode = "svc" /\ "start" \in Places
    BY <1>2, Distinct DEF OtherTypes, Owners, Places
  <1>4. /\ CpuTypes' /\ cpu'.mode = "svc" /\ exc' = "none" /\ r' = None
        /\ ClientFile' = [c |-> mem["start"].c, sp |-> mem["start"].sp, pc |-> mem["start"].pc]
    BY <1>2, <1>3, SwitchTo
  <1>5. Copied \in [Places -> RegsSet]
    BY <1>2, Distinct, Copies
  <1>6. OtherTypes'
    BY <1>4, <1>5 DEF OtherTypes
  <1>7. Owners' /\ Saved' /\ ThreadFiles'
    BY <1>4, Distinct DEF Owners, Saved, ThreadFiles
  <1> QED
    BY <1>4, <1>6, <1>7

LEMMA SysExitInv == Inv /\ SysExit => Inv'
  <1> SUFFICES ASSUME Inv, SysExit PROVE Inv'
    OBVIOUS
  <1>1. /\ "swi" \in Kinds /\ Handles("swi") /\ FromUser /\ mem' = Copied
        /\ UNCHANGED <<spsr, single_step_on_p, handler, vector>>
    BY DEF SysExit, setupVars, Kinds
  <1>2. CASE ready = {} /\ cur' = None /\ switchto(mem["start"], "start") /\ UNCHANGED <<ready, debug, insts>>
    BY <1>1, <1>2, ReturnsToClient
  <1>3. CASE \E t \in ready : ready' = ready \ {t} /\ RunOneInst(t, mem[t])
    <2>1. PICK t \in ready : ready' = ready \ {t} /\ RunOneInst(t, mem[t])
      BY <1>3
    <2>2. cur \in Threads /\ cur \notin ready /\ r # None /\ ready \subseteq Places
      BY <1>1, InHandler, Distinct DEF Inv, OtherTypes, Places
    <2>3. Copied[t] = mem[t]
      BY <2>1, <2>2, Copies, Distinct DEF Inv
    <2>4. t \in ready \cup {cur} /\ ready' \in SUBSET ((ready \cup {cur}) \ {t})
      BY <2>1
    <2> QED
      BY <1>1, <2>1, <2>3, <2>4, SwitchesInv
  <1> QED
    BY <1>2, <1>3 DEF SysExit

LEMMA HardwareInv == Inv /\ Hardware => Inv'
  <1> SUFFICES ASSUME Inv, Hardware PROVE Inv'
    OBVIOUS
  <1>1. debug \in DebugRegs
    BY DEF Inv, OtherTypes
  <1>2. CASE UserInst
    BY <1>2, UserInstInv
  <1>3. CASE BreakpointFault
    <2>1. debug' \in DebugRegs
      BY <1>1, <1>3 DEF BreakpointFault, DebugRegs
    <2> QED
      BY <1>3, <2>1, TakeExceptionInv DEF BreakpointFault, UserRuns, Runs, Kinds
  <1>4. CASE FetchFault
    <2>1. debug' \in DebugRegs
      BY <1>1, <1>4 DEF FetchFault, DebugRegs
    <2> QED
      BY <1>4, <2>1, TakeExceptionInv DEF FetchFault, UserRuns, ClientRuns, Runs, Kinds
  <1>5. CASE DataFault
    BY <1>1, <1>5, TakeExceptionInv DEF DataFault, UserRuns, ClientRuns, Runs, Kinds
  <1>6. CASE Swi
    BY <1>1, <1>6, TakeExceptionInv DEF Swi, UserRuns, ClientRuns, Runs, Kinds
  <1> QED
    BY <1>2, <1>3, <1>4, <1>5, <1>6 DEF Hardware

LEMMA PanicInv == ASSUME Inv, NEW reason, Panic(reason) PROVE Inv'
  <1>1. UNCHANGED <<cpu, sp, lr, spsr, mem, debug, single_step_on_p, handler, vector, exc, r,
                    cur, ready, was>>
    BY DEF Panic, cpuVars, debugVars, setupVars, threadVars
  <1>2. UNCHANGED <<UserFile, SavedRegs, ReturnPc, AsInterrupted>>
    BY <1>1 DEF UserFile, SavedRegs, ReturnPc, AsInterrupted
  <1> QED
    BY <1>1, <1>2 DEF Inv, CpuTypes, OtherTypes, Owners, Saved, ThreadFiles, FileIn

LEMMA ClientHasCpu == Inv /\ ClientRuns => exc = "none" /\ r = None /\ cur = None
  BY DEF Inv, Owners, ClientRuns, Runs

LEMMA ClientInstInv == Inv /\ ClientInst => Inv'
  <1> SUFFICES ASSUME Inv, ClientInst PROVE Inv'
    OBVIOUS
  <1>1. PICK v \in KernelVals, pc \in ClientPcs : cpu' = [cpu EXCEPT !.c = v, !.pc = pc]
    BY DEF ClientInst
  <1>2. cpu' \in CpuSet /\ cpu'.mode = cpu.mode
    BY <1>1, FilesAssumption DEF Inv, CpuTypes, CpuSet, Word
  <1>3. UNCHANGED <<sp, lr, spsr, mem, debug, single_step_on_p, handler, vector, exc, r,
                    cur, ready, was>>
        /\ exc = "none" /\ cur = None
    BY ClientHasCpu DEF ClientInst, debugVars, setupVars, threadVars
  <1> QED
    BY <1>2, <1>3 DEF Inv, CpuTypes, OtherTypes, Owners, Saved, ThreadFiles, FileIn

\* Steps of the client that do not touch the registers of the CPU.
LEMMA SetupInv ==
  ASSUME Inv, exc = "none", cur = None, OtherTypes',
         UNCHANGED <<cpu, sp, lr, spsr, exc, r, cur>>,
         \A t \in ready' : mem'[t].mode = "usr" /\ FileIn(mem[t])' \in Files
  PROVE  Inv'
  BY Distinct DEF Inv, CpuTypes, OtherTypes, Owners, Saved, ThreadFiles

LEMMA StartThreadInv == ASSUME Inv, NEW t \in Threads, StartThread(t) PROVE Inv'
  <1> DEFINE s == [a |-> Entry(t).a, c |-> Entry(t).c, sp |-> Entry(t).sp, lr |-> Entry(t).lr,
                   pc |-> Entry(t).pc, mode |-> "usr", f |-> Entry(t).f]
  <1>1. /\ exc = "none" /\ cur = None
        /\ mem' = [mem EXCEPT ![t] = s] /\ ready' = ready \cup {t}
        /\ UNCHANGED <<cpu, sp, lr, spsr, debug, single_step_on_p, handler, vector, exc, r, cur>>
    BY ClientHasCpu DEF StartThread, cpuVars, debugVars, setupVars
  <1>2. Entry(t) \in Files /\ Entry(t) \in FileSet
    BY FilesAssumption, FilesAreTyped
  <1>3. s \in RegsSet /\ s.mode = "usr" /\ FileIn(s) = Entry(t)
    BY <1>2 DEF RegsSet, FileSet, FileIn
  <1> HIDE DEF s
  <1>4. mem' \in [Places -> RegsSet] /\ mem'[t] = s /\ \A x \in Threads \ {t} : mem'[x] = mem[x]
    BY <1>1, <1>3 DEF Inv, OtherTypes, Places
  <1>5. OtherTypes'
    BY <1>1, <1>4 DEF Inv, OtherTypes
  <1>6. \A x \in ready' : mem'[x].mode = "usr" /\ FileIn(mem[x])' \in Files
    BY <1>1, <1>2, <1>3, <1>4 DEF Inv, OtherTypes, Owners, ThreadFiles, FileIn
  <1> QED
    BY <1>1, <1>5, <1>6, SetupInv

LEMMA SetsHandlersInv == Inv /\ (EqxInit \/ InstallOverride \/ \E k \in {"data", "swi"} : SetHandler(k)) => Inv'
  <1> SUFFICES ASSUME Inv, EqxInit \/ InstallOverride \/ \E k \in {"data", "swi"} : SetHandler(k)
               PROVE Inv'
    OBVIOUS
  <1>1. CASE EqxInit /\ \E reason : Panic(reason)
    BY <1>1, PanicInv
  <1>2. CASE UNCHANGED <<cpuVars, mem, debugVars, exc, r, threadVars, why, was>>
             /\ ClientRuns /\ vector' \in {"none", "other", "full"}
             /\ handler' \in [Kinds -> {"none", "eqx", "client"}]
    <2>1. OtherTypes' /\ exc = "none" /\ cur = None
      BY <1>2, ClientHasCpu DEF Inv, OtherTypes, debugVars, threadVars
    <2>2. \A t \in ready' : mem'[t].mode = "usr" /\ FileIn(mem[t])' \in Files
      BY <1>2 DEF Inv, Owners, ThreadFiles, FileIn, threadVars
    <2> QED
      BY <1>2, <2>1, <2>2, SetupInv DEF cpuVars, threadVars
  <1>3. handler \in [Kinds -> {"none", "eqx", "client"}] /\ vector \in {"none", "other", "full"}
    BY DEF Inv, OtherTypes
  <1> QED
    BY <1>1, <1>2, <1>3 DEF EqxInit, InstallOverride, SetHandler, setupVars, threadVars, Kinds

\* The first switch of a run.
LEMMA RunThreadsInv ==
  ASSUME Inv, RunThreads
  PROVE  /\ Inv' /\ exc = "none" /\ exc' = "none" /\ cur = None /\ cur' \in Threads
         /\ UserFile' = FileIn(mem[cur'])
         /\ mem'["start"].c = cpu.c /\ mem'["start"].sp = sp["svc"] /\ mem'["start"].pc = cpu.pc
         /\ \A x \in Threads : mem'[x] = mem[x]
  <1> USE DEF Inv
  <1>1. PICK t \in ready :
          /\ cur' = t /\ ready' = ready \ {t}
          /\ debug' = brkpt_mismatch_start(mem[t].pc)
          /\ switchto_cswitch(t)
    BY DEF RunThreads
  <1>2. /\ exc = "none" /\ r = None /\ cur = None /\ cpu.mode = "svc"
        /\ single_step_on_p' = TRUE
        /\ UNCHANGED <<spsr, handler, vector>>
    BY ClientHasCpu DEF RunThreads, ClientRuns, setupVars
  <1>3. t \in Threads /\ t \in Places /\ mem[t] \in RegsSet /\ mem[t].mode = "usr"
        /\ FileIn(mem[t]) \in Files /\ "start" \in Places
    BY DEF OtherTypes, Owners, ThreadFiles, Places
  <1>4. switchto(mem[t], t) /\ mem' = [mem EXCEPT !["start"] = StartRegs]
    BY <1>1 DEF switchto_cswitch
  <1>5. StartRegs \in RegsSet /\ StartRegs.mode = "svc"
        /\ StartRegs.c = cpu.c /\ StartRegs.sp = sp["svc"] /\ StartRegs.pc = cpu.pc
    <2>1. mem["start"] \in RegsSet
      BY DEF OtherTypes, Places
    <2> QED
      BY <2>1 DEF StartRegs, RegsSet, CpuTypes, CpuSet, Modes
  <1>6. /\ CpuTypes' /\ cpu'.mode = "usr" /\ exc' = "none" /\ r' = None
        /\ UserFile' = FileIn(mem[t])
    BY <1>2, <1>3, <1>4, SwitchTo
  <1>7. mem' \in [Places -> RegsSet] /\ mem'["start"] = StartRegs
        /\ \A x \in Threads : mem'[x] = mem[x]
    BY <1>3, <1>4, <1>5, Distinct DEF OtherTypes, Places
  <1>8. debug' \in DebugRegs
    BY <1>1, <1>3 DEF brkpt_mismatch_start, brkpt_mismatch_set, cp14_enable, cp14_is_enabled,
                      DebugRegs, OtherTypes, RegsSet
  <1>9. OtherTypes'
    BY <1>1, <1>2, <1>3, <1>6, <1>7, <1>8 DEF OtherTypes
  <1>10. Owners'
    BY <1>1, <1>3, <1>5, <1>6, <1>7, Distinct DEF Owners, OtherTypes
  <1>11. Saved' /\ ThreadFiles'
    BY <1>1, <1>3, <1>6, <1>7 DEF Saved, ThreadFiles, FileIn, OtherTypes
  <1> QED
    BY <1>1, <1>2, <1>3, <1>5, <1>6, <1>7, <1>9, <1>10, <1>11

LEMMA RunThreadsReturnInv == Inv /\ RunThreadsReturn => Inv'
  <1> SUFFICES ASSUME Inv, RunThreadsReturn PROVE Inv'
    OBVIOUS
  <1>1. /\ exc = "none" /\ cur = None /\ single_step_on_p' = FALSE
        /\ debug' = brkpt_mismatch_stop
        /\ UNCHANGED <<cpu, sp, lr, spsr, mem, handler, vector, exc, r, cur, ready>>
    BY DEF RunThreadsReturn, Runs, Inv, Owners, cpuVars, setupVars, threadVars
  <1>2. OtherTypes'
    BY <1>1 DEF Inv, OtherTypes, brkpt_mismatch_stop, DebugRegs
  <1>3. \A t \in ready' : mem'[t].mode = "usr" /\ FileIn(mem[t])' \in Files
    BY <1>1 DEF Inv, Owners, ThreadFiles, FileIn
  <1> QED
    BY <1>1, <1>2, <1>3, SetupInv

LEMMA StutterInv == Inv /\ UNCHANGED vars => Inv'
  <1> SUFFICES ASSUME Inv, UNCHANGED vars PROVE Inv'
    OBVIOUS
  <1>1. UNCHANGED <<cpu, sp, lr, spsr, mem, debug, single_step_on_p, handler, vector, exc, r,
                    cur, ready, was>>
    BY DEF vars, cpuVars, debugVars, setupVars, threadVars
  <1>2. UNCHANGED <<UserFile, SavedRegs, ReturnPc, AsInterrupted>>
    BY <1>1 DEF UserFile, SavedRegs, ReturnPc, AsInterrupted
  <1> QED
    BY <1>1, <1>2 DEF Inv, CpuTypes, OtherTypes, Owners, Saved, ThreadFiles, FileIn

LEMMA StepInv == Inv /\ [Next]_vars => Inv'
  <1> SUFFICES ASSUME Inv, [Next]_vars PROVE Inv'
    OBVIOUS
  <1>1. CASE Hardware
    BY <1>1, HardwareInv
  <1>2. CASE Trampoline \/ PrefetchAbort \/ DataAbort \/ SyscallReturns \/ SysPutc \/ SysExit
    BY <1>2, TrampolineInv, PrefetchAbortInv, DataAbortInv, SyscallReturnsInv, SysPutcInv, SysExitInv
  <1>3. CASE ExceptionPanics
    <2>1. \E reason : Panic(reason)
      BY <1>3 DEF ExceptionPanics
    <2> QED
      BY <2>1, PanicInv
  <1>4. CASE EqxInit \/ InstallOverride \/ SetHandler("data") \/ SetHandler("swi")
    BY <1>4, SetsHandlersInv
  <1>5. CASE ClientInst
    BY <1>5, ClientInstInv
  <1>6. CASE \E t \in Threads : StartThread(t)
    BY <1>6, StartThreadInv
  <1>7. CASE RunThreads
    BY <1>7, RunThreadsInv
  <1>8. CASE RunThreadsReturn
    BY <1>8, RunThreadsReturnInv
  <1>9. CASE UNCHANGED vars
    BY <1>9, StutterInv
  <1> QED
    BY <1>1, <1>2, <1>3, <1>4, <1>5, <1>6, <1>7, <1>8, <1>9 DEF Next, Software

\* The invariant holds in every reachable state.
LEMMA Invariant == Spec => []Inv
  BY InitInv, StepInv, PTL DEF Spec

\* Saved registers belong to user mode or to the client's mode, and all the
\* other state has its type.
THEOREM TypesCorrect == Spec => []TypeOK
  <1>1. Inv => TypeOK
    BY DEF Inv, CpuTypes, OtherTypes, TypeOK, CpuSet, RegsSet
  <1> QED
    BY <1>1, Invariant, PTL

\* The registers a handler is given are those of the thread when the exception
\* came, with the pc where it has to go on, for any number of threads and any
\* contents of the registers (full-except-asm.S:96-181).
THEOREM SavedRegistersRight == Spec => []SavedAsInterrupted
  <1>1. Inv => SavedAsInterrupted
    BY DEF Inv, Saved, Owners, SavedAsInterrupted, AsInterrupted
  <1> QED
    BY <1>1, Invariant, PTL
-----------------------------------------------------------------------------
(* The contexts.                                                           *)

ClientRegs ==
    IF cur = None THEN ClientFile
    ELSE [c |-> mem["start"].c, sp |-> mem["start"].sp, pc |-> mem["start"].pc]

LEMMA ChangesOnly ==
  ASSUME NEW cs, \A t \in Threads \ cs : ThreadFile(t)' = ThreadFile(t),
         Client \notin cs => ClientRegs' = ClientRegs
  PROVE  C!Changes(cs)
  <1>1. ContextFile = [x \in Threads \cup {Client} |-> IF x = Client THEN ClientRegs ELSE ThreadFile(x)]
    BY DEF ContextFile, ClientRegs
  <1>2. ContextFile' = [x \in Threads \cup {Client} |->
                          IF x = Client THEN ClientRegs' ELSE ThreadFile(x)']
    BY DEF ContextFile, ClientRegs
  <1>3. \A x \in (Threads \cup {Client}) \ cs : ContextFile'[x] = ContextFile[x]
    BY <1>1, <1>2
  <1>4. DOMAIN ContextFile' = Threads \cup {Client}
    BY <1>2
  <1> QED
    BY <1>3, <1>4 DEF C!Changes

LEMMA NotRunning ==
  ASSUME NEW t \in Threads, t # cur, t # cur', mem'[t] = mem[t]
  PROVE  ThreadFile(t)' = ThreadFile(t)
  BY DEF ThreadFile, FileIn

\* A step of the context that has the CPU.
LEMMA Executes ==
  ASSUME Inv, cur' = cur, \A p \in Threads \cup {"start"} : mem'[p] = mem[p]
  PROVE  C!CNext
  <1>1. ASSUME NEW t \in Threads \ {Running} PROVE ThreadFile(t)' = ThreadFile(t)
    <2>1. t \in Threads /\ t # cur /\ mem'[t] = mem[t]
      BY Distinct DEF Running
    <2> QED
      BY <2>1, NotRunning
  <1>2. Client \notin {Running} => ClientRegs' = ClientRegs
    BY DEF ClientRegs, Running
  <1>3. C!Changes({Running})
    BY <1>1, <1>2, ChangesOnly
  <1>4. Running' = Running
    BY DEF Running
  <1> QED
    BY <1>3, <1>4 DEF C!CNext, C!Execute

\* A switch between threads, in a handler that copied the registers.
LEMMA ThreadSwitches ==
  ASSUME Inv, NEW kind \in Kinds, Handles(kind), FromUser, mem' = Copied,
         NEW t \in ready \cup {cur}, NEW rest \in SUBSET ((ready \cup {cur}) \ {t}),
         ready' = rest, RunOneInst(t, Copied[t]),
         UNCHANGED <<spsr, single_step_on_p, handler, vector>>
  PROVE  C!CNext
  <1>1. /\ exc # "none" /\ r = "int" /\ cur \in Threads /\ cur \notin ready
        /\ FileIn(mem["int"]) = AsInterrupted
    BY InHandler
  <1>2. /\ Copied[cur] = mem["int"]
        /\ \A p \in (Threads \cup {"start"}) \ {cur} : Copied[p] = mem[p]
    BY <1>1, Copies, Distinct DEF Inv, Places
  <1>3. UserFile' = FileIn(Copied[t]) /\ cur' = t /\ exc' = "none" /\ t \in Threads
    BY <1>1, SwitchesInv DEF Inv, OtherTypes
  <1>4. ThreadFile(cur) = FileIn(mem["int"])
    BY <1>1, Distinct DEF ThreadFile
  <1>5. ThreadFile(t)' = FileIn(Copied[t])
    BY <1>3 DEF ThreadFile
  <1>6. ASSUME NEW x \in Threads PROVE ThreadFile(x)' = ThreadFile(x)
    <2>1. CASE x = cur /\ x # t
      <3>1. ThreadFile(x)' = FileIn(mem[x])'
        BY <1>3, <2>1 DEF ThreadFile
      <3> QED
        BY <1>2, <1>4, <2>1, <3>1 DEF FileIn
    <2>2. CASE x = t /\ x = cur
      BY <1>2, <1>4, <1>5, <2>2
    <2>3. CASE x = t /\ x # cur
      <3>1. ThreadFile(x) = FileIn(mem[x])
        BY <2>3 DEF ThreadFile
      <3> QED
        BY <1>2, <1>5, <2>3, <3>1
    <2>4. CASE x # t /\ x # cur
      BY <1>2, <1>3, <2>4, NotRunning
    <2> QED
      BY <2>1, <2>2, <2>3, <2>4
  <1>7. ClientRegs' = ClientRegs
    BY <1>1, <1>2, <1>3, Distinct DEF ClientRegs
  <1>8. C!Changes({})
    BY <1>6, <1>7, ChangesOnly
  <1>9. Running' \in Threads \cup {Client}
    BY <1>3 DEF Running
  <1> QED
    BY <1>8, <1>9 DEF C!CNext, C!Switch

LEMMA HardwareExecutes == Inv /\ Hardware => C!CNext
  BY Executes DEF Hardware, UserInst, BreakpointFault, FetchFault, DataFault, Swi, TakeException,
                  threadVars, Inv, OtherTypes

LEMMA TrampolineExecutes == Inv /\ Trampoline => C!CNext
  <1> SUFFICES ASSUME Inv, Trampoline PROVE C!CNext
    OBVIOUS
  <1>1. \A p \in Threads \cup {"start"} : mem'[p] = mem[p]
    BY Distinct DEF Inv, OtherTypes, Trampoline, Places
  <1> QED
    BY <1>1, Executes DEF Trampoline, threadVars

LEMMA SchedulesSwitch ==
  ASSUME Inv, NEW kind \in Kinds, Handles(kind), FromUser, mem' = Copied, Schedule(Copied),
         UNCHANGED <<spsr, single_step_on_p, handler, vector>>
  PROVE  C!CNext
  <1>1. PICK t \in ready \cup {cur} : ready' = (ready \cup {cur}) \ {t} /\ RunOneInst(t, Copied[t])
    BY DEF Schedule
  <1> QED
    BY <1>1, ThreadSwitches

LEMMA SysExitSwitches == Inv /\ SysExit => C!CNext
  <1> SUFFICES ASSUME Inv, SysExit PROVE C!CNext
    OBVIOUS
  <1>1. /\ "swi" \in Kinds /\ Handles("swi") /\ FromUser /\ mem' = Copied
        /\ UNCHANGED <<spsr, single_step_on_p, handler, vector>>
    BY DEF SysExit, setupVars, Kinds
  <1>2. /\ exc # "none" /\ r = "int" /\ cur \in Threads /\ cur \notin ready
        /\ ready \subseteq Threads
    BY <1>1, InHandler DEF Inv, OtherTypes
  <1>3. /\ Copied[cur] = mem["int"]
        /\ \A p \in (Threads \cup {"start"}) \ {cur} : Copied[p] = mem[p]
    BY <1>2, Copies, Distinct DEF Inv, Places
  <1>4. CASE ready = {} /\ cur' = None /\ switchto(mem["start"], "start") /\ UNCHANGED <<ready, debug, insts>>
    <2>1. exc' = "none"
          /\ ClientFile' = [c |-> mem["start"].c, sp |-> mem["start"].sp, pc |-> mem["start"].pc]
      BY <1>1, <1>4, ReturnsToClient
    <2>2. ClientRegs' = ClientRegs
      BY <1>2, <1>4, <2>1, Distinct DEF ClientRegs
    <2>3. ASSUME NEW x \in Threads PROVE ThreadFile(x)' = ThreadFile(x)
      <3>1. ThreadFile(x)' = FileIn(mem[x])'
        BY <1>4, Distinct DEF ThreadFile
      <3>2. CASE x = cur
        BY <1>1, <1>2, <1>3, <3>1, <3>2, Distinct DEF ThreadFile, FileIn
      <3>3. CASE x # cur
        BY <1>1, <1>3, <3>1, <3>3 DEF ThreadFile, FileIn
      <3> QED
        BY <3>2, <3>3
    <2>4. C!Changes({})
      BY <2>2, <2>3, ChangesOnly
    <2>5. Running' \in Threads \cup {Client}
      BY <1>4 DEF Running
    <2> QED
      BY <2>4, <2>5 DEF C!CNext, C!Switch
  <1>5. CASE \E t \in ready : ready' = ready \ {t} /\ RunOneInst(t, mem[t])
    <2>1. PICK t \in ready : ready' = ready \ {t} /\ RunOneInst(t, mem[t])
      BY <1>5
    <2>2. Copied[t] = mem[t]
      BY <1>2, <1>3, <2>1
    <2>3. t \in ready \cup {cur} /\ ready' \in SUBSET ((ready \cup {cur}) \ {t})
      BY <1>2, <2>1
    <2> QED
      BY <1>1, <2>1, <2>2, <2>3, ThreadSwitches
  <1> QED
    BY <1>4, <1>5 DEF SysExit

LEMMA RunThreadsSwitches == Inv /\ RunThreads => C!CNext
  <1> SUFFICES ASSUME Inv, RunThreads PROVE C!CNext
    OBVIOUS
  <1>1. /\ exc = "none" /\ exc' = "none" /\ cur = None /\ cur' \in Threads
        /\ UserFile' = FileIn(mem[cur'])
        /\ mem'["start"].c = cpu.c /\ mem'["start"].sp = sp["svc"] /\ mem'["start"].pc = cpu.pc
        /\ \A x \in Threads : mem'[x] = mem[x]
    BY RunThreadsInv
  <1>2. ASSUME NEW x \in Threads PROVE ThreadFile(x)' = ThreadFile(x)
    <2>1. ThreadFile(x) = FileIn(mem[x])
      BY <1>1, Distinct DEF ThreadFile
    <2>2. CASE x = cur'
      BY <1>1, <2>1, <2>2 DEF ThreadFile
    <2>3. CASE x # cur'
      BY <1>1, <2>1, <2>3 DEF ThreadFile, FileIn
    <2> QED
      BY <2>2, <2>3
  <1>3. ClientRegs' = ClientRegs
    BY <1>1, Distinct DEF ClientRegs, ClientFile
  <1>4. C!Changes({})
    BY <1>2, <1>3, ChangesOnly
  <1>5. Running' \in Threads \cup {Client}
    BY <1>1 DEF Running
  <1> QED
    BY <1>4, <1>5 DEF C!CNext, C!Switch

LEMMA StartThreadCreates == ASSUME Inv, NEW t \in Threads, StartThread(t) PROVE C!CNext
  <1>1. /\ exc = "none" /\ cur = None /\ cur' = None
        /\ \A x \in Threads \ {t} : mem'[x] = mem[x]
        /\ UNCHANGED <<cpu, sp>>
    BY ClientHasCpu DEF StartThread, cpuVars, Inv, OtherTypes, Places
  <1>2. ASSUME NEW x \in Threads \ {t} PROVE ThreadFile(x)' = ThreadFile(x)
    BY <1>1, Distinct, NotRunning
  <1>3. ClientRegs' = ClientRegs
    BY <1>1 DEF ClientRegs, ClientFile
  <1>4. C!Changes({t})
    BY <1>2, <1>3, ChangesOnly
  <1>5. Running = Client /\ Running' = Running
    BY <1>1 DEF Running
  <1> QED
    BY <1>4, <1>5 DEF C!CNext, C!Create

LEMMA StepsAreContexts == Inv /\ [Next]_vars => [C!CNext]_<<ContextFile, Running>>
  <1> SUFFICES ASSUME Inv, [Next]_vars PROVE [C!CNext]_<<ContextFile, Running>>
    OBVIOUS
  <1>1. CASE Hardware \/ Trampoline
    BY <1>1, HardwareExecutes, TrampolineExecutes
  <1>2. CASE PrefetchAbort \/ SysPutc
    BY <1>2, SchedulesSwitch DEF PrefetchAbort, SysPutc, setupVars, Kinds
  <1>3. CASE SysExit
    BY <1>3, SysExitSwitches
  <1>4. CASE DataAbort \/ SyscallReturns
    BY <1>4, Executes DEF DataAbort, SyscallReturns, threadVars
  <1>5. CASE ExceptionPanics
    <2>1. \E reason : Panic(reason)
      BY <1>5 DEF ExceptionPanics
    <2> QED
      BY <2>1, Executes DEF Panic, threadVars
  <1>6. CASE EqxInit \/ InstallOverride \/ SetHandler("data") \/ SetHandler("swi")
    BY <1>6, Executes DEF EqxInit, InstallOverride, SetHandler, Panic, threadVars
  <1>7. CASE ClientInst \/ RunThreadsReturn
    BY <1>7, Executes DEF ClientInst, RunThreadsReturn, threadVars
  <1>8. CASE \E t \in Threads : StartThread(t)
    BY <1>8, StartThreadCreates
  <1>9. CASE RunThreads
    BY <1>9, RunThreadsSwitches
  <1>10. CASE UNCHANGED vars
    <2>1. UNCHANGED <<cpu, sp, lr, spsr, mem, exc, r, cur>>
      BY <1>10 DEF vars, cpuVars, threadVars
    <2>2. UNCHANGED ContextFile
      BY <2>1 DEF ContextFile, ThreadFile, FileIn, UserFile, ClientFile, SavedRegs, ReturnPc
    <2> QED
      BY <2>1, <2>2 DEF Running
  <1> QED
    BY <1>1, <1>2, <1>3, <1>4, <1>5, <1>6, <1>7, <1>8, <1>9, <1>10 DEF Next, Software

\* Exceptions, handlers and switches give every context a CPU of its own, for
\* any number of threads and any contents of the registers
\* (full-except-asm.S:96-181, staff-full-except.c:46-105, switchto-asm.S:36-132).
THEOREM ContextsHaveOwnCpu == Spec => ContextsArePrivate
  <1>1. Init => C!CInit
    BY DEF Init, C!CInit, ContextFile, Running
  <1>2. Inv /\ [Next]_vars => [C!CNext]_<<ContextFile, Running>>
    BY StepsAreContexts
  <1> QED
    BY <1>1, <1>2, Invariant, PTL DEF Spec, ContextsArePrivate, C!CSpec
-----------------------------------------------------------------------------
(* Single-stepping.                                                        *)

\* A thread has the CPU under the mismatch, and stands at its address with no
\* instruction done since, or elsewhere with one.
Stepping ==
    /\ cur # None => debug.monitor /\ debug.bcr0 = "mismatch" /\ single_step_on_p
    /\ cur # None /\ exc = "none" => insts = IF cpu.pc = debug.bvr0 THEN 0 ELSE 1
    /\ cur # None /\ exc \in {"data", "swi"} =>
         was.pc = debug.bvr0 /\ insts = IF exc = "data" THEN 0 ELSE 1
    /\ exc = "prefetch" /\ debug.ifsr = "debug" => insts = 1 /\ cur # None

LEMMA UserInstStepping == Inv /\ Stepping /\ UserInst => Stepping'
  <1> SUFFICES ASSUME Inv, Stepping, UserInst PROVE Stepping'
    OBVIOUS
  <1>1. PICK u \in NextFiles(UserFile) :
          cpu' = [a |-> u.a, c |-> u.c, pc |-> u.pc, mode |-> "usr", f |-> u.f]
    BY DEF UserInst
  <1>2. exc = "none" /\ cur # None /\ MayFetch /\ insts' = insts + 1
        /\ UNCHANGED <<debug, single_step_on_p, exc, cur>>
    BY DEF UserInst, UserRuns, Runs, Inv, Owners, setupVars, threadVars
  <1>3. debug.bvr0 = cpu.pc /\ insts = 0
    BY <1>2 DEF MayFetch, Stepping
  <1>4. UserFile \in Files /\ u.pc # UserFile.pc
    BY <1>1, <1>2, FilesAssumption DEF Inv, ThreadFiles
  <1>5. cpu'.pc # debug.bvr0
    BY <1>1, <1>3, <1>4 DEF UserFile
  <1> QED
    BY <1>2, <1>3, <1>5 DEF Stepping

LEMMA ExceptionStepping == Inv /\ Stepping /\ Hardware /\ ~UserInst => Stepping'
  <1> SUFFICES ASSUME Inv, Stepping, Hardware, ~UserInst PROVE Stepping'
    OBVIOUS
  <1>1. exc = "none" /\ (cur # None <=> cpu.mode = "usr") /\ debug \in DebugRegs
        /\ UserFile.pc = cpu.pc
    BY DEF Hardware, BreakpointFault, FetchFault, DataFault, Swi, UserRuns, ClientRuns, Runs,
           Inv, Owners, OtherTypes, UserFile
  <1>2. CASE BreakpointFault
    <2>1. cur # None /\ ~MayFetch
      BY <1>1, <1>2 DEF BreakpointFault, UserRuns
    <2>2. insts = 1
      BY <2>1, <1>1 DEF MayFetch, Stepping
    <2> QED
      BY <1>1, <1>2, <2>1, <2>2 DEF BreakpointFault, TakeException, Stepping, threadVars, DebugRegs
  <1>3. CASE FetchFault
    BY <1>1, <1>3 DEF FetchFault, TakeException, Stepping, threadVars, DebugRegs
  <1>4. CASE DataFault \/ Swi
    <2>1. cur # None => MayFetch
      BY <1>1, <1>4 DEF DataFault, Swi, UserRuns, ClientRuns
    <2>2. cur # None => debug.bvr0 = cpu.pc /\ insts = 0
      BY <2>1, <1>1 DEF MayFetch, Stepping
    <2> QED
      BY <1>1, <1>4, <2>2 DEF DataFault, Swi, TakeException, Stepping, threadVars
  <1> QED
    BY <1>2, <1>3, <1>4 DEF Hardware

\* A switch to t sets the mismatch at the pc it goes on at.
LEMMA RunStepping ==
  ASSUME CpuTypes, OtherTypes, NEW t \in Threads, NEW s \in RegsSet, RunOneInst(t, s),
         debug.monitor, single_step_on_p'
  PROVE  Stepping'
  <1>1. debug' = [debug EXCEPT !.bcr0 = "mismatch", !.bvr0 = s.pc] /\ insts' = 0
        /\ cpu'.pc = s.pc /\ exc' = "none"
    BY DEF RunOneInst, brkpt_mismatch_set, switchto, Restored
  <1>2. debug'.monitor /\ debug'.bcr0 = "mismatch" /\ debug'.bvr0 = s.pc
    BY <1>1 DEF OtherTypes, DebugRegs
  <1> QED
    BY <1>1, <1>2 DEF Stepping

LEMMA HandlerStepping ==
  Inv /\ Stepping /\ (PrefetchAbort \/ SysPutc \/ SysExit) => Stepping'
  <1> SUFFICES ASSUME Inv, Stepping, PrefetchAbort \/ SysPutc \/ SysExit PROVE Stepping'
    OBVIOUS
  <1>1. PICK kind \in Kinds : Handles(kind) /\ FromUser
    BY DEF PrefetchAbort, SysPutc, SysExit, Kinds
  <1>2. r = "int" /\ cur \in Threads /\ cur # None /\ ready \subseteq Threads
    BY <1>1, InHandler, Distinct DEF Inv, OtherTypes
  <1>3. debug.monitor /\ single_step_on_p
    BY <1>2 DEF Stepping
  <1>4. \A t \in ready \cup {cur} : t \in Threads /\ mem[t] \in RegsSet /\ Copied[t] \in RegsSet
    BY <1>2, Copies, Distinct DEF Inv, OtherTypes, Places
  <1>5. CASE PrefetchAbort \/ SysPutc
    <2>1. PICK t \in ready \cup {cur} : RunOneInst(t, Copied[t])
      BY <1>5 DEF PrefetchAbort, SysPutc, Schedule
    <2> QED
      BY <1>3, <1>4, <1>5, <2>1, RunStepping DEF Inv, PrefetchAbort, SysPutc
  <1>6. CASE SysExit /\ cur' = None
    BY <1>6 DEF SysExit, switchto, RunOneInst, Stepping
  <1>7. CASE SysExit /\ \E t \in ready : RunOneInst(t, mem[t])
    BY <1>3, <1>4, <1>7, RunStepping DEF Inv, SysExit
  <1> QED
    BY <1>5, <1>6, <1>7 DEF SysExit

LEMMA ReturnStepping == Inv /\ Stepping /\ (DataAbort \/ SyscallReturns) => Stepping'
  <1> SUFFICES ASSUME Inv, Stepping, DataAbort \/ SyscallReturns PROVE Stepping'
    OBVIOUS
  <1>1. PICK kind \in {"data", "swi"} : Handles(kind) /\ FromUser /\ exc = kind
    BY DEF DataAbort, SyscallReturns, Handles
  <1>2. cur \in Threads /\ cur # None /\ r = "int" /\ mem["int"] \in RegsSet
        /\ FileIn(mem["int"]) = AsInterrupted
    BY <1>1, InHandler, Distinct DEF Kinds
  <1>3. was \in FileSet
    BY <1>1 DEF Inv, Saved
  <1>4. mem["int"].pc = was.pc + 1
    <2>1. AsInterrupted.pc = was.pc + 1
      BY <1>1, <1>3 DEF AsInterrupted, FileSet
    <2> QED
      BY <1>2, <2>1 DEF FileIn
  <1>5. cpu'.pc = mem["int"].pc /\ exc' = "none"
    BY <1>2 DEF DataAbort, SyscallReturns, switchto, Restored, RegsSet
  <1>6. insts' = 1 /\ UNCHANGED <<debug, single_step_on_p, cur>>
    <2>1. insts = IF exc = "data" THEN 0 ELSE 1
      BY <1>1, <1>2 DEF Stepping
    <2>2. CASE DataAbort
      BY <2>1, <2>2 DEF DataAbort, Handles, threadVars
    <2>3. CASE SyscallReturns
      BY <2>1, <2>3 DEF SyscallReturns, Handles, debugVars, threadVars
    <2> QED
      BY <2>2, <2>3
  <1>7. was.pc = debug.bvr0 /\ was.pc \in Nat
    BY <1>1, <1>2, <1>3 DEF Stepping, FileSet
  <1> QED
    BY <1>4, <1>5, <1>6, <1>7 DEF Stepping

LEMMA RunThreadsStepping == Inv /\ Stepping /\ RunThreads => Stepping'
  <1> SUFFICES ASSUME Inv, RunThreads PROVE Stepping'
    OBVIOUS
  <1>1. PICK t \in ready : /\ debug' = brkpt_mismatch_start(mem[t].pc) /\ insts' = 0
                           /\ cpu'.pc = mem[t].pc /\ exc' = "none"
    BY DEF RunThreads, switchto_cswitch, switchto, Restored
  <1>2. debug'.monitor /\ debug'.bcr0 = "mismatch" /\ debug'.bvr0 = mem[t].pc
    BY <1>1 DEF brkpt_mismatch_start, brkpt_mismatch_set, cp14_enable, cp14_is_enabled,
                Inv, OtherTypes, DebugRegs
  <1> QED
    BY <1>1, <1>2 DEF Stepping, RunThreads

LEMMA StepStepping == Inv /\ Stepping /\ [Next]_vars => Stepping'
  <1> SUFFICES ASSUME Inv, Stepping, [Next]_vars PROVE Stepping'
    OBVIOUS
  <1>1. CASE Hardware
    BY <1>1, UserInstStepping, ExceptionStepping
  <1>2. CASE PrefetchAbort \/ SysPutc \/ SysExit \/ DataAbort \/ SyscallReturns
    BY <1>2, HandlerStepping, ReturnStepping
  <1>3. CASE Trampoline
    <2>1. cpu'.mode = cpu.mode /\ exc # "none"
          /\ UNCHANGED <<debug, single_step_on_p, insts, exc, cur, was>>
      BY <1>3 DEF Trampoline, debugVars, threadVars, Inv, CpuTypes, CpuSet
    <2> QED
      BY <2>1 DEF Stepping
  <1>4. CASE RunThreads
    BY <1>4, RunThreadsStepping
  <1>5. CASE RunThreadsReturn
    <2>1. cur = None /\ cur' = None /\ exc' = "none"
      BY <1>5 DEF RunThreadsReturn, Runs, Inv, Owners, threadVars
    <2> QED
      BY <2>1 DEF Stepping
  <1>6. CASE \/ EqxInit \/ InstallOverride \/ SetHandler("data") \/ SetHandler("swi") \/ ClientInst
             \/ \E t \in Threads : StartThread(t)
    <2>1. exc = "none" /\ cur = None
      BY <1>6, ClientHasCpu DEF EqxInit, InstallOverride, SetHandler, ClientInst, StartThread
    <2>2. exc' = exc /\ cur' = cur
      BY <1>6 DEF EqxInit, InstallOverride, SetHandler, ClientInst, StartThread, Panic, threadVars
    <2> QED
      BY <2>1, <2>2 DEF Stepping
  <1>7. CASE ExceptionPanics \/ UNCHANGED vars
    BY <1>7 DEF ExceptionPanics, Panic, vars, cpuVars, debugVars, threadVars, Stepping
  <1> QED
    BY <1>1, <1>2, <1>3, <1>4, <1>5, <1>6, <1>7 DEF Next, Software

\* A debug fault comes after exactly one instruction of a thread and never in
\* the client, for any number of threads (breakpoint.c:8-45,
\* eqx-threads.c:224-237, 642-655).
THEOREM OneInstructionAtATime == Spec => []SingleStepped
  <1>1. Init => Stepping
    BY DEF Init, Stepping
  <1>2. Inv /\ Stepping => SingleStepped
    BY DEF Inv, Owners, Stepping, SingleStepped
  <1> QED
    BY <1>1, <1>2, StepStepping, Invariant, PTL DEF Spec
=============================================================================
