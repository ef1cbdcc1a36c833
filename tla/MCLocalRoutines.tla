--------------------------- MODULE MCLocalRoutines ---------------------------
(***************************************************************************)
(* LocalRoutines on a machine with a few words of memory and three         *)
(* routines that use it: one reads a constant, one a word that only it     *)
(* writes, with the same value each time, and one its stack.               *)
(***************************************************************************)
EXTENDS LocalRoutines

Code == [
    say   |-> <<"ldc", "putc", "alu", "exit">>,
    keep  |-> <<"alu", "st", "ld", "exit">>,
    frame |-> <<"alu", "push", "alu", "pop", "exit">> ]

LRoutines == DOMAIN Code
Const == 100                             \* two words outside the stacks
Kept == 101
Words == {0, 4, 6, Const, Kept}
LMem == [Words -> 0..1]
LInitMem == [w \in Words |-> 0]
LRegs == [fn : LRoutines, at : 1..5, acc : 0..1, sp : {0, 3, 4, 5, 6}]
LAddrs == LRoutines \X (1..5)

LOp(r) == IF r.at <= Len(Code[r.fn]) THEN Code[r.fn][r.at] ELSE "exit"
LPc(r) == <<r.fn, r.at>>
LSp(r) == r.sp
LInsn(r) == IF LOp(r) \in {"putc", "exit"} THEN LOp(r) ELSE "step"

\* A full descending stack; without one the word 0 serves.
Below(sp) == IF sp \in {4, 6} THEN sp - 1 ELSE sp
Above(sp) == IF sp \in {3, 5} THEN sp + 1 ELSE sp

LExecRegs(r, m) ==
    LET next == [r EXCEPT !.at = IF @ < 5 THEN @ + 1 ELSE 5]
    IN  CASE LOp(r) = "alu"  -> [next EXCEPT !.acc = 1 - @]
          [] LOp(r) = "ld"   -> [next EXCEPT !.acc = m[Kept]]
          [] LOp(r) = "ldc"  -> [next EXCEPT !.acc = m[Const]]
          [] LOp(r) = "push" -> [next EXCEPT !.sp = Below(@)]
          [] LOp(r) = "pop"  -> [next EXCEPT !.sp = Above(@), !.acc = m[Above(r.sp)]]
          [] OTHER -> next

LExecMem(r, m) ==
    CASE LOp(r) = "st" -> [m EXCEPT ![Kept] = r.acc]
      [] LOp(r) = "push" /\ r.sp \in Words -> [m EXCEPT ![r.sp] = r.acc]
      [] OTHER -> m

LEntry(f, sp) == [fn |-> f, at |-> 1, acc |-> 0, sp |-> sp]
LHashInc(r, h) == (h * 37 + 5 * r.at + 17 * r.acc + 3 * r.sp + 1) % 256

\* What a routine counts on before its i-th instruction.
CountsOn(f, sp, i) ==
    { m \in LMem :
        /\ f = "say" => m[Const] = 0
        /\ f = "keep" /\ i = 3 => m[Kept] = 1
        /\ f = "frame" /\ i \in 3..4 => m[sp] = 1 }

\* The solo run, computed.
SoloTable ==
    [f \in LRoutines, sp \in StackEnds |->
       LET s[i \in 1..Len(Code[f])] ==
             IF i = 1 THEN [regs |-> LEntry(f, sp), hash |-> 0, mem |-> LInitMem]
             ELSE LET p == s[i - 1]
                      r == LExecRegs(p.regs, p.mem)
                  IN  [regs |-> r, mem |-> LExecMem(p.regs, p.mem),
                       hash |-> IF LInsn(p.regs) = "step" THEN LHashInc(r, p.hash) ELSE p.hash]
       IN  [i \in 1..Len(Code[f]) |->
              [regs |-> s[i].regs, hash |-> s[i].hash, mems |-> CountsOn(f, sp, i)]]]
MCSolo(f, sp) == SoloTable[f, sp]

ASSUME MCUndisturbed == Undisturbed

MCExpectHashes ==
    {0} \cup {LastHash(MCSolo(f, sp)) : f \in Routines, sp \in StackEnds}

Conf(type, n, seed, x) ==
    [type |-> type, switch_on_inst_n |-> n, random_seed |-> seed,
     enable_interleave |-> x # 0, interleave_tid |-> x]

MCConfigs == { Conf("RANDOM", 0, 2, 0), Conf("SEQUENTIAL", 2, 10, 1) }
=============================================================================
