------------------------------ MODULE ToyMachine ------------------------------
(***************************************************************************)
(* A machine small enough to enumerate, for the constants of EqxThreads:   *)
(* one shared variable, one data register, a stack pointer and routines of *)
(* a few instructions.                                                     *)
(*   alu    acc := acc + 1 (mod 3)          psh    sp := sp - 1 (wraps)    *)
(*   ld     acc := shared variable          st     shared variable := acc  *)
(*   rst    shared variable := 0            skz    skip one when acc = 0   *)
(*   putc, exit, bad                        system calls                   *)
(***************************************************************************)
EXTENDS Integers, Sequences, FiniteSets

Code == [
    alu2  |-> <<"alu", "alu", "exit">>,
    say   |-> <<"alu", "putc", "alu", "exit">>,
    push  |-> <<"psh", "alu", "putc", "exit">>,
    read  |-> <<"ld", "alu", "exit">>,
    write |-> <<"alu", "st", "exit">>,
    incr  |-> <<"ld", "alu", "st", "exit">>,
    blip  |-> <<"alu", "st", "rst", "exit">>,
    test  |-> <<"ld", "skz", "alu", "exit">>,
    bad   |-> <<"alu", "bad">>,
    none  |-> <<"exit">> ]

MaxSp == 8
TMem == 0..2
TAddrs == (DOMAIN Code) \X (1..5)

TRegs == [fn : DOMAIN Code, at : 1..5, acc : 0..2, sp : 0..MaxSp]

TInsnAt(r) == IF r.at <= Len(Code[r.fn]) THEN Code[r.fn][r.at] ELSE "exit"

TPc(r) == <<r.fn, r.at>>
TSp(r) == r.sp
TInsn(r) ==
    CASE TInsnAt(r) \in {"putc", "exit"} -> TInsnAt(r)
      [] TInsnAt(r) = "bad" -> "illegal"
      [] OTHER -> "step"

Ahead(r, n) == [r EXCEPT !.at = IF @ + n <= 5 THEN @ + n ELSE 5]

TExecRegs(r, m) ==
    CASE TInsnAt(r) = "alu" -> [Ahead(r, 1) EXCEPT !.acc = (@ + 1) % 3]
      [] TInsnAt(r) = "psh" -> [Ahead(r, 1) EXCEPT !.sp = IF @ = 0 THEN MaxSp ELSE @ - 1]
      [] TInsnAt(r) = "ld" -> [Ahead(r, 1) EXCEPT !.acc = m]
      [] TInsnAt(r) = "skz" -> Ahead(r, IF r.acc = 0 THEN 2 ELSE 1)
      [] OTHER -> Ahead(r, 1)

TExecMem(r, m) ==
    CASE TInsnAt(r) = "st" -> r.acc
      [] TInsnAt(r) = "rst" -> 0
      [] OTHER -> m

TEntry(f, sp) == [fn |-> f, at |-> 1, acc |-> 0, sp |-> sp]

\* A multiplicative hash in an 8-bit word, continued from h.
THashInc(r, h) == (h * 37 + 5 * r.at + 17 * r.acc + 3 * r.sp + 1) % 256
=============================================================================
