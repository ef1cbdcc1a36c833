----------------------------- MODULE MCExceptions -----------------------------
(* Exceptions with registers that can be told apart and have two contents    *)
(* each.                                                                     *)
EXTENDS Exceptions

File(v, pc) == [a |-> <<"a", v>>, c |-> <<"c", v>>, sp |-> <<"sp", v>>, lr |-> <<"lr", v>>,
                pc |-> pc, f |-> <<"f", v>>]

MCVals == {"a", "c", "sp", "lr", "f"} \X (0..1)
MCKernelVals == {<<"c", 0>>, <<"c", 1>>}

\* The second set: after a system call that returned a value.
MCFiles ==
    LET Own == {File(v, pc) : v \in 0..1, pc \in 0..1}
    IN  Own \cup {[u EXCEPT !.a = v] : u \in Own, v \in MCKernelVals}

\* Two instructions in a loop, which change every register.
MCNextFiles(u) == {File(1 - u.a[2], 1 - u.pc)}

MCEntry(t) == File(0, 0)
=============================================================================
