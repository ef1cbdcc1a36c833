------------------------- MODULE MCSimpleInterleave -------------------------
(* SimpleInterleave on the toy machine.                                    *)
EXTENDS SimpleInterleave, ToyMachine

MCChecks ==
    [A : {"alu2", "say", "read", "blip"}, B : {"alu2", "blip", "read"},
     n_copies : 1..2, enable_stack : {FALSE}]
    \cup [A : {"push", "write"}, B : {"alu2", "none"}, n_copies : {1, 2}, enable_stack : {TRUE}]
    \cup [A : {"incr"}, B : {"incr"}, n_copies : {1}, enable_stack : {FALSE}]

\* Routines that only compute, with stacks for A and for the copies of B.
StackChecks ==
    [A : {"alu2", "push"}, B : {"alu2"}, n_copies : 1..2, enable_stack : {TRUE}]

MCConfigs ==
    [type : {"SEQUENTIAL"}, switch_on_inst_n : 0..10, random_seed : Garbage,
     enable_interleave : BOOLEAN, interleave_tid : (0..MaxThreads) \cup Garbage]
=============================================================================
