------------------------ MODULE MCInterleaveMultiple ------------------------
(* InterleaveMultiple on the toy machine.                                  *)
EXTENDS InterleaveMultiple, ToyMachine

Call(fns, stack, max, type) ==
    [fns |-> fns, enable_stack |-> stack, max_num_inst |-> max,
     non_interleave_type |-> type, random_seed |-> 2]

\* Routines that leave the memory as they find it; some of them race.
Restoring == { <<"blip", "read">>, <<"read", "blip">>, <<"read", "alu2">>,
               <<"blip", "say", "alu2">>, <<"push", "alu2">> }

MCOpts ==
    {Call(fns, TRUE, 10, "SEQUENTIAL") : fns \in Restoring}
    \cup {Call(fns, FALSE, 10, t) : fns \in { <<"say", "alu2">> }, t \in SchedulerTypes}
    \cup { Call(<<"read", "write">>, FALSE, 10, "SEQUENTIAL"),
           Call(<<"incr", "alu2">>, FALSE, 10, "EVERY_X"),
           Call(<<"none", "alu2">>, FALSE, 10, "SEQUENTIAL"),
           Call(<<"alu2", "say">>, TRUE, 1, "ROUND_ROBIN"),
           Call(<<"alu2">>, TRUE, 10, "SEQUENTIAL"),
           [Call(<<"alu2">>, TRUE, 10, "RANDOM") EXCEPT !.random_seed = 0] }

\* What KeepsContract lets a client ask for: the two checkers' configurations.
MCConfigs ==
    {Sequentially(g) : g \in Garbage}
    \cup [type : SchedulerTypes, switch_on_inst_n : 0..11, random_seed : {0, 2},
          enable_interleave : {TRUE}, interleave_tid : 1..MaxThreads]

\* For the runs that show a comment to be wrong.
OrderOpts == {Call(<<"alu2", "say">>, TRUE, 10, "SEQUENTIAL")}
RoundRobinOpts == {Call(<<"alu2", "say">>, TRUE, 10, "ROUND_ROBIN")}
=============================================================================
