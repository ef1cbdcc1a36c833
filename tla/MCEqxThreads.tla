---------------------------- MODULE MCEqxThreads ----------------------------
(* EqxThreads on the toy machine, with every client that keeps to the      *)
(* interface: forks, reforks, configurations and runs in any order.        *)
EXTENDS EqxThreads, ToyMachine

Conf(type, n, seed, x) ==
    [type |-> type, switch_on_inst_n |-> n, random_seed |-> seed,
     enable_interleave |-> x # 0, interleave_tid |-> x]

MCConfigs == {
    Conf("ROUND_ROBIN", 0, 10, 0), Conf("EVERY_X", 2, 10, 0),
    Conf("RANDOM", 0, 2, 0), Conf("RANDOM", 0, 0, 0), Conf("SEQUENTIAL", 0, 10, 0),
    Conf("SEQUENTIAL", 1, 10, 1), Conf("EVERY_X", 1, 10, 2), Conf("ROUND_ROBIN", 2, 10, 2) }

\* Every instruction of the toy routines leaves its address.
ASSUME MCNoSelfBranch == NoSelfBranch
=============================================================================
