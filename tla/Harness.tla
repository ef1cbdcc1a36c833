------------------------------- MODULE Harness -------------------------------
(***************************************************************************)
(* What the two checkers of interleave-checker.c share: a sequential       *)
(* program, at label "at", whose steps are calls of eqx-threads.c or       *)
(* local computation, and a loop that runs thread X for inst instructions, *)
(* then the others, then the rest of X, for growing inst.                  *)
(***************************************************************************)
EXTENDS SerialRuns, SequencesExt

\* What an uninitialised field of scheduler_config_t may hold.
CONSTANT Garbage

ASSUME GarbageAssumption == Garbage \subseteq Nat /\ Garbage # {}

VARIABLES
    at,      \* the next statement of the checker
    todo,    \* threads the current loop has still to refork
    inst,    \* i of the loop over switch points
    mem0,    \* history: the memory at the start of the last run
    cuts     \* history: counts at which X was preempted, over the loop

loopVars == <<at, todo, inst, mem0, cuts>>

HarnessInit ==
    /\ Init
    /\ at = "init" /\ todo = <<>> /\ inst = 0 /\ mem0 = InitMem /\ cuts = {}

InClient == mode = "client"

\* eqx_refork, with its assertion.
ReforkCall(t) == Refork(t) \/ ReforkAsserts(t)

ForkWith(stack, f, h) ==
    \/ stack /\ Fork(f, h)
    \/ ~stack /\ ForkNostack(f, h)

Sequentially(g) ==
    [type |-> "SEQUENTIAL", switch_on_inst_n |-> g, random_seed |-> g,
     enable_interleave |-> FALSE, interleave_tid |-> g]

\* The loops that refork a list of threads.
ReforkTodo ==
    /\ todo # <<>>
    /\ ReforkCall(Head(todo))
    /\ todo' = Tail(todo)
    /\ UNCHANGED <<at, inst, mem0, cuts>>

\* A call of eqx_run_threads; the caller goes on at label next.
Run(label, next) ==
    /\ at = label /\ todo = <<>>
    /\ RunThreads \/ RunThreadsPanics
    /\ at' = next
    /\ mem0' = mem
    /\ UNCHANGED <<todo, inst, cuts>>

\* The machine at work inside eqx_run_threads.
Preempts(t) == cur = t /\ cur' # t /\ t \in Range(runq')

RunStep ==
    /\ Machine
    /\ cuts' = IF \E t \in Tids : IsX(t) /\ Preempts(t)
                 THEN cuts \cup {th'[cur].cumulative_inst_cnt} ELSE cuts
    /\ UNCHANGED <<at, todo, inst, mem0>>
-----------------------------------------------------------------------------
\* A checker calls eqx-threads.c only as a client may: above all it reforks no
\* thread that is queued, which would link it into the queue twice
\* (eqx-threads.c:197-216, interleave-checker.c:69-77, 87-92, 169-175, 230-232).
KeepsContract == Spec

\* The checker ends, with or without a verdict: thread X completes before it
\* yields once inst exceeds its length, which ends a loop that has no other
\* bound (interleave-checker.c:87-106, 168-209).
Ends == <>(at = "done" \/ mode = "panic")

\* After the run for inst, X has been preempted at every one of its first inst
\* instructions and nowhere else, and the checker learns that X completed
\* before it yielded exactly when X had no instruction inst to be preempted at:
\* no switch point is skipped (eqx-threads.c:284-290, 477-484,
\* interleave-checker.c:168-208).
EveryCutTried(label) ==
    at = label /\ InClient /\ ntids > 2 =>
      LET K == th[config.interleave_tid].cumulative_inst_cnt
      IN  /\ cuts = {i \in 1..inst : i < inst \/ i <= K}
          /\ complete_x_before_switch <=> inst > K

\* Hash 0 stands for a thread that has not run.  A checker that has come to the
\* runs of several threads has a hash of every thread to compare its exits with,
\* and none of its reforks is refused but of a thread whose run ended with hash
\* 0 (eqx-threads.c:201-203, 486-502, interleave-checker.c:60-77, 167-175, 230-232).
EveryExitCompared(labels) ==
    /\ at \in labels /\ InClient => \A t \in Tids : th[t].expected_hash # 0
    /\ why = "refork without expected hash" => \E t \in Tids \ Active : th[t].reg_hash = 0

\* Whatever is scheduled in between, X finishes last when it was preempted:
\* "then, run thread X to completion" (eqx-threads.c:273-275).
XFinishesLast ==
    [][ \A t \in finished' \ finished :
          IsX(t) /\ thread_x_has_yielded => finished' = Tids ]_vars
=============================================================================
