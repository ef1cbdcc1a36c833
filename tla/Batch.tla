-------------------------------- MODULE Batch --------------------------------
(***************************************************************************)
(* What eqx_run_threads promises, without threads, stacks or scheduling:   *)
(* every thread that was submitted finishes exactly once before the run    *)
(* returns, and the result of the run is the sum, modulo the word size, of *)
(* one hash per thread.  The checker may stop at any time (a panic).       *)
(***************************************************************************)
EXTENDS Naturals

CONSTANTS Ids, Word

VARIABLES
    waiting,    \* submitted threads that have not finished
    finished,   \* threads that have finished in the current or last run
    phase,      \* "idle", "running" or "stopped"
    total       \* the result accumulated so far

batchVars == <<waiting, finished, phase, total>>

BInit == waiting = {} /\ finished = {} /\ phase = "idle" /\ total = 0

BSubmit(t) ==
    /\ phase = "idle"
    /\ t \notin waiting
    /\ waiting' = waiting \cup {t}
    /\ UNCHANGED <<finished, phase, total>>

BStart ==
    /\ phase = "idle"
    /\ waiting # {}
    /\ phase' = "running"
    /\ finished' = {}
    /\ total' = 0
    /\ UNCHANGED waiting

BFinish(t, h) ==
    /\ phase = "running"
    /\ t \in waiting
    /\ waiting' = waiting \ {t}
    /\ finished' = finished \cup {t}
    /\ total' = (total + h) % Word
    /\ UNCHANGED phase

BReturn ==
    /\ phase = "running"
    /\ waiting = {}
    /\ phase' = "idle"
    /\ UNCHANGED <<waiting, finished, total>>

BStop == phase' = "stopped" /\ UNCHANGED <<waiting, finished, total>>

BNext ==
    \/ BStart \/ BReturn \/ BStop
    \/ \E t \in Ids : BSubmit(t) \/ \E h \in 0..(Word - 1) : BFinish(t, h)

BSpec == BInit /\ [][BNext]_batchVars
=============================================================================
