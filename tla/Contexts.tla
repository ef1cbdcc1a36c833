------------------------------ MODULE Contexts ------------------------------
(***************************************************************************)
(* What a context switch promises: every context, a thread or the client   *)
(* that runs the threads, seems to have a CPU of its own.  Its registers   *)
(* change only while it runs; the client alone gives a thread its first    *)
(* registers.                                                              *)
(***************************************************************************)
CONSTANTS Ctxs, Client

VARIABLES file,      \* the registers of each context
          running    \* the context that has the CPU

CInit == DOMAIN file = Ctxs /\ running = Client

Changes(cs) ==
    /\ DOMAIN file' = Ctxs
    /\ \A c \in Ctxs \ cs : file'[c] = file[c]

Execute == Changes({running}) /\ running' = running

Create == running = Client /\ (\E c \in Ctxs : Changes({c})) /\ running' = running

Switch == Changes({}) /\ running' \in Ctxs

CNext == Execute \/ Create \/ Switch

CSpec == CInit /\ [][CNext]_<<file, running>>
=============================================================================
