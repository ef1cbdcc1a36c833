-------------------------------- MODULE Deque --------------------------------
(***************************************************************************)
(* What the queue generated by queue-ext-T.h promises its user: a sequence *)
(* of elements that is extended at either end and consumed at the head.    *)
(***************************************************************************)
EXTENDS Sequences

CONSTANTS Elems, Null

VARIABLES
    q,      \* the elements of the queue, head first
    ret     \* what the last pop returned

dequeVars == <<q, ret>>

DInit == q = <<>> /\ ret = Null

DPush(e) == q' = <<e>> \o q /\ UNCHANGED ret

DAppend(e) == q' = Append(q, e) /\ UNCHANGED ret

DPop ==
    \/ q = <<>> /\ ret' = Null /\ UNCHANGED q
    \/ q # <<>> /\ ret' = Head(q) /\ q' = Tail(q)

DNext == DPop \/ \E e \in Elems : DPush(e) \/ DAppend(e)

DSpec == DInit /\ [][DNext]_dequeVars
=============================================================================
