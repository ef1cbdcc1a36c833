----------------------------- MODULE LinkedQueue -----------------------------
(***************************************************************************)
(* The intrusive queue of queue-ext-T.h, the run queue of the checker.     *)
(* The queue is two pointers, head and tail, and a next field inside each  *)
(* element; pop leaves the next field of the element it removes as it is.  *)
(*                                                                         *)
(* An element has one next field, so it can be in the queue only once:     *)
(* the caller must not insert an element that is already queued.  The      *)
(* guards e \notin Range(contents) of Next are that duty of the caller;    *)
(* EqxThreads and the modules of the two harnesses show that it is kept.   *)
(***************************************************************************)
EXTENDS Sequences, Naturals

CONSTANTS Elems, Null

ASSUME NullAssumption == Null \notin Elems

VARIABLES
    head, tail,   \* the fields of rq_t
    next,         \* the next field of every element
    ret,          \* what the last pop returned
    contents      \* history: the elements inserted and not yet popped

pointers == <<head, tail, next>>
vars == <<head, tail, next, ret, contents>>

Pointers == Elems \cup {Null}

Queued == {contents[i] : i \in 1..Len(contents)}
-----------------------------------------------------------------------------
Init ==
    /\ head = Null /\ tail = Null
    /\ next = [e \in Elems |-> Null]
    /\ ret = Null
    /\ contents = <<>>

\* Fault: the old first element is not linked behind the new one.
PushUnlinked(e) ==
    /\ next' = [next EXCEPT ![e] = Null]
    /\ head' = e
    /\ tail' = IF tail = Null THEN e ELSE tail
    /\ contents' = <<e>> \o contents
    /\ UNCHANGED ret

\* Insert at the head (LIFO).
Push(e) ==
    /\ next' = [next EXCEPT ![e] = head]
    /\ head' = e
    /\ tail' = IF tail = Null THEN e ELSE tail
    /\ contents' = <<e>> \o contents
    /\ UNCHANGED ret

\* Insert at the tail (FIFO): only the last element's next field links it in.
AppendTail(e) ==
    /\ IF tail = Null
         THEN head' = e /\ next' = [next EXCEPT ![e] = Null]
         ELSE head' = head /\ next' = [next EXCEPT ![e] = Null, ![tail] = e]
    /\ tail' = e
    /\ contents' = Append(contents, e)
    /\ UNCHANGED ret

\* Remove at the head; the queue is empty when the head is null.
PopEmpty ==
    /\ head = Null
    /\ ret' = Null
    /\ UNCHANGED <<head, tail, next, contents>>

\* Fault: the tail is kept when the last element goes.
PopHeadOldTail ==
    /\ head # Null
    /\ ret' = head
    /\ head' = next[head]
    /\ contents' = IF contents = <<>> THEN <<>> ELSE Tail(contents)
    /\ UNCHANGED <<next, tail>>

PopHead ==
    /\ head # Null
    /\ ret' = head
    /\ head' = next[head]
    /\ tail' = IF next[head] = Null THEN Null ELSE tail
    /\ contents' = IF contents = <<>> THEN <<>> ELSE Tail(contents)
    /\ UNCHANGED next

Insert == \E e \in Elems : e \notin Queued /\ (Push(e) \/ AppendTail(e))

Next == Insert \/ PopEmpty \/ PopHead

Spec == Init /\ [][Next]_vars
-----------------------------------------------------------------------------
TypeOK ==
    /\ head \in Pointers /\ tail \in Pointers /\ ret \in Pointers
    /\ next \in [Elems -> Pointers]
    /\ contents \in Seq(Elems)

\* No element is in the queue twice.
Distinct ==
    \A i, j \in 1..Len(contents) : contents[i] = contents[j] => i = j

\* The pointers spell out the contents: head and tail are its ends and the
\* next fields join neighbours, although pop leaves stale next fields behind
\* (queue-ext-T.h:36) and insertion touches at most two of them.  A null
\* head comes with a null tail, which empty() demands (queue-ext-T.h:24).
Linked ==
    /\ contents = <<>> => head = Null /\ tail = Null
    /\ contents # <<>> =>
         /\ head = contents[1]
         /\ tail = contents[Len(contents)]
         /\ next[tail] = Null
         /\ \A i \in 1..(Len(contents) - 1) : next[contents[i]] = contents[i + 1]

Shape == Distinct /\ Linked

\* The queue implements the abstract deque: in particular pop returns the
\* elements in the order that pushes and appends put them in.
D == INSTANCE Deque WITH q <- contents

ImplementsDeque == D!DSpec
=============================================================================
