-------------------------- MODULE LinkedQueueProofs --------------------------
(***************************************************************************)
(* The pointer queue is well formed in every reachable state and           *)
(* implements the abstract deque, for every set of elements.               *)
(***************************************************************************)
EXTENDS LinkedQueue, SequenceTheorems, TLAPS

Inv == TypeOK /\ Shape

\* Inserting an element that is not queued keeps the queue well formed.
LEMMA PushKeepsInv ==
  ASSUME Inv, NEW e \in Elems, e \notin Queued, Push(e)
  PROVE  Inv'
<1> USE NullAssumption DEF Inv, TypeOK, Shape, Pointers, Queued, Push
<1>1. /\ Len(contents') = Len(contents) + 1
      /\ contents' \in Seq(Elems)
      /\ contents'[1] = e
      /\ \A i \in 2..Len(contents') : contents'[i] = contents[i - 1]
  OBVIOUS
<1>2. TypeOK'
  BY <1>1
<1>3. Distinct'
  BY <1>1 DEF Distinct
<1>4. Linked'
  <2>1. CASE contents = <<>>
    BY <1>1, <2>1 DEF Linked
  <2>2. CASE contents # <<>>
    <3>1. tail' = contents'[Len(contents')] /\ head' = contents'[1]
      BY <1>1, <2>2 DEF Linked
    <3>2. next'[tail'] = Null
      BY <1>1, <2>2, <3>1 DEF Linked
    <3>3. \A i \in 1..(Len(contents') - 1) : next'[contents'[i]] = contents'[i + 1]
      <4> TAKE i \in 1..(Len(contents') - 1)
      <4>1. CASE i = 1
        BY <1>1, <2>2, <4>1 DEF Linked
      <4>2. CASE i # 1
        <5>1. i - 1 \in 1..(Len(contents) - 1) /\ contents'[i] = contents[i - 1]
              /\ contents'[i + 1] = contents[i]
          BY <1>1, <4>2
        <5>2. contents[i - 1] # e
          BY <5>1
        <5> QED BY <5>1, <5>2 DEF Linked
      <4> QED BY <4>1, <4>2
    <3> QED BY <1>1, <3>1, <3>2, <3>3 DEF Linked
  <2> QED BY <2>1, <2>2
<1> QED BY <1>2, <1>3, <1>4

LEMMA AppendKeepsInv ==
  ASSUME Inv, NEW e \in Elems, e \notin Queued, AppendTail(e)
  PROVE  Inv'
<1> USE NullAssumption DEF Inv, TypeOK, Shape, Pointers, Queued, AppendTail
<1>1. /\ Len(contents') = Len(contents) + 1
      /\ contents' \in Seq(Elems)
      /\ contents'[Len(contents')] = e
      /\ \A i \in 1..Len(contents) : contents'[i] = contents[i]
  OBVIOUS
<1>2. TypeOK'
  BY <1>1
<1>3. Distinct'
  BY <1>1 DEF Distinct
<1>4. Linked'
  <2>1. CASE contents = <<>>
    BY <1>1, <2>1 DEF Linked
  <2>2. CASE contents # <<>>
    <3>1. tail # Null /\ tail = contents[Len(contents)] /\ tail # e
      BY <2>2 DEF Linked
    <3>2. \A i \in 1..(Len(contents') - 1) : next'[contents'[i]] = contents'[i + 1]
      <4> TAKE i \in 1..(Len(contents') - 1)
      <4>1. CASE i = Len(contents)
        BY <1>1, <3>1, <4>1
      <4>2. CASE i # Len(contents)
        <5>1. i \in 1..(Len(contents) - 1) /\ contents[i] # e /\ contents[i] # tail
          BY <1>1, <3>1, <4>2 DEF Distinct
        <5> QED BY <1>1, <3>1, <5>1 DEF Linked
      <4> QED BY <4>1, <4>2
    <3> QED BY <1>1, <2>2, <3>1, <3>2 DEF Linked
  <2> QED BY <2>1, <2>2
<1> QED BY <1>2, <1>3, <1>4

LEMMA PopKeepsInv ==
  ASSUME Inv, PopHead
  PROVE  Inv' /\ contents # <<>> /\ ret' = Head(contents)
<1>1. contents # <<>> /\ head = contents[1] /\ contents \in Seq(Elems)
  BY DEF Inv, TypeOK, Shape, Linked, PopHead
<1>2. contents' = Tail(contents)
  BY <1>1 DEF PopHead
<1>3. Len(contents) \in Nat \ {0}
  BY <1>1, EmptySeq
<1>4. /\ Len(contents') = Len(contents) - 1
      /\ contents' \in Seq(Elems)
      /\ \A i \in 1..Len(contents') : contents'[i] = contents[i + 1]
  BY <1>1, <1>2, <1>3
<1>5. next[head] \in Pointers /\ head \in Elems
  BY <1>1, <1>3 DEF Inv, TypeOK, PopHead, Pointers
<1>6. TypeOK'
  BY <1>4, <1>5 DEF Inv, TypeOK, PopHead, Pointers
<1>7. Distinct'
  <2> SUFFICES ASSUME NEW i \in 1..Len(contents'), NEW j \in 1..Len(contents'),
                      contents'[i] = contents'[j]
               PROVE  i = j
    BY DEF Distinct
  <2>1. i + 1 \in 1..Len(contents) /\ j + 1 \in 1..Len(contents)
    BY <1>3, <1>4
  <2>2. contents[i + 1] = contents[j + 1]
    BY <1>4
  <2>3. i + 1 = j + 1
    BY <2>1, <2>2 DEF Inv, Shape, Distinct
  <2> QED BY <1>3, <1>4, <2>3
<1>8. Linked'
  <2>1. CASE Len(contents) = 1
    <3>1. contents' = <<>>
      BY <1>4, <2>1, EmptySeq
    <3>2. next[head] = Null
      BY <1>1, <2>1 DEF Inv, Shape, Linked
    <3> QED BY <3>1, <3>2 DEF PopHead, Linked
  <2>2. CASE Len(contents) # 1
    <3>1. Len(contents) \in Nat /\ Len(contents) - 1 \in Nat /\ 1 <= Len(contents) - 1
      BY <1>3, <2>2
    <3>2. contents[2] \in Elems /\ contents' # <<>>
      BY <1>1, <1>3, <1>4, <3>1, EmptySeq
    <3>3. \A i \in 1..(Len(contents) - 1) : next[contents[i]] = contents[i + 1]
      BY <1>1 DEF Inv, Shape, Linked
    <3>4. next[head] = contents[2]
      <4>1. 1 \in 1..(Len(contents) - 1) /\ 1 + 1 = 2
        BY <3>1
      <4>2. next[contents[1]] = contents[1 + 1]
        BY <3>3, <4>1
      <4> QED BY <1>1, <4>1, <4>2
    <3>5. tail' = tail /\ head' = contents'[1] /\ next' = next
      BY <1>4, <3>1, <3>2, <3>4, NullAssumption DEF PopHead
    <3>6. tail = contents'[Len(contents')] /\ next'[tail'] = Null
      BY <1>1, <1>4, <3>1, <3>5 DEF Inv, Shape, Linked
    <3>7. \A i \in 1..(Len(contents') - 1) : next'[contents'[i]] = contents'[i + 1]
      BY <1>3, <1>4, <3>3, <3>5
    <3> QED BY <3>2, <3>5, <3>6, <3>7 DEF Linked
  <2> QED BY <2>1, <2>2
<1> QED BY <1>1, <1>6, <1>7, <1>8 DEF Inv, Shape, PopHead

\* The queue is well formed: the pointers join exactly the elements inserted
\* and not yet popped, in order and each once (queue-ext-T.h:16-63).
THEOREM QueueWellFormed == Spec => [](TypeOK /\ Shape)
<1>1. Init => Inv
  BY NullAssumption DEF Init, Inv, TypeOK, Shape, Distinct, Linked, Pointers
<1>2. Inv /\ [Next]_vars => Inv'
  <2> SUFFICES ASSUME Inv, [Next]_vars PROVE Inv'
    OBVIOUS
  <2>1. CASE Insert
    BY <2>1, PushKeepsInv, AppendKeepsInv DEF Insert
  <2>2. CASE PopEmpty
    BY <2>2 DEF PopEmpty, Inv, TypeOK, Shape, Distinct, Linked, Pointers
  <2>3. CASE PopHead
    BY <2>3, PopKeepsInv
  <2>4. CASE UNCHANGED vars
    BY <2>4 DEF vars, Inv, TypeOK, Shape, Distinct, Linked, Pointers
  <2> QED BY <2>1, <2>2, <2>3, <2>4 DEF Next
<1> QED BY <1>1, <1>2, PTL DEF Spec, Inv

\* The pointer queue implements the abstract deque: every pop returns what the
\* deque's pop returns, whatever the order of pushes and appends before it.
THEOREM QueueIsDeque == Spec => ImplementsDeque
<1>1. Init => D!DInit
  BY DEF Init, D!DInit
<1>2. Inv /\ [Next]_vars => [D!DNext]_(D!dequeVars)
  <2> SUFFICES ASSUME Inv, [Next]_vars PROVE [D!DNext]_(D!dequeVars)
    OBVIOUS
  <2>1. CASE Insert
    BY <2>1 DEF Insert, Push, AppendTail, D!DNext, D!DPush, D!DAppend
  <2>2. CASE PopEmpty
    BY <2>2, NullAssumption
    DEF PopEmpty, Inv, TypeOK, Shape, Linked, D!DNext, D!DPop
  <2>3. CASE PopHead
    BY <2>3, PopKeepsInv DEF PopHead, D!DNext, D!DPop
  <2>4. CASE UNCHANGED vars
    BY <2>4 DEF vars, D!dequeVars
  <2> QED BY <2>1, <2>2, <2>3, <2>4 DEF Next
<1>3. Spec => []Inv
  BY QueueWellFormed DEF Inv
<1> QED BY <1>1, <1>2, <1>3, PTL DEF Spec, ImplementsDeque, D!DSpec
=============================================================================
