-------------------------- MODULE EqxThreadsProofs --------------------------
(***************************************************************************)
(* Theorems about EqxThreads for every machine, every set of routines and  *)
(* every number of threads: its types and its run queue, the refinement of *)
(* the abstract Batch, the instruction counts, the result of a run, and    *)
(* who has the CPU for how long.  The facts about data come first.         *)
(***************************************************************************)
EXTENDS EqxThreads, SequenceTheorems, FiniteSetTheorems, WellFoundedInduction, TLAPS

-----------------------------------------------------------------------------
(* Facts about data: what the three operations of the run queue do to a    *)
(* sequence without repetitions and to the set of its elements, what a sum *)
(* over a finite set is, and addition modulo a word.                       *)

LEMMA PushSeq ==
  ASSUME NEW S, NEW q \in Seq(S), NEW e \in S
  PROVE  /\ <<e>> \o q \in Seq(S)
         /\ Range(<<e>> \o q) = Range(q) \cup {e}
         /\ IsInjective(q) /\ e \notin Range(q) => IsInjective(<<e>> \o q)
<1> DEFINE r == <<e>> \o q
<1>1. /\ r \in Seq(S)
      /\ Len(r) = Len(q) + 1 /\ Len(q) \in Nat
      /\ r[1] = e
      /\ \A i \in 1..Len(q) : r[i + 1] = q[i]
      /\ \A i \in 2..Len(r) : r[i] = q[i - 1]
  OBVIOUS
<1>2. DOMAIN r = 1..Len(r) /\ DOMAIN q = 1..Len(q)
  BY <1>1
<1> HIDE DEF r
<1>3. ASSUME NEW x \in Range(r) PROVE x \in Range(q) \cup {e}
  <2>1. PICK i \in 1..Len(r) : x = r[i]
    BY <1>2 DEF Range
  <2>2. CASE i = 1
    BY <1>1, <2>1, <2>2
  <2>3. CASE i # 1
    <3>1. i \in 2..Len(r) /\ i - 1 \in 1..Len(q)
      BY <1>1, <2>3
    <3> QED BY <1>1, <1>2, <2>1, <3>1 DEF Range
  <2> QED BY <2>2, <2>3
<1>4. ASSUME NEW x \in Range(q) \cup {e} PROVE x \in Range(r)
  <2>1. CASE x = e
    <3>1. 1 \in 1..Len(r)
      BY <1>1
    <3> QED BY <1>1, <1>2, <2>1, <3>1 DEF Range
  <2>2. CASE x # e
    <3>1. PICK i \in 1..Len(q) : x = q[i]
      BY <1>2, <2>2 DEF Range
    <3>2. i + 1 \in 1..Len(r)
      BY <1>1
    <3> QED BY <1>1, <1>2, <3>1, <3>2 DEF Range
  <2> QED BY <2>1, <2>2
<1>5. ASSUME IsInjective(q), e \notin Range(q) PROVE IsInjective(r)
  <2> SUFFICES ASSUME NEW i \in 1..Len(r), NEW j \in 1..Len(r), r[i] = r[j]
               PROVE  i = j
    BY <1>2 DEF IsInjective
  <2>1. CASE i = 1 \/ j = 1
    <3>1. \A k \in 2..Len(r) : r[k] # e
      BY <1>1, <1>2, <1>5 DEF Range
    <3> QED BY <1>1, <2>1, <3>1
  <2>2. CASE i # 1 /\ j # 1
    <3>1. i - 1 \in 1..Len(q) /\ j - 1 \in 1..Len(q) /\ q[i - 1] = q[j - 1]
      BY <1>1, <2>2
    <3>2. i - 1 = j - 1
      BY <1>2, <1>5, <3>1 DEF IsInjective
    <3> QED BY <1>1, <3>2
  <2> QED BY <2>1, <2>2
<1> QED BY <1>1, <1>3, <1>4, <1>5 DEF r

LEMMA AppendSeq ==
  ASSUME NEW S, NEW q \in Seq(S), NEW e \in S
  PROVE  /\ Append(q, e) \in Seq(S)
         /\ Range(Append(q, e)) = Range(q) \cup {e}
         /\ IsInjective(q) /\ e \notin Range(q) => IsInjective(Append(q, e))
<1> DEFINE r == Append(q, e)
<1>1. /\ r \in Seq(S)
      /\ Len(r) = Len(q) + 1 /\ Len(q) \in Nat
      /\ r[Len(r)] = e
      /\ \A i \in 1..Len(q) : r[i] = q[i]
  OBVIOUS
<1>2. DOMAIN r = 1..Len(r) /\ DOMAIN q = 1..Len(q)
  BY <1>1
<1> HIDE DEF r
<1>3. 1..Len(r) = 1..Len(q) \cup {Len(r)} /\ Len(r) \notin 1..Len(q)
  BY <1>1
<1>4. Range(r) = Range(q) \cup {e}
  BY <1>1, <1>2, <1>3 DEF Range
<1>5. ASSUME IsInjective(q), e \notin Range(q) PROVE IsInjective(r)
  <2>1. \A i \in 1..Len(q) : r[i] # e
    BY <1>1, <1>2, <1>5 DEF Range
  <2> QED BY <1>1, <1>2, <1>3, <1>5, <2>1 DEF IsInjective
<1> QED BY <1>1, <1>4, <1>5 DEF r

LEMMA PopSeq ==
  ASSUME NEW S, NEW q \in Seq(S), q # <<>>, IsInjective(q)
  PROVE  /\ Head(q) \in S /\ Head(q) \in Range(q)
         /\ Tail(q) \in Seq(S)
         /\ Range(Tail(q)) = Range(q) \ {Head(q)}
         /\ IsInjective(Tail(q))
<1> DEFINE r == Tail(q)
<1>1. Len(q) \in Nat \ {0}
  BY EmptySeq
<1>2. /\ r \in Seq(S)
      /\ Len(r) = Len(q) - 1 /\ Len(r) \in Nat
      /\ Head(q) = q[1] /\ q[1] \in S
      /\ \A i \in 1..Len(r) : r[i] = q[i + 1]
  BY <1>1
<1>3. DOMAIN r = 1..Len(r) /\ DOMAIN q = 1..Len(q)
  BY <1>2
<1> HIDE DEF r
<1>4. Head(q) \in Range(q)
  <2>1. 1 \in 1..Len(q)
    BY <1>1
  <2> QED BY <1>2, <1>3, <2>1 DEF Range
<1>5. ASSUME NEW x \in Range(r) PROVE x \in Range(q) \ {Head(q)}
  <2>1. PICK i \in 1..Len(r) : x = r[i]
    BY <1>3 DEF Range
  <2>2. i + 1 \in 1..Len(q) /\ 1 \in 1..Len(q) /\ i + 1 # 1 /\ x = q[i + 1]
    BY <1>1, <1>2, <2>1
  <2>3. q[i + 1] # q[1]
    BY <1>3, <2>2 DEF IsInjective
  <2> QED BY <1>2, <1>3, <2>2, <2>3 DEF Range
<1>6. ASSUME NEW x \in Range(q) \ {Head(q)} PROVE x \in Range(r)
  <2>1. PICK i \in 1..Len(q) : x = q[i]
    BY <1>3 DEF Range
  <2>2. i # 1
    BY <1>2, <2>1
  <2>3. i - 1 \in 1..Len(r) /\ (i - 1) + 1 = i
    BY <1>1, <1>2, <2>2
  <2>4. r[i - 1] = x
    BY <1>2, <2>1, <2>3
  <2> QED BY <1>3, <2>3, <2>4 DEF Range
<1>7. IsInjective(r)
  <2> SUFFICES ASSUME NEW i \in 1..Len(r), NEW j \in 1..Len(r), r[i] = r[j]
               PROVE  i = j
    BY <1>3 DEF IsInjective
  <2>1. i + 1 \in 1..Len(q) /\ j + 1 \in 1..Len(q) /\ q[i + 1] = q[j + 1]
    BY <1>1, <1>2
  <2>2. i + 1 = j + 1
    BY <1>3, <2>1 DEF IsInjective
  <2> QED BY <1>2, <2>2
<1> QED BY <1>2, <1>4, <1>5, <1>6, <1>7 DEF r

-----------------------------------------------------------------------------
(* Sums.  The fold of the community modules is a recursive function on the *)
(* subsets of a set.  What it computes follows by induction, from the fact *)
(* that the subsets of a finite set are well founded.                      *)

\* A non-empty collection of subsets of a finite set has a minimal member.
LEMMA MinimalSubset ==
  ASSUME NEW S, IsFiniteSet(S), NEW G \in SUBSET (SUBSET S), G # {}
  PROVE  \E T \in G : \A x \in T : T \ {x} \notin G
<1>1. IsWellFoundedOn(StrictSubsetOrdering(S), SUBSET S)
  BY FS_StrictSubsetOrderingWellFounded, FS_FiniteSubsetsOfFinite
<1>2. \E T \in G : \A U \in G : ~(<<U, T>> \in StrictSubsetOrdering(S))
  BY <1>1, WFMin
<1>3. PICK T \in G : \A U \in G : ~(<<U, T>> \in StrictSubsetOrdering(S))
  BY <1>2
<1>4. ASSUME NEW x \in T PROVE <<T \ {x}, T>> \in StrictSubsetOrdering(S)
  BY <1>3, <1>4 DEF StrictSubsetOrdering
<1> QED BY <1>3, <1>4

\* h gives each subset of S the sum of f over it.
Sums(h, f, S) ==
    /\ h \in [SUBSET S -> Int]
    /\ h[{}] = 0
    /\ \A T \in SUBSET S : \A x \in S \ T : h[T \cup {x}] = f[x] + h[T]

LEMMA SumsExist ==
  ASSUME NEW S, IsFiniteSet(S), NEW f, \A x \in S : f[x] \in Int
  PROVE  \E h : Sums(h, f, S)
<1> DEFINE G == {T \in SUBSET S : ~\E h : Sums(h, f, T)}
<1>1. SUFFICES ASSUME G # {} PROVE FALSE
  OBVIOUS
<1>2. PICK T \in G : \A x \in T : T \ {x} \notin G
  <2>1. G \in SUBSET (SUBSET S)
    OBVIOUS
  <2> HIDE DEF G
  <2> QED BY <1>1, <2>1, MinimalSubset
<1>3. T # {}
  <2>1. Sums([s \in SUBSET {} |-> 0], f, {})
    BY DEF Sums
  <2> QED BY <2>1
<1>4. PICK x \in T : TRUE
  BY <1>3
<1>5. PICK h : Sums(h, f, T \ {x})
  BY <1>2
<1> DEFINE k == [s \in SUBSET T |-> IF x \in s THEN f[x] + h[s \ {x}] ELSE h[s]]
<1>6. k \in [SUBSET T -> Int] /\ k[{}] = 0
  <2>1. \A s \in SUBSET T : s \ {x} \in SUBSET (T \ {x}) /\ (x \notin s => s \in SUBSET (T \ {x}))
    OBVIOUS
  <2> QED BY <1>5, <2>1 DEF Sums
<1>7. ASSUME NEW s \in SUBSET T, NEW y \in T \ s PROVE k[s \cup {y}] = f[y] + k[s]
  <2>0. s \cup {y} \in SUBSET T /\ f[x] \in Int /\ f[y] \in Int
    OBVIOUS
  <2>1. CASE y = x
    <3>1. (s \cup {y}) \ {x} = s /\ x \in s \cup {y} /\ x \notin s
      BY <2>1
    <3> QED BY <2>0, <2>1, <3>1
  <2>2. CASE y # x /\ x \notin s
    <3>1. x \notin s \cup {y} /\ s \in SUBSET (T \ {x}) /\ y \in (T \ {x}) \ s
      BY <2>2
    <3> QED BY <1>5, <2>0, <3>1 DEF Sums
  <2>3. CASE y # x /\ x \in s
    <3>1. /\ x \in s \cup {y} /\ (s \cup {y}) \ {x} = (s \ {x}) \cup {y}
          /\ s \ {x} \in SUBSET (T \ {x}) /\ y \in (T \ {x}) \ (s \ {x})
      BY <2>3
    <3>2. h[(s \ {x}) \cup {y}] = f[y] + h[s \ {x}] /\ h[s \ {x}] \in Int
      BY <1>5, <3>1 DEF Sums
    <3>3. k[s \cup {y}] = f[x] + h[(s \ {x}) \cup {y}] /\ k[s] = f[x] + h[s \ {x}]
      BY <2>0, <2>3, <3>1
    <3> HIDE DEF k
    <3> QED BY <2>0, <3>2, <3>3
  <2> QED BY <2>1, <2>2, <2>3
<1>8. Sums(k, f, T)
  <2> HIDE DEF k
  <2> QED BY <1>6, <1>7 DEF Sums
<1> QED BY <1>8

\* The fold of the community modules computes it, in whatever order it goes.
LEMMA SumIsFold ==
  ASSUME NEW S, IsFiniteSet(S), NEW f, \A x \in S : f[x] \in Int, NEW h, Sums(h, f, S)
  PROVE  SumFunctionOnSet(f, S) = h[S]
<1> DEFINE Body(g) == [s \in SUBSET S |->
                         IF s = {} THEN 0
                         ELSE f[CHOOSE x \in s : TRUE] + g[s \ {CHOOSE x \in s : TRUE}]]
           iter == CHOOSE g : g = Body(g)
<1>1. SumFunctionOnSet(f, S) = iter[S]
  BY DEF SumFunctionOnSet, FoldFunctionOnSet, MapThenFoldSet
<1>2. ASSUME NEW s \in SUBSET S, s # {}
      PROVE  LET c == CHOOSE x \in s : TRUE
             IN  c \in s /\ s \ {c} \in SUBSET S /\ h[s] = f[c] + h[s \ {c}]
  <2> DEFINE c == CHOOSE x \in s : TRUE
  <2>1. c \in s
    BY <1>2
  <2> HIDE DEF c
  <2>2. s \ {c} \in SUBSET S /\ c \in S \ (s \ {c}) /\ (s \ {c}) \cup {c} = s
    BY <2>1
  <2>3. h[(s \ {c}) \cup {c}] = f[c] + h[s \ {c}]
    BY <2>2 DEF Sums
  <2> QED BY <2>1, <2>2, <2>3 DEF c
<1>3. h = Body(h)
  <2>1. ASSUME NEW s \in SUBSET S PROVE h[s] = Body(h)[s]
    BY <1>2 DEF Sums
  <2>2. h \in [SUBSET S -> Int] 
    BY DEF Sums
  <2> QED BY <2>1, <2>2
<1>4. iter = Body(iter)
  <2> HIDE DEF Body
  <2> QED BY <1>3
<1> HIDE DEF iter
<1> DEFINE G == {s \in SUBSET S : iter[s] # h[s]}
<1>5. SUFFICES ASSUME G # {} PROVE FALSE
  BY <1>1
<1>6. PICK T \in G : \A x \in T : T \ {x} \notin G
  <2>1. G \in SUBSET (SUBSET S)
    OBVIOUS
  <2> HIDE DEF G
  <2> QED BY <1>5, <2>1, MinimalSubset
<1>7. CASE T = {}
  <2>1. Body(iter)[{}] = 0
    OBVIOUS
  <2> QED BY <1>4, <1>6, <1>7, <2>1 DEF Sums
<1>8. CASE T # {}
  <2> DEFINE c == CHOOSE x \in T : TRUE
  <2>1. c \in T /\ T \ {c} \in SUBSET S /\ h[T] = f[c] + h[T \ {c}]
    BY <1>2, <1>8
  <2>2. iter[T] = f[c] + iter[T \ {c}]
    <3>1. Body(iter)[T] = f[c] + iter[T \ {c}]
      BY <1>8
    <3> HIDE DEF Body
    <3> QED BY <1>4, <3>1
  <2> HIDE DEF c, Body
  <2>3. iter[T \ {c}] = h[T \ {c}]
    BY <1>6, <2>1
  <2> QED BY <1>6, <2>1, <2>2, <2>3
<1> QED BY <1>7, <1>8

\* What the proofs about runs use: a sum depends on the terms only, is a number,
\* and grows by the term that is added.
LEMMA SumSame ==
  ASSUME NEW S, IsFiniteSet(S), NEW f, NEW g, \A x \in S : f[x] \in Int /\ g[x] = f[x]
  PROVE  SumFunctionOnSet(g, S) = SumFunctionOnSet(f, S)
<1>1. PICK h : Sums(h, f, S)
  BY SumsExist
<1>2. Sums(h, g, S)
  BY <1>1 DEF Sums
<1> QED BY <1>1, <1>2, SumIsFold

LEMMA SumAdd ==
  ASSUME NEW S, IsFiniteSet(S), NEW x, x \notin S, NEW f, \A y \in S \cup {x} : f[y] \in Int
  PROVE  /\ SumFunctionOnSet(f, {}) = 0
         /\ SumFunctionOnSet(f, S) \in Int
         /\ SumFunctionOnSet(f, S \cup {x}) = f[x] + SumFunctionOnSet(f, S)
<1>1. IsFiniteSet(S \cup {x}) /\ IsFiniteSet({})
  BY FS_AddElement, FS_EmptySet
<1>2. PICK h : Sums(h, f, S \cup {x})
  BY <1>1, SumsExist
<1>3. ASSUME NEW T \in SUBSET (S \cup {x}), IsFiniteSet(T)
      PROVE  SumFunctionOnSet(f, T) = h[T]
  <2> DEFINE k == [s \in SUBSET T |-> h[s]]
  <2>1. Sums(k, f, T)
    <3>1. k \in [SUBSET T -> Int] /\ k[{}] = 0
      BY <1>2 DEF Sums
    <3>2. ASSUME NEW s \in SUBSET T, NEW y \in T \ s PROVE k[s \cup {y}] = f[y] + k[s]
      <4>1. s \cup {y} \in SUBSET T /\ s \in SUBSET (S \cup {x}) /\ y \in (S \cup {x}) \ s
        OBVIOUS
      <4> QED BY <1>2, <4>1 DEF Sums
    <3> HIDE DEF k
    <3> QED BY <3>1, <3>2 DEF Sums
  <2>2. \A y \in T : f[y] \in Int
    OBVIOUS
  <2>3. SumFunctionOnSet(f, T) = k[T]
    <3> HIDE DEF k
    <3> QED BY <1>3, <2>1, <2>2, SumIsFold
  <2> QED BY <2>3
<1>4. /\ SumFunctionOnSet(f, {}) = h[{}] /\ SumFunctionOnSet(f, S) = h[S]
      /\ SumFunctionOnSet(f, S \cup {x}) = h[S \cup {x}]
  BY <1>1, <1>3
<1>5. h[{}] = 0 /\ h[S] \in Int /\ h[S \cup {x}] = f[x] + h[S]
  <2>1. S \in SUBSET (S \cup {x}) /\ x \in (S \cup {x}) \ S
    OBVIOUS
  <2> QED BY <1>2, <2>1 DEF Sums
<1> QED BY <1>4, <1>5

LEMMA SumEmpty ==
  ASSUME NEW f PROVE SumFunctionOnSet(f, {}) = 0
<1> DEFINE h == [s \in SUBSET {} |-> 0]
<1>1. Sums(h, f, {})
  BY DEF Sums
<1>2. h[{}] = 0 /\ \A x \in {} : f[x] \in Int
  OBVIOUS
<1> HIDE DEF h
<1> QED BY <1>1, <1>2, SumIsFold, FS_EmptySet

\* The sum over the whole domain, when the domain grows by one element.
LEMMA SumGrow ==
  ASSUME NEW S, IsFiniteSet(S), NEW x, x \notin S, NEW f, NEW g,
         DOMAIN f = S, DOMAIN g = S \cup {x}, \A y \in S : f[y] \in Int /\ g[y] = f[y],
         g[x] \in Int
  PROVE  SumFunction(f) \in Int /\ SumFunction(g) = g[x] + SumFunction(f)
<1>1. SumFunctionOnSet(g, S) = SumFunctionOnSet(f, S)
  BY SumSame
<1>2. /\ SumFunctionOnSet(g, S) \in Int
      /\ SumFunctionOnSet(g, S \cup {x}) = g[x] + SumFunctionOnSet(g, S)
  <2>1. \A y \in S \cup {x} : g[y] \in Int
    OBVIOUS
  <2> QED BY <2>1, SumAdd
<1> QED BY <1>1, <1>2 DEF SumFunction

LEMMA SumOne ==
  ASSUME NEW x, NEW g, DOMAIN g = {x}, g[x] \in Int
  PROVE  SumFunction(g) = g[x]
<1>1. PICK S : S = {}
  OBVIOUS
<1>2. IsFiniteSet(S) /\ x \notin S /\ S \cup {x} = {x}
  BY <1>1, FS_EmptySet
<1>3. \A y \in S \cup {x} : g[y] \in Int
  BY <1>2
<1>4. /\ SumFunctionOnSet(g, S \cup {x}) = g[x] + SumFunctionOnSet(g, S)
  BY <1>2, <1>3, SumAdd
<1>5. SumFunctionOnSet(g, S) = 0
  BY <1>1, SumEmpty
<1>6. SumFunction(g) = SumFunctionOnSet(g, S \cup {x})
  BY <1>2 DEF SumFunction
<1> QED BY <1>4, <1>5, <1>6

LEMMA SumTwo ==
  ASSUME NEW x, NEW y, x # y, NEW g, DOMAIN g = {x, y}, g[x] \in Int, g[y] \in Int
  PROVE  SumFunction(g) = g[x] + g[y]
<1> DEFINE S == {y}
           f == [s \in S |-> g[s]]
<1>1. IsFiniteSet(S) /\ x \notin S
  BY FS_Singleton
<1>2. /\ DOMAIN f = S /\ DOMAIN g = S \cup {x}
      /\ \A s \in S : f[s] \in Int /\ g[s] = f[s]
      /\ DOMAIN f = {y} /\ f[y] = g[y]
  OBVIOUS
<1> HIDE DEF f, S
<1>3. SumFunction(g) = g[x] + SumFunction(f)
  BY <1>1, <1>2, SumGrow
<1>4. SumFunction(f) = g[y]
  BY <1>2, SumOne
<1> QED BY <1>3, <1>4

-----------------------------------------------------------------------------
(* Addition modulo a word size.                                            *)

LEMMA DivUnique ==
  ASSUME NEW w \in Nat \ {0}, NEW p \in Int, NEW q \in Int,
         NEW r \in 0..(w - 1), NEW s \in 0..(w - 1), w * p + r = w * q + s
  PROVE  r = s
<1>1. ASSUME NEW x \in Int, NEW y \in Int, x >= y + 1 PROVE w * x >= w * y + w
  <2>1. w * (x - y) >= w
    <3>1. PICK k \in Nat : x - y = k + 1
      <4>1. x - y - 1 \in Nat /\ x - y = (x - y - 1) + 1
        BY <1>1
      <4> QED BY <4>1
    <3>2. w * (k + 1) = w * k + w /\ w * k \in Nat
      OBVIOUS
    <3> QED BY <3>1, <3>2
  <2>2. w * (x - y) = w * x - w * y
    OBVIOUS
  <2>3. w * x \in Int /\ w * y \in Int
    OBVIOUS
  <2> QED BY <2>1, <2>2, <2>3
<1>2. w * p \in Int /\ w * q \in Int
  OBVIOUS
<1>3. CASE p = q
  BY <1>2, <1>3
<1>4. CASE p >= q + 1
  <2>1. w * p >= w * q + w
    BY <1>1, <1>4
  <2> QED BY <1>2, <2>1
<1>5. CASE q >= p + 1
  <2>1. w * q >= w * p + w
    BY <1>1, <1>5
  <2> QED BY <1>2, <2>1
<1> QED BY <1>3, <1>4, <1>5

LEMMA ModAdd ==
  ASSUME NEW a \in Int, NEW b \in Int, NEW w \in Nat \ {0}
  PROVE  ((a % w) + b) % w = (a + b) % w
<1>1. \A n \in Int : \E k \in Int : n = w * k + (n % w) /\ n % w \in 0..(w - 1)
  <2> TAKE n \in Int
  <2>1. n = w * (n \div w) + (n % w) /\ n \div w \in Int /\ n % w \in 0..(w - 1)
    OBVIOUS
  <2> QED BY <2>1
<1> DEFINE r == a % w
           s == (r + b) % w
           v == (a + b) % w
<1>2. PICK p \in Int : a = w * p + r /\ r \in 0..(w - 1)
  BY <1>1
<1>3. PICK q \in Int : r + b = w * q + s /\ s \in 0..(w - 1)
  <2>1. r + b \in Int
    <3> HIDE DEF r
    <3> QED BY <1>2
  <2> HIDE DEF r
  <2> QED BY <1>1, <2>1
<1>4. PICK u \in Int : a + b = w * u + v /\ v \in 0..(w - 1)
  <2>1. a + b \in Int
    OBVIOUS
  <2> QED BY <1>1, <2>1
<1> HIDE DEF r, s, v
<1>5. p + q \in Int /\ w * (p + q) = w * p + w * q /\ w * p \in Int /\ w * q \in Int /\ w * u \in Int
  OBVIOUS
<1>6. w * (p + q) + s = w * u + v
  BY <1>2, <1>3, <1>4, <1>5
<1>7. s = v
  BY <1>2, <1>3, <1>4, <1>5, <1>6, DivUnique
<1> QED BY <1>7 DEF r, s, v
-----------------------------------------------------------------------------
(* Types and the run queue.                                                *)

Inv == TypeOK /\ RunqSound

LEMMA RegsType == NoUserRegs \in Regs
BY BoundsAssumption DEF NoUserRegs

LEMMA TidsType ==
  ASSUME TypeOK PROVE Tids \subseteq 1..MaxThreads /\ Tids \subseteq Nat \ {0}
BY BoundsAssumption DEF TypeOK, Tids

LEMMA InitInv == Init => Inv
<1> SUFFICES ASSUME Init PROVE Inv
  OBVIOUS
<1>0. ntids = 1 /\ exit_hash = 0
  BY DEF Init
<1>1. Tids = {} /\ ntids \in 1..(MaxThreads + 1)
  BY <1>0, BoundsAssumption DEF Tids
<1>2. th \in [Tids -> Thread]
  <2>1. <<>> \in Seq(Thread) /\ Len(<<>>) = 0
    BY EmptySeq
  <2>2. <<>> \in [1..0 -> Thread]
    BY <2>1, LenProperties
  <2>3. 1..0 = {}
    OBVIOUS
  <2> QED BY <1>1, <2>2, <2>3 DEF Init
<1>3. config \in SchedulerConfig
  <2>1. "ROUND_ROBIN" \in SchedulerTypes /\ 10 \in Nat /\ 0 \in Nat
    BY DEF SchedulerTypes
  <2> QED BY <2>1 DEF Init, SchedulerConfig
<1>4. executed \in [1..MaxThreads -> Nat] /\ calls \in [1..MaxThreads -> Nat]
  BY DEF Init
<1>5. exit_hash \in Hashes
  BY <1>0, BoundsAssumption DEF Hashes
<1>6. runq \in Seq(Tids) /\ DOMAIN runq = {}
  <2>1. runq \in Seq(Tids) /\ Len(runq) = 0
    BY EmptySeq DEF Init
  <2> QED BY <2>1
<1>7. TypeOK
  <2>1. mem \in Mem /\ ureg \in Regs /\ cur \in Tids \cup {0} /\ finished \subseteq Tids
    BY BoundsAssumption, RegsType DEF Init
  <2>2. /\ complete_x_before_switch \in BOOLEAN /\ thread_x_has_yielded \in BOOLEAN
        /\ init_p \in BOOLEAN /\ mismatch \in Addrs \cup {Off}
        /\ mode \in Modes
    BY DEF Init, Modes
  <2>3. why \in Reasons
    BY DEF Init, Reasons
  <2> QED BY <1>1, <1>2, <1>3, <1>4, <1>5, <1>6, <2>1, <2>2, <2>3 DEF TypeOK
<1>8. RunqSound
  <2>1. IsInjective(runq) /\ Queued = {}
    BY <1>6 DEF IsInjective, Queued, Range
  <2> QED BY <2>1 DEF Init, RunqSound
<1> QED BY <1>7, <1>8 DEF Inv

LEMMA PanicInv ==
  ASSUME Inv, NEW r \in Reasons, Panic(r)
  PROVE  Inv'
BY DEF Inv, Panic, TypeOK, RunqSound, Modes, Tids, Queued,
       threadVars, runVars, flagVars, cpuVars

LEMMA ForkInv ==
  ASSUME Inv, NEW f \in Routines, NEW h \in Hashes, NEW base \in Nat, NEW nbytes,
         base + nbytes \in StackEnds, ForkStack(f, h, base, nbytes)
  PROVE  Inv'
<1>1. ntids \in Nat \ {0} /\ ntids \in 1..MaxThreads /\ ntids' = ntids + 1
  BY BoundsAssumption DEF Inv, TypeOK, ForkStack
<1>2. Tids' = Tids \cup {ntids} /\ Tids' = 1..ntids /\ ntids \notin Tids
  BY <1>1 DEF Tids
<1>3. NewThread(f, h, base, nbytes) \in Thread
  BY BoundsAssumption, MachineAssumption DEF NewThread, Thread, Hashes
<1>4. th' \in [Tids' -> Thread]
  BY <1>1, <1>2, <1>3 DEF Inv, TypeOK, ForkStack
<1>5. runq \in Seq(Tids')
  BY <1>2 DEF Inv, TypeOK
<1>6. /\ runq' \in Seq(Tids')
      /\ Queued' = Queued \cup {ntids}
      /\ ntids \notin Queued => IsInjective(runq')
  BY <1>2, <1>5, PushSeq DEF Inv, RunqSound, ForkStack, Queued
<1>7. ntids \notin Queued
  BY <1>2 DEF Inv, TypeOK, Queued, Range
<1>8. TypeOK'
  <2>1. executed' \in [1..MaxThreads -> Nat]
    BY <1>1 DEF Inv, TypeOK, ForkStack
  <2>2. ntids' \in 1..(MaxThreads + 1)
    BY <1>1, BoundsAssumption
  <2> QED BY <1>2, <1>4, <1>6, <2>1, <2>2
      DEF Inv, TypeOK, ForkStack, runVars, flagVars, cpuVars
<1>9. RunqSound'
  BY <1>1, <1>6, <1>7 DEF Inv, RunqSound, ForkStack, runVars
<1> QED BY <1>8, <1>9 DEF Inv

LEMMA ReforkInv ==
  ASSUME Inv, NEW t \in Tids, t \notin Queued, Refork(t)
  PROVE  Inv'
<1>1. /\ Tids' = Tids
      /\ runq' \in Seq(Tids) /\ Queued' = Queued \cup {t} /\ IsInjective(runq')
  BY PushSeq DEF Inv, TypeOK, RunqSound, Refork, Restarted, Queued, Tids
<1>2. th' \in [Tids -> Thread]
  <2>1. th[t] \in Thread
    BY DEF Inv, TypeOK
  <2>2. EntryRegs(th[t].fn, th[t].stack_end) \in Regs
    BY <2>1, MachineAssumption DEF Thread
  <2>3. 0 \in Hashes
    BY BoundsAssumption DEF Hashes
  <2> QED BY <2>1, <2>2, <2>3 DEF Inv, TypeOK, Refork, Restarted, Thread
<1>3. executed' \in [1..MaxThreads -> Nat]
  BY DEF Inv, TypeOK, Refork, Restarted
<1>4. TypeOK'
  BY <1>1, <1>2, <1>3 DEF Inv, TypeOK, Refork, Restarted, runVars, cpuVars
<1>5. RunqSound'
  BY <1>1, TidsType DEF Inv, RunqSound, Refork, Restarted, runVars
<1> QED BY <1>4, <1>5 DEF Inv

LEMMA RunThreadsInv ==
  ASSUME Inv, RunThreads
  PROVE  Inv'
<1>1. /\ runq \in Seq(Tids) /\ runq # <<>> /\ IsInjective(runq)
      /\ runq' = Tail(runq) /\ cur' = Head(runq) /\ Tids' = Tids
  BY DEF Inv, TypeOK, RunqSound, RunThreads, threadVars, Tids
<1>2. /\ cur' \in Tids /\ runq' \in Seq(Tids)
      /\ Queued' = Queued \ {cur'} /\ IsInjective(runq')
  BY <1>1, PopSeq DEF Queued
<1>3. th[cur'].regs \in Regs /\ Pc(th[cur'].regs) \in Addrs
  BY <1>2, MachineAssumption DEF Inv, TypeOK, Thread
<1>4. TypeOK'
  <2>1. 0 \in Hashes
    BY BoundsAssumption DEF Hashes
  <2>2. /\ mode' \in Modes /\ mismatch' \in Addrs \cup {Off} /\ ureg' \in Regs
        /\ exit_hash' \in Hashes /\ finished' \subseteq Tids
    BY <1>1, <1>3, <2>1 DEF RunThreads, RunOneInst, Modes
  <2>3. UNCHANGED <<th, ntids, executed, calls, config, complete_x_before_switch,
                    thread_x_has_yielded, init_p, mem, why>>
    BY DEF RunThreads, threadVars, flagVars
  <2> QED BY <1>1, <1>2, <2>2, <2>3 DEF Inv, TypeOK
<1>5. RunqSound'
  BY <1>1, <1>2, TidsType DEF Inv, RunqSound, RunThreads, RunOneInst
<1> QED BY <1>4, <1>5 DEF Inv

\* The scheduler keeps the invariant, whatever the handler wrote into T.
LEMMA ScheduleInv ==
  ASSUME Inv, mode = "user", NEW T \in [Tids -> Thread], Schedule(T),
         UNCHANGED <<mem, executed>>, calls' \in [1..MaxThreads -> Nat]
  PROVE  Inv'
<1>1. /\ cur \in Tids /\ cur \notin Queued /\ runq \in Seq(Tids) /\ IsInjective(runq)
      /\ Tids' = Tids
  BY DEF Inv, TypeOK, RunqSound, Schedule, Rotated, Tids
<1>2. /\ cur' \in Tids /\ runq' \in Seq(Tids) /\ cur' \notin Queued' /\ IsInjective(runq')
  <2>1. CASE runq # <<>> /\ cur' = Head(runq) /\ runq' = Append(Tail(runq), cur)
    <3> DEFINE rest == Tail(runq)
    <3>1. /\ Head(runq) \in Tids /\ Head(runq) \in Queued
          /\ rest \in Seq(Tids) /\ Range(rest) = Queued \ {Head(runq)}
          /\ IsInjective(rest)
      BY <1>1, <2>1, PopSeq DEF Queued
    <3>2. runq' = Append(rest, cur) /\ cur \notin Range(rest) /\ cur \in Tids
      BY <1>1, <2>1, <3>1
    <3> HIDE DEF rest
    <3>4. /\ runq' \in Seq(Tids) /\ Range(runq') = Range(rest) \cup {cur}
          /\ IsInjective(runq')
      BY <3>1, <3>2, AppendSeq
    <3>3. Queued' = (Queued \ {Head(runq)}) \cup {cur}
      BY <3>1, <3>4 DEF Queued
    <3> QED BY <1>1, <2>1, <3>1, <3>3, <3>4
  <2>2. CASE UNCHANGED <<cur, runq>>
    BY <1>1, <2>2 DEF Queued
  <2> QED BY <2>1, <2>2 DEF Schedule, Rotated
<1>3. th' \in [Tids -> Thread]
  <2>1. [T EXCEPT ![cur].inst_cnt = 0] \in [Tids -> Thread]
    BY <1>1 DEF Thread
  <2> QED BY <2>1 DEF Schedule, Rotated
<1>4. T[cur'].regs \in Regs /\ Pc(T[cur'].regs) \in Addrs
  BY <1>2, MachineAssumption DEF Thread
<1>5. thread_x_has_yielded' \in BOOLEAN
  BY DEF Schedule, Rotated
<1>6. TypeOK'
  BY <1>1, <1>2, <1>3, <1>4, <1>5 DEF Inv, TypeOK, Schedule, Rotated, RunOneInst, Modes
<1>7. RunqSound'
  BY <1>1, <1>2, TidsType DEF Inv, RunqSound, Schedule, Rotated, RunOneInst
<1> QED BY <1>6, <1>7 DEF Inv

LEMMA UserInstInv ==
  ASSUME Inv, UserInst
  PROVE  Inv'
<1>1. /\ ExecRegs(ureg, mem) \in Regs /\ ExecMem(ureg, mem) \in Mem
  BY MachineAssumption DEF Inv, TypeOK
<1>2. executed' \in [1..MaxThreads -> Nat]
  <2>1. cur \in 1..MaxThreads
    BY TidsType DEF Inv, TypeOK, RunqSound, UserInst
  <2> QED BY <2>1 DEF Inv, TypeOK, UserInst
<1>3. TypeOK'
  BY <1>1, <1>2 DEF Inv, TypeOK, UserInst, runVars, flagVars, Tids
<1>4. RunqSound'
  BY DEF Inv, RunqSound, UserInst, runVars, Queued
<1> QED BY <1>3, <1>4 DEF Inv

LEMMA SingleStepInv ==
  ASSUME Inv, SingleStep
  PROVE  Inv'
<1> DEFINE T == [th EXCEPT ![cur].regs = ureg,
                           ![cur].inst_cnt = @ + 1,
                           ![cur].cumulative_inst_cnt = @ + 1,
                           ![cur].reg_hash = HashInc(ureg, @)]
<1>1. cur \in Tids /\ th[cur] \in Thread /\ ureg \in Regs /\ mode = "user"
  BY DEF Inv, TypeOK, RunqSound, SingleStep, AfterStep
<1>2. HashInc(ureg, th[cur].reg_hash) \in Hashes
  BY <1>1, MachineAssumption DEF Thread
<1>3. T \in [Tids -> Thread]
  <2> DEFINE rec == [th[cur] EXCEPT !.regs = ureg, !.inst_cnt = @ + 1,
                       !.cumulative_inst_cnt = @ + 1, !.reg_hash = HashInc(ureg, @)]
  <2>1. rec \in Thread
    <3>1. th[cur].inst_cnt + 1 \in Nat /\ th[cur].cumulative_inst_cnt + 1 \in Nat
      BY <1>1 DEF Thread
    <3>2. rec = [th[cur] EXCEPT !.regs = ureg, !.inst_cnt = th[cur].inst_cnt + 1,
                   !.cumulative_inst_cnt = th[cur].cumulative_inst_cnt + 1,
                   !.reg_hash = HashInc(ureg, th[cur].reg_hash)]
      BY <1>1 DEF Thread
    <3> HIDE DEF rec
    <3> QED BY <1>1, <1>2, <3>1, <3>2 DEF Thread
  <2>2. T = [th EXCEPT ![cur] = rec]
    BY <1>1 DEF Inv, TypeOK
  <2> HIDE DEF rec
  <2> QED BY <2>1, <2>2 DEF Inv, TypeOK
<1>4. calls' \in [1..MaxThreads -> Nat]
  BY DEF Inv, TypeOK, SingleStep
<1> QED BY <1>1, <1>3, <1>4, ScheduleInv DEF SingleStep, AfterStep

LEMMA SysPutcInv ==
  ASSUME Inv, SysPutc
  PROVE  Inv'
<1> DEFINE T == [th EXCEPT ![cur].regs = trapped]
<1>1. cur \in Tids /\ th[cur] \in Thread /\ mode = "user"
  BY DEF Inv, TypeOK, RunqSound, SysPutc, AtSwi
<1>2. trapped \in Regs
  BY MachineAssumption DEF trapped, Inv, TypeOK
<1>3. T \in [Tids -> Thread]
  BY <1>1, <1>2 DEF Inv, TypeOK, Thread
<1>4. calls' \in [1..MaxThreads -> Nat]
  BY <1>1, TidsType DEF Inv, TypeOK, SysPutc
<1> QED BY <1>1, <1>3, <1>4, ScheduleInv DEF SysPutc

LEMMA SysExitInv ==
  ASSUME Inv, SysExit
  PROVE  Inv'
<1>1. /\ cur \in Tids /\ th[cur] \in Thread /\ mode = "user" /\ trapped \in Regs
      /\ runq \in Seq(Tids) /\ IsInjective(runq) /\ Tids' = Tids
  BY MachineAssumption DEF trapped, Inv, TypeOK, RunqSound, SysExit, AddHash, ExpectsNext, AtSwi, Tids
<1>2. th' \in [Tids -> Thread]
  BY <1>1 DEF Inv, TypeOK, SysExit, AddHash, ExpectsNext, Thread
<1>3. exit_hash' \in Hashes
  <2>1. exit_hash \in Nat /\ th[cur].reg_hash \in Nat /\ Word \in Nat \ {0}
    BY <1>1, BoundsAssumption DEF Inv, TypeOK, Hashes, Thread
  <2>2. exit_hash' = (exit_hash + th[cur].reg_hash) % Word
    BY DEF SysExit, AddHash, ExpectsNext
  <2> QED BY <2>1, <2>2 DEF Hashes
<1>4. finished' \subseteq Tids
  BY <1>1 DEF Inv, TypeOK, SysExit, AddHash, ExpectsNext
<1>5. flagVars' \in BOOLEAN \X BOOLEAN
  BY DEF SysExit, AddHash, ExpectsNext, flagVars
<1>6. CASE runq = <<>>
  <2>1. /\ cur' = 0 /\ mode' = "return" /\ ureg' = NoUserRegs
        /\ runq' = runq /\ mismatch' = mismatch
    BY <1>6 DEF SysExit, AddHash, ExpectsNext
  <2>2. TypeOK'
    BY <1>1, <1>2, <1>3, <1>4, <1>5, <2>1, RegsType
    DEF Inv, TypeOK, SysExit, AddHash, ExpectsNext, flagVars, Modes
  <2>3. RunqSound'
    BY <1>1, <1>6, <2>1, TidsType DEF Inv, RunqSound, Queued, Range
  <2> QED BY <2>2, <2>3 DEF Inv
<1>7. CASE runq # <<>>
  <2>1. /\ cur' = Head(runq) /\ runq' = Tail(runq) /\ mode' = "user"
        /\ ureg' = th[cur'].regs /\ mismatch' = Pc(th[cur'].regs)
    BY <1>7 DEF SysExit, AddHash, ExpectsNext, RunOneInst
  <2>2. /\ cur' \in Tids /\ runq' \in Seq(Tids)
        /\ Queued' = Queued \ {cur'} /\ IsInjective(runq')
    BY <1>1, <1>7, <2>1, PopSeq DEF Queued
  <2>3. th[cur'].regs \in Regs /\ Pc(th[cur'].regs) \in Addrs
    BY <2>2, MachineAssumption DEF Inv, TypeOK, Thread
  <2>4. TypeOK'
    BY <1>1, <1>2, <1>3, <1>4, <1>5, <2>1, <2>2, <2>3
    DEF Inv, TypeOK, SysExit, AddHash, ExpectsNext, flagVars, Modes
  <2>5. RunqSound'
    BY <1>1, <2>1, <2>2, TidsType DEF RunqSound, Inv
  <2> QED BY <2>4, <2>5 DEF Inv
<1> QED BY <1>6, <1>7

LEMMA ReturnInv ==
  ASSUME Inv, RunThreadsReturn
  PROVE  Inv'
<1>1. mode' \in {"client", "panic"} /\ why' \in Reasons
  BY DEF RunThreadsReturn, Inv, TypeOK, Reasons
<1>2. UNCHANGED <<th, ntids, executed, calls, runq, exit_hash, finished, config,
                  complete_x_before_switch, thread_x_has_yielded, init_p, ureg, mem>>
      /\ mismatch' = Off /\ cur' = 0
  BY DEF RunThreadsReturn, threadVars, flagVars
<1>3. TypeOK'
  BY <1>1, <1>2 DEF Inv, TypeOK, Modes, Tids
<1>4. RunqSound'
  BY <1>1, <1>2, TidsType DEF Inv, RunqSound, TypeOK, Queued, Range
<1> QED BY <1>3, <1>4 DEF Inv

\* Each call keeps the invariant, made by any client: one that may ask for every
\* configuration and fork with every hash.
AnyClient ==
    \/ EqxInit \/ RunThreads \/ RunThreadsPanics
    \/ \E c \in SchedulerConfig : SetSchedulerConfig(c)
    \/ \E f \in Routines, h \in Hashes : Fork(f, h) \/ ForkNostack(f, h)
    \/ \E t \in Tids : t \notin Queued /\ (Refork(t) \/ ReforkAsserts(t))

AnyNext == AnyClient \/ Machine

LEMMA AnyClientInv ==
  ASSUME Inv, AnyClient
  PROVE  Inv'
<1>1. CASE EqxInit
  <2>1. CASE init_p /\ Panic("called init twice")
    BY <2>1, PanicInv DEF Reasons
  <2>2. CASE ~init_p
    BY <1>1, <2>2 DEF EqxInit, Inv, TypeOK, RunqSound, Tids, Queued,
       threadVars, runVars, flagVars, cpuVars
  <2> QED BY <1>1, <2>1, <2>2 DEF EqxInit
<1>2. CASE RunThreads
  BY <1>2, RunThreadsInv
<1>3. CASE RunThreadsPanics
  BY <1>3, PanicInv DEF RunThreadsPanics, Reasons
<1>4. ASSUME NEW c \in SchedulerConfig, SetSchedulerConfig(c) PROVE Inv'
  <2>1. CASE Panic("random seed is zero")
    BY <2>1, PanicInv DEF Reasons
  <2>2. CASE config' = c /\ UNCHANGED <<threadVars, runq, runVars, flagVars, init_p,
                                        cpuVars, mode, why>>
    BY <2>2 DEF Inv, TypeOK, RunqSound, Tids, Queued,
       threadVars, runVars, flagVars, cpuVars
  <2> QED BY <1>4, <2>1, <2>2 DEF SetSchedulerConfig
<1>5. ASSUME NEW f \in Routines, NEW h \in Hashes, Fork(f, h) PROVE Inv'
  <2>1. ntids \in 1..MaxThreads
    BY <1>5, BoundsAssumption DEF Fork, ForkStack, Inv, TypeOK
  <2>2. ntids * StackSize + StackSize \in StackEnds
    BY <2>1 DEF StackEnds
  <2>3. ntids * StackSize \in Nat
    BY <2>1, BoundsAssumption
  <2> QED BY <1>5, <2>2, <2>3, ForkInv DEF Fork
<1>6. ASSUME NEW f \in Routines, NEW h \in Hashes, ForkNostack(f, h) PROVE Inv'
  <2>1. 0 + 0 \in StackEnds
    BY DEF StackEnds
  <2> QED BY <1>6, <2>1, ForkInv DEF ForkNostack
<1>7. ASSUME NEW t \in Tids, t \notin Queued, Refork(t) \/ ReforkAsserts(t) PROVE Inv'
  BY <1>7, ReforkInv, PanicInv DEF ReforkAsserts, Reasons
<1> QED BY <1>1, <1>2, <1>3, <1>4, <1>5, <1>6, <1>7 DEF AnyClient

LEMMA ClientInv ==
  ASSUME Inv, Client
  PROVE  AnyClient /\ Inv'
<1>1. Configs \subseteq SchedulerConfig /\ ExpectHashes \subseteq Hashes
  BY BoundsAssumption
<1>2. AnyClient
  BY <1>1 DEF Client, AnyClient
<1> QED BY <1>2, AnyClientInv

LEMMA MachineInv ==
  ASSUME Inv, Machine
  PROVE  Inv'
BY UserInstInv, SingleStepInv, SysPutcInv, SysExitInv, ReturnInv, PanicInv
DEF Machine, SyscallPanics, Reasons

LEMMA AnyStepInv == Inv /\ [AnyNext]_vars => Inv'
<1> SUFFICES ASSUME Inv, [AnyNext]_vars PROVE Inv'
  OBVIOUS
<1>1. CASE UNCHANGED vars
  BY <1>1 DEF vars, Inv, TypeOK, RunqSound, Tids, Queued,
     threadVars, runVars, flagVars, cpuVars
<1> QED BY <1>1, AnyClientInv, MachineInv DEF AnyNext

LEMMA NextIsAny == Inv /\ [Next]_vars => [AnyNext]_vars
BY ClientInv DEF Next, AnyNext

LEMMA StepInv == Inv /\ [Next]_vars => Inv'
BY AnyStepInv, NextIsAny

\* Every reachable state is well typed.
THEOREM TypeCorrect == Spec => []TypeOK
BY InitInv, StepInv, PTL DEF Spec, Inv

\* No thread is ever queued twice or queued while it runs, and the queue is
\* empty when eqx_run_threads returns, so that its panic never happens
\* (eqx-threads.c:302-314, 509-517, 655-658).
THEOREM RunQueueSound == Spec => []RunqSound
BY InitInv, StepInv, PTL DEF Spec, Inv

-----------------------------------------------------------------------------
(* The refinement of Batch.  A fork or refork submits, eqx_run_threads     *)
(* starts and returns, sys_exit finishes; everything else stutters.        *)

LEMMA InitRefines == Init => B!BInit
<1> SUFFICES ASSUME Init PROVE B!BInit
  OBVIOUS
<1>1. Queued = {}
  <2>1. DOMAIN runq = {}
    BY EmptySeq DEF Init
  <2> QED BY <2>1 DEF Queued, Range
<1> QED BY <1>1 DEF Init, B!BInit, Active, Phase

LEMMA PanicRefines ==
  ASSUME NEW r, Panic(r)
  PROVE  B!BNext
BY DEF Panic, runVars, B!BNext, B!BStop, Active, Queued, Phase

LEMMA ForkActive ==
  ASSUME Inv, NEW f, NEW h, NEW base, NEW nbytes, ForkStack(f, h, base, nbytes)
  PROVE  /\ ntids \in 1..MaxThreads /\ ntids \notin Tids /\ ntids \notin Active
         /\ Tids' = Tids \cup {ntids}
         /\ Active' = Active \cup {ntids}
<1>1. /\ ntids \in 1..MaxThreads /\ ntids \in Nat \ {0} /\ ntids \notin Tids /\ cur = 0
      /\ Tids' = Tids \cup {ntids}
  BY BoundsAssumption DEF Inv, TypeOK, RunqSound, ForkStack, Tids
<1>2. runq \in Seq(Tids \cup {ntids}) /\ Queued \subseteq Tids
  BY DEF Inv, TypeOK, Queued, Range
<1>3. Queued' = Queued \cup {ntids}
  BY <1>2, PushSeq DEF ForkStack, Queued
<1> QED BY <1>1, <1>2, <1>3 DEF ForkStack, runVars, Active

LEMMA ForkRefines ==
  ASSUME Inv, NEW f, NEW h, NEW base, NEW nbytes, ForkStack(f, h, base, nbytes)
  PROVE  B!BNext
<1>1. B!BSubmit(ntids)
  <2>1. mode = "client" /\ mode' = "client" /\ UNCHANGED <<exit_hash, finished>>
    BY DEF ForkStack, runVars
  <2>2. Phase = "idle" /\ Phase' = "idle"
    BY <2>1 DEF Phase
  <2>3. ntids \notin Active /\ Active' = Active \cup {ntids}
    BY ForkActive
  <2> QED BY <2>1, <2>2, <2>3 DEF B!BSubmit
<1> QED BY <1>1, ForkActive DEF B!BNext

LEMMA ReforkActive ==
  ASSUME Inv, NEW t \in Tids, t \notin Queued, Refork(t)
  PROVE  t \notin Active /\ Active' = Active \cup {t}
<1>1. t # 0 /\ cur = 0
  BY TidsType DEF Inv, RunqSound, Refork, Restarted
<1>2. Queued' = Queued \cup {t}
  BY PushSeq DEF Inv, TypeOK, Refork, Restarted, Queued
<1> QED BY <1>1, <1>2 DEF Refork, Restarted, runVars, Active

LEMMA ReforkRefines ==
  ASSUME Inv, NEW t \in Tids, t \notin Queued, Refork(t)
  PROVE  B!BNext
<1>1. B!BSubmit(t)
  BY ReforkActive DEF Refork, Restarted, runVars, B!BSubmit, Phase
<1> QED BY <1>1, TidsType DEF B!BNext, Inv

LEMMA RunThreadsActive ==
  ASSUME Inv, RunThreads
  PROVE  Active' = Active /\ Active # {}
<1>1. /\ cur = 0 /\ Head(runq) \in Queued /\ Head(runq) # 0
      /\ Queued' = Queued \ {Head(runq)}
  BY PopSeq, TidsType DEF Inv, TypeOK, RunqSound, RunThreads, Queued
<1> QED BY <1>1 DEF RunThreads, Active

LEMMA RunThreadsRefines ==
  ASSUME Inv, RunThreads
  PROVE  B!BNext
<1>1. B!BStart
  BY RunThreadsActive DEF RunThreads, RunOneInst, B!BStart, Phase
<1> QED BY <1>1 DEF B!BNext

\* Preemption moves a thread from the CPU to the queue and another one back.
LEMMA ScheduleStutters ==
  ASSUME Inv, mode = "user", NEW T, Schedule(T)
  PROVE  UNCHANGED B!batchVars
<1>1. /\ cur \in Tids /\ cur \notin Queued /\ runq \in Seq(Tids) /\ IsInjective(runq)
  BY DEF Inv, TypeOK, RunqSound
<1>2. Queued' \cup {cur'} = Queued \cup {cur}
  <2>1. CASE runq # <<>> /\ cur' = Head(runq) /\ runq' = Append(Tail(runq), cur)
    <3> DEFINE rest == Tail(runq)
    <3>1. /\ Head(runq) \in Queued /\ rest \in Seq(Tids)
          /\ Range(rest) = Queued \ {Head(runq)}
      BY <1>1, <2>1, PopSeq DEF Queued
    <3>2. runq' = Append(rest, cur) /\ cur \in Tids
      BY <1>1, <2>1
    <3> HIDE DEF rest
    <3>4. Range(runq') = Range(rest) \cup {cur}
      BY <3>1, <3>2, AppendSeq
    <3>3. Queued' = (Queued \ {Head(runq)}) \cup {cur}
      BY <3>1, <3>4 DEF Queued
    <3> QED BY <2>1, <3>1, <3>3
  <2>2. CASE UNCHANGED <<cur, runq>>
    BY <2>2 DEF Queued
  <2> QED BY <2>1, <2>2 DEF Schedule, Rotated
<1>3. UNCHANGED <<exit_hash, finished, mode>>
  BY DEF Schedule, Rotated, RunOneInst
<1> QED BY <1>2, <1>3 DEF B!batchVars, Active, Phase

\* An exit takes the thread that has the CPU, and no other, out of the run.
LEMMA ExitActive ==
  ASSUME Inv, SysExit
  PROVE  Active' = Active \ {cur}
<1>1. /\ cur # 0 /\ cur \notin Queued /\ runq \in Seq(Tids) /\ IsInjective(runq)
      /\ 0 \notin Queued
  BY TidsType DEF SysExit, AddHash, ExpectsNext, AtSwi, Inv, TypeOK, RunqSound, Queued, Range
<1>2. CASE runq = <<>>
  BY <1>1, <1>2 DEF SysExit, AddHash, ExpectsNext, Active, Queued
<1>3. CASE runq # <<>>
  <2>1. Head(runq) \in Queued /\ Range(Tail(runq)) = Queued \ {Head(runq)}
    BY <1>1, <1>3, PopSeq DEF Queued
  <2>2. cur' = Head(runq) /\ Queued' = Range(Tail(runq))
    BY <1>3 DEF SysExit, AddHash, ExpectsNext, Queued
  <2> QED BY <1>1, <2>1, <2>2 DEF Active
<1> QED BY <1>2, <1>3

LEMMA SysExitRefines ==
  ASSUME Inv, SysExit
  PROVE  B!BNext
<1>1. /\ cur \in Tids /\ cur \in 1..MaxThreads /\ cur # 0 /\ cur \notin Queued
      /\ th[cur].reg_hash \in Hashes
      /\ runq \in Seq(Tids) /\ IsInjective(runq) /\ 0 \notin Queued
  BY TidsType DEF SysExit, AddHash, ExpectsNext, AtSwi, Inv, TypeOK, RunqSound, Thread, Queued, Range
<1>2. Active' = Active \ {cur}
  BY ExitActive
<1>3. Phase = "running" /\ Phase' = "running"
  BY DEF SysExit, AddHash, ExpectsNext, AtSwi, RunOneInst, Phase
<1>4. B!BFinish(cur, th[cur].reg_hash)
  BY <1>1, <1>2, <1>3 DEF SysExit, AddHash, ExpectsNext, B!BFinish, Active
<1> QED BY <1>1, <1>4 DEF B!BNext, Hashes

LEMMA ReturnRefines ==
  ASSUME Inv, RunThreadsReturn
  PROVE  B!BNext
<1>1. runq = <<>> /\ cur = 0 /\ mode' = "client"
  BY DEF RunThreadsReturn, Inv, RunqSound
<1>2. Queued = {} /\ Active = {} /\ Active' = {}
  <2>1. DOMAIN runq = {}
    BY <1>1, EmptySeq
  <2> QED BY <1>1, <2>1 DEF RunThreadsReturn, Active, Queued, Range
<1>3. B!BReturn
  BY <1>1, <1>2 DEF RunThreadsReturn, B!BReturn, Phase
<1> QED BY <1>3 DEF B!BNext

LEMMA StepRefines == Inv /\ [Next]_vars => [B!BNext]_(B!batchVars)
<1> SUFFICES ASSUME Inv, [Next]_vars PROVE [B!BNext]_(B!batchVars)
  OBVIOUS
<1>1. CASE EqxInit
  <2>1. CASE Panic("called init twice")
    BY <2>1, PanicRefines
  <2>2. CASE UNCHANGED <<runq, runVars, mode>>
    BY <2>2 DEF runVars, B!batchVars, Active, Queued, Phase
  <2> QED BY <1>1, <2>1, <2>2 DEF EqxInit
<1>2. CASE RunThreads
  BY <1>2, RunThreadsRefines
<1>3. CASE RunThreadsPanics
  BY <1>3, PanicRefines DEF RunThreadsPanics
<1>4. ASSUME NEW c \in Configs, SetSchedulerConfig(c) PROVE [B!BNext]_(B!batchVars)
  <2>1. CASE Panic("random seed is zero")
    BY <2>1, PanicRefines
  <2>2. CASE UNCHANGED <<runq, runVars, mode>>
    BY <2>2 DEF runVars, B!batchVars, Active, Queued, Phase
  <2> QED BY <1>4, <2>1, <2>2 DEF SetSchedulerConfig
<1>5. ASSUME NEW f \in Routines, NEW h \in ExpectHashes, Fork(f, h) \/ ForkNostack(f, h)
      PROVE  B!BNext
  BY <1>5, ForkRefines DEF Fork, ForkNostack
<1>6. ASSUME NEW t \in Tids, t \notin Queued, Refork(t) \/ ReforkAsserts(t)
      PROVE  B!BNext
  BY <1>6, ReforkRefines, PanicRefines DEF ReforkAsserts
<1>7. CASE UserInst
  BY <1>7 DEF UserInst, runVars, B!batchVars, Active, Queued, Phase
<1>8. CASE SingleStep \/ SysPutc
  BY <1>8, ScheduleStutters DEF SingleStep, AfterStep, SysPutc, AtSwi
<1>9. CASE SysExit
  BY <1>9, SysExitRefines
<1>10. CASE SyscallPanics
  BY <1>10, PanicRefines DEF SyscallPanics
<1>11. CASE RunThreadsReturn
  BY <1>11, ReturnRefines
<1>12. CASE UNCHANGED vars
  BY <1>12 DEF vars, runVars, B!batchVars, Active, Queued, Phase
<1> QED BY <1>1, <1>2, <1>3, <1>4, <1>5, <1>6, <1>7, <1>8, <1>9, <1>10, <1>11, <1>12
        DEF Next, Client, Machine

\* Every run of the threads is a run of the abstract batch: each forked thread
\* exits exactly once before eqx_run_threads returns, and the result is the
\* sum of one hash per thread, whatever the scheduler does
\* (eqx-threads.c:302-314, 506-517, 631-669).
THEOREM RunsRefineBatch == Spec => RunsAreBatches
<1>1. Spec => []Inv
  BY InitInv, StepInv, PTL DEF Spec
<1> QED BY <1>1, InitRefines, StepRefines, PTL DEF Spec, RunsAreBatches, B!BSpec

-----------------------------------------------------------------------------
(* Single-stepping is exact: between two faults the CPU executes one       *)
(* instruction, of the thread that runs, from the registers saved for it.  *)

LEMMA UserFacts ==
  ASSUME Inv, mode = "user"
  PROVE  cur \in Tids /\ th[cur] \in Thread /\ ureg \in Regs /\ mem \in Mem
BY DEF Inv, TypeOK, RunqSound

\* What the scheduler leaves: the CPU stands at the mismatch address with the
\* saved registers of the thread chosen, and no count but inst_cnt is touched.
LEMMA ScheduleEffect ==
  ASSUME Inv, mode = "user", NEW T \in [Tids -> Thread], Schedule(T)
  PROVE  /\ cur' \in Active /\ cur' \in Tids /\ Tids' = Tids /\ mode' = "user"
         /\ ureg' = th'[cur'].regs /\ mismatch' = Pc(th'[cur'].regs)
         /\ th' \in [Tids -> Thread]
         /\ \A t \in Tids :
              /\ th'[t].regs = T[t].regs /\ th'[t].fn = T[t].fn
              /\ th'[t].stack_end = T[t].stack_end
              /\ th'[t].cumulative_inst_cnt = T[t].cumulative_inst_cnt
              /\ th'[t].reg_hash = T[t].reg_hash
              /\ th'[t].expected_hash = T[t].expected_hash
<1>1. cur \in Tids /\ runq \in Seq(Tids) /\ IsInjective(runq) /\ 0 \notin Tids
  BY TidsType DEF Inv, TypeOK, RunqSound
<1>2. cur' \in Active /\ cur' \in Tids
  <2>1. CASE runq # <<>> /\ cur' = Head(runq)
    <3>1. Head(runq) \in Tids /\ Head(runq) \in Queued
      BY <1>1, <2>1, PopSeq DEF Queued
    <3> QED BY <1>1, <2>1, <3>1 DEF Active
  <2>2. CASE cur' = cur
    BY <1>1, <2>2 DEF Active
  <2> QED BY <2>1, <2>2 DEF Schedule, Rotated
<1>3. th' = [T EXCEPT ![cur].inst_cnt = 0] \/ th' = T
  BY DEF Schedule, Rotated
<1>4. /\ th' \in [Tids -> Thread]
      /\ \A t \in Tids :
           /\ th'[t].regs = T[t].regs /\ th'[t].fn = T[t].fn
           /\ th'[t].stack_end = T[t].stack_end
           /\ th'[t].cumulative_inst_cnt = T[t].cumulative_inst_cnt
           /\ th'[t].reg_hash = T[t].reg_hash
           /\ th'[t].expected_hash = T[t].expected_hash
  <2>1. CASE th' = T
    BY <2>1
  <2>2. CASE th' = [T EXCEPT ![cur].inst_cnt = 0]
    <3>1. th' = [T EXCEPT ![cur] = [T[cur] EXCEPT !.inst_cnt = 0]]
      BY <2>2
    <3>2. T[cur] \in Thread /\ [T[cur] EXCEPT !.inst_cnt = 0] \in Thread
      BY <1>1 DEF Thread
    <3>3. th' \in [Tids -> Thread]
      BY <3>1, <3>2
    <3>4. \A t \in Tids : t # cur => th'[t] = T[t]
      BY <3>1
    <3>5. th'[cur] = [T[cur] EXCEPT !.inst_cnt = 0]
      BY <1>1, <3>1
    <3>6. /\ th'[cur].regs = T[cur].regs /\ th'[cur].fn = T[cur].fn
          /\ th'[cur].stack_end = T[cur].stack_end
          /\ th'[cur].cumulative_inst_cnt = T[cur].cumulative_inst_cnt
          /\ th'[cur].reg_hash = T[cur].reg_hash
          /\ th'[cur].expected_hash = T[cur].expected_hash
      BY <3>2, <3>5 DEF Thread
    <3> QED BY <3>3, <3>4, <3>6
  <2> QED BY <1>3, <2>1, <2>2
<1>5. Tids' = Tids /\ mode' = "user" /\ ureg' = T[cur'].regs /\ mismatch' = Pc(T[cur'].regs)
  BY DEF Schedule, Rotated, RunOneInst, Tids
<1> QED BY <1>2, <1>4, <1>5

\* What an exit leaves when another thread is queued.
LEMMA ExitEffect ==
  ASSUME Inv, SysExit
  PROVE  /\ Tids' = Tids /\ cur \in Tids /\ th[cur] \in Thread
         /\ mode' \in {"user", "return"}
         /\ mode' = "user" =>
              /\ cur' \in Active \ {cur} /\ cur' \in Tids
              /\ ureg' = th'[cur'].regs /\ mismatch' = Pc(th'[cur'].regs)
         /\ \A t \in Tids \ {cur} : th'[t] = th[t]
<1>1. /\ cur \in Tids /\ th[cur] \in Thread /\ runq \in Seq(Tids) /\ IsInjective(runq)
      /\ 0 \notin Tids /\ cur \notin Queued /\ th \in [Tids -> Thread] /\ Tids' = Tids
  BY TidsType DEF Inv, TypeOK, RunqSound, SysExit, AddHash, ExpectsNext, AtSwi, Tids
<1>2. \A t \in Tids \ {cur} : th'[t] = th[t]
  BY <1>1 DEF SysExit, AddHash, ExpectsNext
<1>3. CASE runq = <<>>
  BY <1>1, <1>2, <1>3 DEF SysExit, AddHash, ExpectsNext
<1>4. CASE runq # <<>>
  <2>1. Head(runq) \in Tids /\ Head(runq) \in Queued
    BY <1>1, <1>4, PopSeq DEF Queued
  <2>2. /\ cur' = Head(runq) /\ mode' = "user"
        /\ ureg' = th[Head(runq)].regs /\ mismatch' = Pc(th[Head(runq)].regs)
    BY <1>4 DEF SysExit, AddHash, ExpectsNext, RunOneInst
  <2> QED BY <1>1, <1>2, <2>1, <2>2 DEF Active
<1> QED BY <1>3, <1>4

LEMMA StartEffect ==
  ASSUME Inv, RunThreads
  PROVE  /\ cur' \in Active /\ cur' \in Tids /\ mode' = "user" /\ th' = th /\ Tids' = Tids
         /\ ureg' = th'[cur'].regs /\ mismatch' = Pc(th'[cur'].regs)
<1>1. /\ runq \in Seq(Tids) /\ IsInjective(runq) /\ runq # <<>> /\ 0 \notin Tids
  BY TidsType DEF Inv, TypeOK, RunqSound, RunThreads
<1>2. Head(runq) \in Tids /\ Head(runq) \in Queued
  BY <1>1, PopSeq DEF Queued
<1> QED BY <1>1, <1>2 DEF RunThreads, RunOneInst, threadVars, Active, Tids

\* The handlers' updates of the running thread are well typed.
LEMMA StepUpdate ==
  ASSUME Inv, mode = "user"
  PROVE  /\ [th EXCEPT ![cur].regs = ureg, ![cur].inst_cnt = @ + 1,
               ![cur].cumulative_inst_cnt = @ + 1, ![cur].reg_hash = HashInc(ureg, @)]
              \in [Tids -> Thread]
         /\ [th EXCEPT ![cur].regs = trapped] \in [Tids -> Thread]
<1>1. cur \in Tids /\ th[cur] \in Thread /\ ureg \in Regs
  BY UserFacts
<1>2. HashInc(ureg, th[cur].reg_hash) \in Hashes /\ trapped \in Regs
  BY <1>1, UserFacts, MachineAssumption DEF Thread, trapped
<1>3. th[cur].inst_cnt + 1 \in Nat /\ th[cur].cumulative_inst_cnt + 1 \in Nat
  BY <1>1 DEF Thread
<1>4. [th EXCEPT ![cur].regs = trapped] \in [Tids -> Thread]
  BY <1>1, <1>2 DEF Inv, TypeOK, Thread
<1>5. DEFINE rec == [th[cur] EXCEPT !.regs = ureg, !.inst_cnt = th[cur].inst_cnt + 1,
                      !.cumulative_inst_cnt = th[cur].cumulative_inst_cnt + 1,
                      !.reg_hash = HashInc(ureg, th[cur].reg_hash)]
<1>6. rec \in Thread
  BY <1>1, <1>2, <1>3 DEF Thread
<1>7. [th EXCEPT ![cur].regs = ureg, ![cur].inst_cnt = @ + 1,
         ![cur].cumulative_inst_cnt = @ + 1, ![cur].reg_hash = HashInc(ureg, @)]
      = [th EXCEPT ![cur] = rec]
  BY <1>1 DEF Inv, TypeOK, Thread
<1> HIDE DEF rec
<1>8. [th EXCEPT ![cur] = rec] \in [Tids -> Thread]
  BY <1>6 DEF Inv, TypeOK
<1> QED BY <1>4, <1>7, <1>8

-----------------------------------------------------------------------------
(* The saved registers are those of the CPU up to the pending fault.       *)

LEMMA UserInstSteps ==
  ASSUME Inv, StepsFromSaved, UserInst, Pc(ExecRegs(ureg, mem)) # Pc(ureg)
  PROVE  StepsFromSaved' /\ ~AtMismatch' /\ ureg = th[cur].regs
<1>1. cur \in Tids /\ th[cur] \in Thread /\ ureg \in Regs
  BY UserFacts DEF UserInst
<1>2. mismatch = Pc(th[cur].regs) /\ ureg = th[cur].regs
  BY DEF StepsFromSaved, UserInst
<1>3. mismatch # Off
  BY <1>1, <1>2, MachineAssumption, BoundsAssumption
<1>4. mismatch' = mismatch /\ ureg' = ExecRegs(ureg, mem) /\ th' = th /\ cur' = cur
  BY DEF UserInst, runVars
<1>5. ~AtMismatch'
  BY <1>2, <1>3, <1>4 DEF AtMismatch
<1> QED BY <1>2, <1>4, <1>5 DEF StepsFromSaved

LEMMA OtherSteps ==
  ASSUME Inv, StepsFromSaved, AnyClient \/ Machine \/ UNCHANGED vars, ~UserInst
  PROVE  StepsFromSaved' /\ (mode' = "user" /\ ~UNCHANGED mode => AtMismatch')
<1>1. CASE mode' # "user"
  BY <1>1 DEF StepsFromSaved
<1>2. CASE SingleStep
  <2>1. mode' = "user" /\ ureg' = th'[cur'].regs /\ mismatch' = Pc(th'[cur'].regs)
    BY <1>2, StepUpdate, ScheduleEffect DEF SingleStep, AfterStep
  <2> QED BY <2>1 DEF StepsFromSaved, AtMismatch
<1>3. CASE SysPutc
  <2>1. mode' = "user" /\ ureg' = th'[cur'].regs /\ mismatch' = Pc(th'[cur'].regs)
    BY <1>3, StepUpdate, ScheduleEffect DEF SysPutc, AtSwi
  <2> QED BY <2>1 DEF StepsFromSaved, AtMismatch
<1>4. CASE SysExit /\ mode' = "user"
  BY <1>4, ExitEffect DEF StepsFromSaved, AtMismatch
<1>5. CASE RunThreads
  BY <1>5, StartEffect DEF StepsFromSaved, AtMismatch
<1>6. CASE UNCHANGED vars
  BY <1>6 DEF vars, threadVars, runVars, cpuVars, StepsFromSaved, AtMismatch
<1>7. CASE AnyClient /\ ~RunThreads
  <2>1. mode' \in {"client", "panic"}
    <3>1. \/ EqxInit \/ RunThreadsPanics
          \/ \E c \in SchedulerConfig : SetSchedulerConfig(c)
          \/ \E f, h, base, nbytes : ForkStack(f, h, base, nbytes)
          \/ \E t : Refork(t) \/ ReforkAsserts(t)
      BY <1>7 DEF AnyClient, Fork, ForkNostack
    <3> QED BY <3>1 DEF EqxInit, RunThreadsPanics, SetSchedulerConfig, ForkStack, Refork,
       ReforkAsserts, Panic
  <2> QED BY <1>1, <2>1
<1>8. CASE SyscallPanics \/ RunThreadsReturn
  <2>1. mode' \in {"client", "panic"}
    BY <1>8 DEF SyscallPanics, Panic, RunThreadsReturn
  <2> QED BY <1>1, <2>1
<1> QED BY <1>1, <1>2, <1>3, <1>4, <1>5, <1>6, <1>7, <1>8 DEF Machine

-----------------------------------------------------------------------------
(* Every instruction is counted once.                                      *)

Counted(t) == executed[t] = th[t].cumulative_inst_cnt + (IF FaultPending(t) THEN 1 ELSE 0)

StepInvariant == Inv /\ StepsFromSaved /\ CountsEveryInstruction

LEMMA CountsUserInst ==
  ASSUME StepInvariant, UserInst, NoSelfBranch
  PROVE  StepsFromSaved' /\ CountsEveryInstruction'
<1>1. /\ cur \in Tids /\ th[cur] \in Thread /\ ureg \in Regs /\ mem \in Mem
      /\ cur \in 1..MaxThreads
  BY UserFacts, TidsType DEF UserInst, StepInvariant, Inv
<1>2. Pc(ExecRegs(ureg, mem)) # Pc(ureg)
  BY <1>1 DEF NoSelfBranch, UserInst
<1>3. StepsFromSaved' /\ ~AtMismatch'
  BY <1>2, UserInstSteps DEF StepInvariant
<1>4. /\ th' = th /\ cur' = cur /\ Tids' = Tids /\ mode = "user" /\ mode' = "user"
      /\ AtMismatch
      /\ executed' = [executed EXCEPT ![cur] = @ + 1]
      /\ executed \in [1..MaxThreads -> Nat]
  BY DEF UserInst, runVars, Tids, StepInvariant, Inv, TypeOK
<1>5. ASSUME NEW t \in Tids PROVE Counted(t)'
  <2>1. t \in 1..MaxThreads /\ Counted(t) /\ th[t].cumulative_inst_cnt \in Nat
    BY TidsType DEF StepInvariant, Inv, TypeOK, CountsEveryInstruction, Counted, Thread
  <2>2. CASE t = cur
    <3>1. ~FaultPending(t) /\ FaultPending(t)'
      BY <1>3, <1>4, <2>2 DEF FaultPending
    <3>2. executed[t] = th[t].cumulative_inst_cnt
      BY <2>1, <3>1 DEF Counted
    <3> QED BY <1>1, <1>4, <2>1, <2>2, <3>1, <3>2 DEF Counted
  <2>3. CASE t # cur
    <3>1. ~FaultPending(t) /\ ~FaultPending(t)'
      BY <1>4, <2>3 DEF FaultPending
    <3> QED BY <1>4, <2>1, <2>3, <3>1 DEF Counted
  <2> QED BY <2>2, <2>3
<1> QED BY <1>3, <1>4, <1>5 DEF CountsEveryInstruction, Counted

\* After a handler no fault is pending: the counts must agree exactly.
LEMMA CountsSettled ==
  ASSUME Inv', mode' = "user" => AtMismatch',
         \A t \in Tids' : executed'[t] = th'[t].cumulative_inst_cnt
  PROVE  CountsEveryInstruction'
<1>1. \A t \in Tids' : ~FaultPending(t)' /\ th'[t].cumulative_inst_cnt \in Nat
  BY DEF FaultPending, Inv, TypeOK, Thread
<1> QED BY <1>1 DEF CountsEveryInstruction

\* Without a pending fault the counts agree exactly.
LEMMA CountsExact ==
  ASSUME StepInvariant, mode = "user" => AtMismatch
  PROVE  \A t \in Tids : executed[t] = th[t].cumulative_inst_cnt
<1>1. \A t \in Tids : ~FaultPending(t) /\ th[t].cumulative_inst_cnt \in Nat
  BY DEF FaultPending, StepInvariant, Inv, TypeOK, Thread
<1> QED BY <1>1 DEF StepInvariant, CountsEveryInstruction

LEMMA CountsSingleStep ==
  ASSUME StepInvariant, SingleStep
  PROVE  CountsEveryInstruction'
<1> DEFINE T == [th EXCEPT ![cur].regs = ureg, ![cur].inst_cnt = @ + 1,
                   ![cur].cumulative_inst_cnt = @ + 1, ![cur].reg_hash = HashInc(ureg, @)]
<1>1. Inv /\ mode = "user" /\ ~AtMismatch /\ Schedule(T) /\ executed' = executed
  <2>1. Inv /\ mode = "user" /\ ~AtMismatch /\ Schedule(AfterStep) /\ executed' = executed
    BY DEF StepInvariant, SingleStep
  <2>2. AfterStep = T
    BY DEF AfterStep
  <2> HIDE DEF T
  <2> QED BY <2>1, <2>2
<1>2. T \in [Tids -> Thread]
  BY <1>1, StepUpdate
<1>3. cur \in Tids /\ th[cur] \in Thread /\ th \in [Tids -> Thread]
  BY <1>1, UserFacts DEF Inv, TypeOK
<1>4. /\ Tids' = Tids /\ mode' = "user" /\ mismatch' = Pc(ureg')
      /\ \A t \in Tids : th'[t].cumulative_inst_cnt = T[t].cumulative_inst_cnt
  BY <1>1, <1>2, ScheduleEffect
<1>5. /\ T[cur].cumulative_inst_cnt = th[cur].cumulative_inst_cnt + 1
      /\ \A t \in Tids : t # cur => T[t].cumulative_inst_cnt = th[t].cumulative_inst_cnt
  BY <1>3 DEF Thread
<1> HIDE DEF T
<1>6. \A t \in Tids : executed[t] = T[t].cumulative_inst_cnt
  <2> TAKE t \in Tids
  <2>1. th[t].cumulative_inst_cnt \in Nat
    BY <1>3 DEF Thread
  <2>2. CASE t = cur
    <3>1. FaultPending(t)
      BY <1>1, <2>2 DEF FaultPending
    <3> QED BY <1>5, <2>2, <3>1 DEF StepInvariant, CountsEveryInstruction
  <2>3. CASE t # cur
    <3>1. ~FaultPending(t)
      BY <2>3 DEF FaultPending
    <3>2. executed[t] = th[t].cumulative_inst_cnt
      BY <2>1, <3>1 DEF StepInvariant, CountsEveryInstruction
    <3> QED BY <1>5, <2>3, <3>2
  <2> QED BY <2>2, <2>3
<1>7. Inv'
  BY SingleStepInv DEF StepInvariant
<1> QED BY <1>1, <1>4, <1>6, <1>7, CountsSettled DEF AtMismatch

LEMMA CountsSysPutc ==
  ASSUME StepInvariant, SysPutc
  PROVE  CountsEveryInstruction'
<1> DEFINE T == [th EXCEPT ![cur].regs = trapped]
<1>1. Inv /\ mode = "user" /\ AtMismatch /\ Schedule(T) /\ executed' = executed
  BY DEF StepInvariant, SysPutc, AtSwi
<1>2. T \in [Tids -> Thread]
  BY <1>1, StepUpdate
<1>3. /\ Tids' = Tids /\ mode' = "user" /\ mismatch' = Pc(ureg')
      /\ \A t \in Tids : th'[t].cumulative_inst_cnt = T[t].cumulative_inst_cnt
  BY <1>1, <1>2, ScheduleEffect
<1>4. \A t \in Tids : T[t].cumulative_inst_cnt = th[t].cumulative_inst_cnt
  BY <1>1, UserFacts DEF Inv, TypeOK, Thread
<1>5. Inv'
  BY SysPutcInv DEF StepInvariant
<1> HIDE DEF T
<1> QED BY <1>1, <1>3, <1>4, <1>5, CountsExact, CountsSettled DEF AtMismatch

LEMMA CountsSysExit ==
  ASSUME StepInvariant, SysExit
  PROVE  CountsEveryInstruction'
<1>1. /\ Inv /\ AtMismatch /\ executed' = executed
      /\ th' = [th EXCEPT ![cur].regs = trapped, ![cur].expected_hash = th[cur].reg_hash]
  BY DEF StepInvariant, SysExit, AddHash, ExpectsNext, AtSwi
<1>2. Tids' = Tids /\ cur \in Tids /\ (mode' = "user" => mismatch' = Pc(ureg'))
  BY <1>1, ExitEffect
<1>3. \A t \in Tids : th'[t].cumulative_inst_cnt = th[t].cumulative_inst_cnt
  BY <1>1, <1>2 DEF Inv, TypeOK, Thread
<1>4. Inv'
  BY SysExitInv DEF StepInvariant
<1> QED BY <1>1, <1>2, <1>3, <1>4, CountsExact, CountsSettled DEF AtMismatch

\* The calls of the client: a fork and a refork start from zero on both sides.
LEMMA CountsClient ==
  ASSUME StepInvariant, AnyClient
  PROVE  CountsEveryInstruction'
<1>1. Inv /\ Inv' /\ mode = "client" /\ \A t \in Tids : executed[t] = th[t].cumulative_inst_cnt
  <2>1. mode = "client"
    BY DEF AnyClient, EqxInit, RunThreads, RunThreadsPanics, SetSchedulerConfig, Fork,
       ForkNostack, ForkStack, Refork, Restarted, ReforkAsserts
  <2> QED BY <2>1, AnyClientInv, CountsExact DEF StepInvariant
<1>2. CASE UNCHANGED threadVars /\ mode' # "user"
  BY <1>1, <1>2, CountsSettled DEF threadVars, Tids
<1>3. CASE RunThreads
  <2>1. UNCHANGED threadVars /\ mismatch' = Pc(ureg')
    BY <1>1, <1>3, StartEffect DEF RunThreads
  <2> QED BY <1>1, <2>1, CountsSettled DEF threadVars, Tids, AtMismatch
<1>4. ASSUME NEW f, NEW h, NEW base, NEW nbytes, ForkStack(f, h, base, nbytes)
      PROVE  CountsEveryInstruction'
  <2>1. ntids \in 1..MaxThreads /\ ntids \notin Tids
        /\ Tids' = Tids \cup {ntids} /\ Tids' = 1..ntids
    BY <1>1, <1>4, BoundsAssumption DEF ForkStack, Inv, TypeOK, Tids
  <2>2. \A t \in Tids : th'[t] = th[t] /\ executed'[t] = executed[t]
    BY <1>1, <1>4, <2>1, TidsType DEF ForkStack, Inv, TypeOK
  <2>3. th'[ntids].cumulative_inst_cnt = 0 /\ executed'[ntids] = 0
    BY <1>1, <1>4, <2>1 DEF ForkStack, NewThread, Inv, TypeOK
  <2>4. mode' # "user"
    BY <1>4 DEF ForkStack
  <2> QED BY <1>1, <2>1, <2>2, <2>3, <2>4, CountsSettled
<1>5. ASSUME NEW t \in Tids, Refork(t) PROVE CountsEveryInstruction'
  <2>1. \A s \in Tids \ {t} : th'[s] = th[s] /\ executed'[s] = executed[s]
    BY <1>1, <1>5, TidsType DEF Refork, Restarted, Inv, TypeOK
  <2>2. th'[t].cumulative_inst_cnt = 0 /\ executed'[t] = 0
    BY <1>1, <1>5, TidsType DEF Refork, Restarted, Inv, TypeOK, Thread
  <2>3. mode' # "user" /\ Tids' = Tids
    BY <1>5 DEF Refork, Restarted, Tids
  <2> QED BY <1>1, <2>1, <2>2, <2>3, CountsSettled
<1>6. CASE EqxInit \/ RunThreadsPanics \/ (\E c \in SchedulerConfig : SetSchedulerConfig(c))
           \/ \E t \in Tids : ReforkAsserts(t)
  BY <1>2, <1>6 DEF EqxInit, RunThreadsPanics, SetSchedulerConfig, ReforkAsserts, Panic
<1> QED BY <1>3, <1>4, <1>5, <1>6 DEF AnyClient, Fork, ForkNostack

LEMMA StepInvariantAnyStep == NoSelfBranch /\ StepInvariant /\ [AnyNext]_vars => StepInvariant'
<1> SUFFICES ASSUME NoSelfBranch, StepInvariant, [AnyNext]_vars PROVE StepInvariant'
  OBVIOUS
<1>1. Inv'
  BY AnyStepInv DEF StepInvariant
<1>2. StepsFromSaved'
  BY CountsUserInst, OtherSteps DEF StepInvariant, AnyNext
<1>3. CountsEveryInstruction'
  <2>1. CASE UserInst
    BY <2>1, CountsUserInst
  <2>2. CASE AnyClient
    BY <2>2, CountsClient
  <2>3. CASE SingleStep
    BY <2>3, CountsSingleStep
  <2>4. CASE SysPutc
    BY <2>4, CountsSysPutc
  <2>5. CASE SysExit
    BY <2>5, CountsSysExit
  <2>6. CASE SyscallPanics \/ RunThreadsReturn
    <3>1. /\ mode = "user" => AtMismatch
          /\ mode' # "user" /\ UNCHANGED threadVars
      BY <2>6 DEF SyscallPanics, AtSwi, Panic, RunThreadsReturn
    <3> QED BY <1>1, <3>1, CountsExact, CountsSettled DEF threadVars, Tids
  <2>7. CASE UNCHANGED vars
    BY <2>7 DEF vars, threadVars, runVars, cpuVars, StepInvariant,
       CountsEveryInstruction, FaultPending, AtMismatch, Tids
  <2> QED BY <2>1, <2>2, <2>3, <2>4, <2>5, <2>6, <2>7 DEF AnyNext, Machine
<1> QED BY <1>1, <1>2, <1>3 DEF StepInvariant

LEMMA StepInvariantStep == NoSelfBranch /\ StepInvariant /\ [Next]_vars => StepInvariant'
BY StepInvariantAnyStep, NextIsAny DEF StepInvariant

LEMMA StepInvariantInit == Init => StepInvariant
<1> SUFFICES ASSUME Init PROVE StepInvariant
  OBVIOUS
<1>1. Inv
  BY InitInv
<1>2. Tids = {} /\ mode = "client"
  <2>1. ntids = 1 /\ mode = "client"
    BY DEF Init
  <2> QED BY <2>1 DEF Tids
<1> QED BY <1>1, <1>2 DEF StepInvariant, StepsFromSaved, CountsEveryInstruction

\* Unless a routine branches to itself, the running thread always executes the
\* instruction at the mismatch address from the registers that are saved for it
\* (eqx-threads.c:224-237).
THEOREM RunsFromSaved == NoSelfBranch => (Spec => []StepsFromSaved)
<1> SUFFICES ASSUME NoSelfBranch PROVE Spec => []StepsFromSaved
  OBVIOUS
<1>1. StepInvariant /\ [Next]_vars => StepInvariant'
  BY StepInvariantStep
<1> QED BY <1>1, StepInvariantInit, PTL DEF Spec, StepInvariant

\* Unless a routine branches to itself, the fault handler counts every
\* instruction the CPU executes for a thread, once and for that thread
\* (eqx-threads.c:224-237, 374-395).
THEOREM EveryInstructionCounted == NoSelfBranch => (Spec => []CountsEveryInstruction)
<1> SUFFICES ASSUME NoSelfBranch PROVE Spec => []CountsEveryInstruction
  OBVIOUS
<1>1. StepInvariant /\ [Next]_vars => StepInvariant'
  BY StepInvariantStep
<1> QED BY <1>1, StepInvariantInit, PTL DEF Spec, StepInvariant

-----------------------------------------------------------------------------
(* Steps of a run, thread by thread.                                       *)

\* The single-step handler and sys_putc change the running thread alone, count
\* one instruction or none for it, and call the scheduler.
LEMMA HandlerSchedules ==
  ASSUME Inv, SingleStep \/ SysPutc
  PROVE  /\ mode = "user" /\ cur \in Tids /\ cur \in Active /\ th \in [Tids -> Thread]
         /\ \E T \in [Tids -> Thread] :
              /\ Schedule(T)
              /\ \A t \in Tids \ {cur} : T[t] = th[t]
              /\ T[cur].fn = th[cur].fn /\ T[cur].stack_end = th[cur].stack_end
              /\ T[cur].expected_hash = th[cur].expected_hash
              /\ T[cur].cumulative_inst_cnt =
                   th[cur].cumulative_inst_cnt + (IF SingleStep THEN 1 ELSE 0)
<1>1. /\ mode = "user" /\ cur \in Tids /\ cur # 0 /\ th[cur] \in Thread
      /\ th \in [Tids -> Thread]
  BY UserFacts DEF SingleStep, SysPutc, AtSwi, Inv, TypeOK, RunqSound
<1>2. cur \in Active
  BY <1>1 DEF Active
<1>3. CASE SingleStep
  <2> DEFINE T == [th EXCEPT ![cur].regs = ureg, ![cur].inst_cnt = @ + 1,
                     ![cur].cumulative_inst_cnt = @ + 1, ![cur].reg_hash = HashInc(ureg, @)]
  <2>1. T \in [Tids -> Thread]
    BY <1>1, StepUpdate
  <2>2. Schedule(T)
    <3>1. Schedule(AfterStep)
      BY <1>3 DEF SingleStep
    <3> QED BY <3>1 DEF AfterStep
  <2>3. /\ \A t \in Tids \ {cur} : T[t] = th[t]
        /\ T[cur].fn = th[cur].fn /\ T[cur].stack_end = th[cur].stack_end
        /\ T[cur].expected_hash = th[cur].expected_hash
        /\ T[cur].cumulative_inst_cnt = th[cur].cumulative_inst_cnt + 1
    BY <1>1 DEF Thread
  <2> HIDE DEF T
  <2> QED BY <1>1, <1>2, <1>3, <2>1, <2>2, <2>3
<1>4. CASE ~SingleStep
  <2> DEFINE T == [th EXCEPT ![cur].regs = trapped]
  <2>1. T \in [Tids -> Thread]
    BY <1>1, StepUpdate
  <2>2. Schedule(T)
    BY <1>4 DEF SysPutc
  <2>3. /\ \A t \in Tids \ {cur} : T[t] = th[t]
        /\ T[cur].fn = th[cur].fn /\ T[cur].stack_end = th[cur].stack_end
        /\ T[cur].expected_hash = th[cur].expected_hash
        /\ T[cur].cumulative_inst_cnt = th[cur].cumulative_inst_cnt
        /\ th[cur].cumulative_inst_cnt \in Nat
    BY <1>1 DEF Thread
  <2> HIDE DEF T
  <2> QED BY <1>1, <1>2, <1>4, <2>1, <2>2, <2>3
<1> QED BY <1>3, <1>4

\* The scheduler's own change of the threads.
LEMMA ScheduleThreads ==
  ASSUME NEW T \in [Tids -> Thread], cur \in Tids, Schedule(T)
  PROVE  /\ \A t \in Tids \ {cur} : th'[t] = T[t]
         /\ th'[cur].inst_cnt = IF QuantumUsed(T) THEN 0 ELSE T[cur].inst_cnt
<1>1. th' = IF QuantumUsed(T) THEN [T EXCEPT ![cur].inst_cnt = 0] ELSE T
  BY DEF Schedule
<1>2. T[cur] \in Thread
  OBVIOUS
<1>3. [T EXCEPT ![cur].inst_cnt = 0] = [T EXCEPT ![cur] = [T[cur] EXCEPT !.inst_cnt = 0]]
  OBVIOUS
<1>4. [T[cur] EXCEPT !.inst_cnt = 0].inst_cnt = 0
  BY <1>2 DEF Thread
<1> QED BY <1>1, <1>3, <1>4

\* No step of a run changes another thread than the running one, nor its
\* routine, stack or expected hash once it has one; and a thread of the run
\* stays in it, running, queued or finished.
LEMMA MachineFrame ==
  ASSUME Inv, Machine
  PROVE  /\ Tids' = Tids /\ ntids' = ntids /\ config' = config
         /\ \A t \in Tids \ {cur} : th'[t] = th[t]
         /\ \A t \in Tids : /\ th'[t].fn = th[t].fn /\ th'[t].stack_end = th[t].stack_end
                            /\ th[t].expected_hash # 0 =>
                                 th'[t].expected_hash = th[t].expected_hash
         /\ Active' \cup finished' = Active \cup finished
<1>1. CASE UserInst \/ SyscallPanics
  BY <1>1 DEF UserInst, SyscallPanics, Panic, threadVars, runVars, Tids, Active, Queued
<1>2. CASE RunThreadsReturn
  BY <1>2 DEF RunThreadsReturn, threadVars, Inv, RunqSound, Tids, Active, Queued
<1>3. CASE SingleStep \/ SysPutc
  <2>1. /\ mode = "user" /\ cur \in Tids /\ th \in [Tids -> Thread]
        /\ \E T \in [Tids -> Thread] :
              /\ Schedule(T)
              /\ \A t \in Tids \ {cur} : T[t] = th[t]
              /\ T[cur].fn = th[cur].fn /\ T[cur].stack_end = th[cur].stack_end
              /\ T[cur].expected_hash = th[cur].expected_hash
    BY <1>3, HandlerSchedules
  <2>2. PICK T \in [Tids -> Thread] :
              /\ Schedule(T)
              /\ \A t \in Tids \ {cur} : T[t] = th[t]
              /\ T[cur].fn = th[cur].fn /\ T[cur].stack_end = th[cur].stack_end
              /\ T[cur].expected_hash = th[cur].expected_hash
    BY <2>1
  <2>3. UNCHANGED B!batchVars
    BY <2>1, <2>2, ScheduleStutters
  <2>4. ntids' = ntids /\ config' = config
    BY <2>2 DEF Schedule
  <2>5. \A t \in Tids : /\ th'[t].fn = T[t].fn /\ th'[t].stack_end = T[t].stack_end
                        /\ th'[t].expected_hash = T[t].expected_hash
    BY <2>1, <2>2, ScheduleEffect
  <2>6. \A t \in Tids \ {cur} : th'[t] = T[t]
    BY <2>1, <2>2, ScheduleThreads
  <2> QED BY <2>1, <2>2, <2>3, <2>4, <2>5, <2>6 DEF B!batchVars, Tids
<1>4. CASE SysExit
  <2>1. /\ Tids' = Tids /\ cur \in Tids /\ th[cur] \in Thread
        /\ \A t \in Tids \ {cur} : th'[t] = th[t]
    BY <1>4, ExitEffect
  <2>2. /\ ntids' = ntids /\ config' = config /\ finished' = finished \cup {cur} /\ HashMatches
        /\ th' = [th EXCEPT ![cur].regs = trapped, ![cur].expected_hash = th[cur].reg_hash]
    BY <1>4 DEF SysExit, ExpectsNext
  <2>3. /\ th'[cur].fn = th[cur].fn /\ th'[cur].stack_end = th[cur].stack_end
        /\ th'[cur].expected_hash = th[cur].reg_hash
    BY <2>1, <2>2 DEF Inv, TypeOK, Thread
  <2>4. Active' = Active \ {cur} /\ cur \in Active
    BY <1>4, ExitActive, TidsType, <2>1 DEF Active, Inv
  <2> QED BY <2>1, <2>2, <2>3, <2>4 DEF HashMatches
<1> QED BY <1>1, <1>2, <1>3, <1>4 DEF Machine

-----------------------------------------------------------------------------
(* The result of a run is the sum of the hashes of the threads that exited, *)
(* and each of them has confirmed its expected hash.                        *)

FinalHashes == [t \in finished |-> th[t].reg_hash]

RunResult ==
    /\ finished \cap Active = {}
    /\ \A t \in finished : th[t].expected_hash = th[t].reg_hash
    /\ exit_hash = SumFunction(FinalHashes) % Word

LEMMA FinishedFinite ==
  ASSUME Inv PROVE IsFiniteSet(finished) /\ finished \subseteq Tids /\ IsFiniteSet(Tids)
<1>1. IsFiniteSet(Tids)
  <2>1. ntids - 1 \in Int
    BY BoundsAssumption DEF Inv, TypeOK
  <2> QED BY <2>1, FS_Interval DEF Tids
<1> QED BY <1>1, FS_Subset DEF Inv, TypeOK

LEMMA RunThreadsResult ==
  ASSUME Inv, RunThreads
  PROVE  RunResult'
<1>1. finished' = {} /\ exit_hash' = 0
  BY DEF RunThreads
<1>2. SumFunction(FinalHashes)' = 0
  BY <1>1, SumEmpty DEF FinalHashes, SumFunction
<1>3. 0 % Word = 0
  BY BoundsAssumption
<1> QED BY <1>1, <1>2, <1>3 DEF RunResult

\* The result stays that of the finished threads while none of them changes.
LEMMA ResultFrame ==
  ASSUME RunResult, UNCHANGED <<finished, exit_hash>>, Active' = Active,
         \A t \in finished : th'[t] = th[t]
  PROVE  RunResult'
<1>1. FinalHashes' = FinalHashes
  BY DEF FinalHashes
<1> QED BY <1>1 DEF RunResult

LEMMA SysExitResult ==
  ASSUME Inv, RunResult, SysExit
  PROVE  RunResult'
<1> DEFINE F == FinalHashes
           G == FinalHashes'
<1>1. /\ cur \in Tids /\ th[cur] \in Thread /\ \A t \in Tids \ {cur} : th'[t] = th[t]
      /\ th \in [Tids -> Thread]
  BY ExitEffect DEF Inv, TypeOK
<1>2. /\ finished' = finished \cup {cur}
      /\ exit_hash' = (exit_hash + th[cur].reg_hash) % Word
      /\ th' = [th EXCEPT ![cur].regs = trapped, ![cur].expected_hash = th[cur].reg_hash]
  BY DEF SysExit, AddHash, ExpectsNext
<1>3. th'[cur].reg_hash = th[cur].reg_hash /\ th'[cur].expected_hash = th[cur].reg_hash
  BY <1>1, <1>2 DEF Thread
<1>4. Active' = Active \ {cur} /\ cur \in Active /\ cur \notin finished
  BY <1>1, ExitActive, TidsType DEF Active, Inv, RunResult
<1>5. /\ IsFiniteSet(finished) /\ finished \subseteq Tids
      /\ \A t \in Tids : th[t].reg_hash \in Nat
  BY <1>1, FinishedFinite, BoundsAssumption DEF Thread, Hashes
<1>6. /\ \A t \in finished : F[t] = th[t].reg_hash /\ G[t] = F[t]
      /\ G[cur] = th[cur].reg_hash
      /\ DOMAIN F = finished /\ DOMAIN G = finished \cup {cur}
  BY <1>1, <1>2, <1>3, <1>4, <1>5 DEF FinalHashes
<1> HIDE DEF F, G
<1>7. /\ SumFunctionOnSet(G, finished) = SumFunctionOnSet(F, finished)
      /\ SumFunctionOnSet(G, finished) \in Int
      /\ SumFunctionOnSet(G, finished \cup {cur}) = th[cur].reg_hash + SumFunctionOnSet(G, finished)
  <2>1. /\ \A t \in finished : F[t] \in Int /\ G[t] = F[t]
        /\ \A t \in finished \cup {cur} : G[t] \in Int
    BY <1>1, <1>5, <1>6
  <2> QED BY <1>4, <1>5, <1>6, <2>1, SumSame, SumAdd
<1>8. exit_hash' = SumFunction(G) % Word
  <2>1. SumFunction(F) = SumFunctionOnSet(F, finished)
        /\ SumFunction(G) = SumFunctionOnSet(G, finished \cup {cur})
    BY <1>6 DEF SumFunction
  <2>2. exit_hash = SumFunctionOnSet(F, finished) % Word
    BY <2>1 DEF RunResult, F
  <2> DEFINE s == SumFunctionOnSet(F, finished)
             h == th[cur].reg_hash
  <2>3. s \in Int /\ h \in Int /\ Word \in Nat \ {0}
    BY <1>1, <1>5, <1>7, BoundsAssumption
  <2>4. SumFunction(G) = s + h
    BY <1>7, <2>1, <2>3
  <2>5. exit_hash' = ((s % Word) + h) % Word
    BY <1>2, <2>2
  <2> HIDE DEF s, h
  <2>6. ((s % Word) + h) % Word = (s + h) % Word
    BY <2>3, ModAdd, Zenon
  <2> QED BY <2>4, <2>5, <2>6
<1>9. ASSUME NEW t \in finished' PROVE th'[t].expected_hash = th'[t].reg_hash
  BY <1>1, <1>2, <1>3, <1>5 DEF RunResult
<1>10. finished' \cap Active' = {}
  BY <1>2, <1>4 DEF RunResult
<1> QED BY <1>8, <1>9, <1>10 DEF RunResult, G

LEMMA MachineResult ==
  ASSUME Inv, RunResult, Machine
  PROVE  RunResult'
<1>1. CASE SysExit
  BY <1>1, SysExitResult
<1>2. CASE UserInst \/ SyscallPanics
  BY <1>2, ResultFrame
  DEF UserInst, SyscallPanics, Panic, threadVars, runVars, Active, Queued
<1>3. CASE RunThreadsReturn
  BY <1>3, ResultFrame DEF RunThreadsReturn, threadVars, Inv, RunqSound, Active, Queued
<1>4. CASE SingleStep \/ SysPutc
  <2>1. cur \in Active /\ UNCHANGED B!batchVars
    <3>1. mode = "user" /\ cur \in Active /\ \E T : Schedule(T)
      BY <1>4, HandlerSchedules
    <3> QED BY <3>1, ScheduleStutters
  <2>2. \A t \in finished : th'[t] = th[t]
    BY <2>1, MachineFrame, FinishedFinite DEF RunResult
  <2> QED BY <2>1, <2>2, ResultFrame DEF B!batchVars
<1> QED BY <1>1, <1>2, <1>3, <1>4 DEF Machine

\* The result of a run is the sum, modulo the word size, of the final hashes of
\* the threads that exited, in whatever order they were interleaved
\* (eqx-threads.c:504-506).
THEOREM ResultIsSum == Spec => []ExitHashIsSum
<1> DEFINE SumInv == Inv /\ (mode \in {"user", "return"} => RunResult)
<1>1. Init => SumInv
  BY InitInv DEF Init
<1>2. SumInv /\ [Next]_vars => SumInv'
  <2> SUFFICES ASSUME SumInv, [Next]_vars PROVE SumInv'
    OBVIOUS
  <2>1. Inv'
    BY StepInv
  <2>2. CASE Machine
    <3>1. mode \in {"user", "return"}
      BY <2>2 DEF Machine, UserInst, SingleStep, SysPutc, SysExit, SyscallPanics,
         RunThreadsReturn, AtSwi
    <3> QED BY <2>1, <2>2, <3>1, MachineResult
  <2>3. CASE RunThreads
    BY <2>1, <2>3, RunThreadsResult
  <2>4. CASE Client /\ ~RunThreads
    <3>1. mode' \in {"client", "panic"}
      BY <2>4 DEF Client, EqxInit, RunThreadsPanics, SetSchedulerConfig, Fork, ForkNostack,
         ForkStack, Refork, Restarted, ReforkAsserts, Panic
    <3> QED BY <2>1, <3>1
  <2>5. CASE UNCHANGED vars
    BY <2>1, <2>5 DEF vars, threadVars, runVars, RunResult, FinalHashes, Active, Queued
  <2> QED BY <2>2, <2>3, <2>4, <2>5 DEF Next
<1>3. SumInv => ExitHashIsSum
  BY DEF RunResult, ExitHashIsSum, FinalHashes
<1> QED BY <1>1, <1>2, <1>3, PTL DEF Spec
-----------------------------------------------------------------------------
(* Turns: how long a thread keeps the CPU and who may be suspended.        *)

\* The scheduler goes on with cur, or swaps it with a thread of the queue.
LEMMA ScheduleQueue ==
  ASSUME Inv, mode = "user", NEW T, Schedule(T)
  PROVE  \/ cur' = cur /\ Queued' = Queued /\ (runq = <<>> => runq' = <<>>)
                       /\ (runq # <<>> => ~XYields(T) /\ runq' = runq)
         \/ /\ runq # <<>> /\ runq' # <<>>
            /\ \E usec \in Ticks : Switches(T, usec)
            /\ cur' = Head(runq) /\ runq' = Append(Tail(runq), cur)
            /\ cur' \in Queued /\ cur' # cur /\ Queued' = (Queued \ {cur'}) \cup {cur}
<1>1. cur \in Tids /\ cur \notin Queued /\ runq \in Seq(Tids) /\ IsInjective(runq)
  BY DEF Inv, TypeOK, RunqSound
<1>2. PICK usec \in Ticks :
        \/ /\ Switches(T, usec) /\ runq # <<>>
           /\ cur' = Head(runq)
           /\ runq' = Rotated
        \/ /\ ~(Switches(T, usec) /\ runq # <<>>)
           /\ UNCHANGED <<cur, runq>>
  BY DEF Schedule
<1>3. CASE Switches(T, usec) /\ runq # <<>> /\ cur' = Head(runq) /\ runq' = Rotated
  <2> DEFINE rest == Tail(runq)
  <2>1. /\ Head(runq) \in Queued /\ rest \in Seq(Tids)
        /\ Range(rest) = Queued \ {Head(runq)}
    BY <1>1, <1>3, PopSeq DEF Queued
  <2>9. runq' = Append(rest, cur) /\ cur \in Tids
    BY <1>1, <1>3 DEF Rotated
  <2> HIDE DEF rest
  <2>2. Range(runq') = Range(rest) \cup {cur}
    BY <2>1, <2>9, AppendSeq
  <2>3. runq' # <<>>
    BY <1>1, <1>3, <2>1 DEF Rotated
  <2> QED BY <1>1, <1>3, <2>1, <2>2, <2>3 DEF Queued, Rotated
<1>4. CASE ~(Switches(T, usec) /\ runq # <<>>) /\ UNCHANGED <<cur, runq>>
  BY <1>4 DEF Queued, Switches
<1> QED BY <1>2, <1>3, <1>4

Unstarted(t) ==
    /\ th[t].regs = EntryRegs(th[t].fn, th[t].stack_end)
    /\ th[t].reg_hash = 0 /\ th[t].cumulative_inst_cnt = 0

\* Between runs every thread in the queue is as its fork or refork left it.
Fresh == mode = "client" => \A t \in Queued : th[t].inst_cnt = 0 /\ Unstarted(t)

TurnInv == Inv /\ Fresh /\ QuantumBounded /\ OnlyXSuspended

\* Whatever configuration is chosen between runs, no quantum has been used.
LEMMA TurnsBetweenRuns ==
  ASSUME Inv, Fresh, mode = "client"
  PROVE  QuantumBounded /\ OnlyXSuspended
<1>1. Active \subseteq Queued
  BY DEF Inv, RunqSound, Active
<1> QED BY <1>1 DEF Fresh, Unstarted, QuantumBounded, OnlyXSuspended

\* A step of the client either panics, or starts the run, or only makes threads
\* of the queue fresh.
LEMMA TurnClient ==
  ASSUME TurnInv, AnyClient
  PROVE  TurnInv'
<1>1. Inv /\ Inv' /\ th \in [Tids -> Thread] /\ Queued \subseteq Tids
  BY AnyClientInv DEF TurnInv, Inv, TypeOK, Queued, Range
<1>2. ASSUME NEW r, Panic(r) PROVE TurnInv'
  BY <1>1, <1>2 DEF TurnInv, Panic, Fresh, QuantumBounded, OnlyXSuspended, IsX, Active,
     Queued, threadVars, runVars
<1>3. ASSUME mode = "client", mode' = "client",
             \A t \in Queued' : \/ t \in Queued /\ th'[t] = th[t]
                                \/ th'[t].inst_cnt = 0 /\ Unstarted(t)'
      PROVE  TurnInv'
  <2>1. Fresh'
    BY <1>3 DEF TurnInv, Fresh, Unstarted
  <2>2. QuantumBounded' /\ OnlyXSuspended'
    <3>1. Active' \subseteq Queued'
      BY <1>1, <1>3 DEF Inv, RunqSound, Active
    <3> QED BY <1>3, <2>1, <3>1 DEF Fresh, Unstarted, QuantumBounded, OnlyXSuspended
  <2> QED BY <1>1, <2>1, <2>2 DEF TurnInv
<1>4. CASE RunThreads
  <2>1. th' = th /\ config' = config /\ mode' = "user" /\ Active' = Active
    BY <1>1, <1>4, RunThreadsActive, StartEffect DEF RunThreads
  <2>2. Queued' \subseteq Queued
    BY <1>1, <1>4, PopSeq DEF Inv, TypeOK, RunqSound, RunThreads, Queued
  <2> QED BY <1>1, <2>1, <2>2 DEF TurnInv, Fresh, QuantumBounded, OnlyXSuspended, IsX
<1>5. ASSUME NEW f, NEW h, NEW base, NEW nbytes, ForkStack(f, h, base, nbytes) PROVE TurnInv'
  <2>1. /\ ntids \in 1..MaxThreads /\ ntids \notin Tids /\ Tids' = Tids \cup {ntids}
        /\ Tids' = 1..ntids
    <3>1. ntids \in 1..MaxThreads /\ ntids \notin Tids /\ Tids' = Tids \cup {ntids}
      BY <1>1, <1>5, ForkActive
    <3>2. ntids' - 1 = ntids
      BY <1>5, <3>1 DEF ForkStack
    <3> QED BY <3>1, <3>2 DEF Tids
  <2>2. /\ \A t \in Tids : th'[t] = th[t]
        /\ th'[ntids] = NewThread(f, h, base, nbytes)
    BY <1>5, <2>1 DEF ForkStack
  <2>3. Queued' \subseteq Queued \cup {ntids}
    <3>1. runq \in Seq(Tids')
      BY <1>1, <2>1 DEF Inv, TypeOK
    <3> QED BY <1>5, <2>1, <3>1, PushSeq DEF ForkStack, Queued
  <2>4. mode = "client" /\ mode' = "client"
    BY <1>5 DEF ForkStack
  <2>5. ASSUME NEW t, t = ntids PROVE th'[t].inst_cnt = 0 /\ Unstarted(t)'
    BY <2>2, <2>5 DEF NewThread, Unstarted
  <2>6. \A t \in Queued' : t \in Queued \/ t = ntids
    BY <2>3
  <2> QED BY <1>1, <1>3, <2>2, <2>4, <2>5, <2>6
<1>6. ASSUME NEW t \in Tids, Refork(t) PROVE TurnInv'
  <2>1. /\ \A s \in Tids \ {t} : th'[s] = th[s]
        /\ th'[t].inst_cnt = 0 /\ Unstarted(t)'
    <3>1. th[t] \in Thread
      BY <1>1
    <3> QED BY <1>1, <1>6, <3>1 DEF Refork, Restarted, Thread, Unstarted
  <2>2. Queued' \subseteq Queued \cup {t}
    BY <1>1, <1>6, PushSeq DEF Inv, TypeOK, Refork, Queued
  <2>3. mode = "client" /\ mode' = "client"
    BY <1>6 DEF Refork
  <2> QED BY <1>1, <1>3, <2>1, <2>2, <2>3
<1>7. CASE UNCHANGED <<th, runq, mode>> /\ mode = "client"
  BY <1>3, <1>7 DEF Queued
<1> QED BY <1>2, <1>4, <1>5, <1>6, <1>7
        DEF AnyClient, EqxInit, RunThreadsPanics, SetSchedulerConfig, Fork, ForkNostack,
            ReforkAsserts, threadVars

LEMMA TurnHandler ==
  ASSUME TurnInv, SingleStep \/ SysPutc
  PROVE  TurnInv'
<1>1. /\ Inv /\ Inv' /\ mode = "user" /\ cur \in Tids /\ cur \in Active
      /\ \E T \in [Tids -> Thread] : Schedule(T) /\ \A t \in Tids \ {cur} : T[t] = th[t]
  BY SingleStepInv, SysPutcInv, HandlerSchedules DEF TurnInv
<1>2. PICK T \in [Tids -> Thread] : Schedule(T) /\ \A t \in Tids \ {cur} : T[t] = th[t]
  BY <1>1
<1>3. /\ config' = config /\ mode' = "user" /\ Active' = Active
      /\ \A t \in Tids \ {cur} : th'[t] = th[t]
      /\ th'[cur].inst_cnt = IF QuantumUsed(T) THEN 0 ELSE T[cur].inst_cnt
      /\ th'[cur].regs = T[cur].regs
  <2>1. config' = config /\ mode' = "user"
    BY <1>2 DEF Schedule, RunOneInst
  <2>2. Active' = Active
    BY <1>1, <1>2, ScheduleStutters DEF B!batchVars
  <2> QED BY <1>1, <1>2, <2>1, <2>2, ScheduleThreads, ScheduleEffect
<1>4. Active \subseteq Tids /\ Queued \subseteq Tids /\ cur \notin Queued
  BY <1>1 DEF Inv, TypeOK, RunqSound, Active, Queued, Range
<1>5. QuantumBounded'
  <2> SUFFICES ASSUME config.type = "EVERY_X", NEW t \in Active, ~IsX(t)
               PROVE  th'[t].inst_cnt = 0 \/ th'[t].inst_cnt < config.switch_on_inst_n
    BY <1>3 DEF QuantumBounded, IsX
  <2>1. CASE t = cur
    <3>1. T[cur].inst_cnt \in Nat /\ config.switch_on_inst_n \in Nat
      BY <1>1, <1>2 DEF Inv, TypeOK, Thread, SchedulerConfig
    <3>2. QuantumUsed(T) \/ T[cur].inst_cnt < config.switch_on_inst_n
      BY <2>1, <3>1 DEF QuantumUsed
    <3> QED BY <1>3, <2>1, <3>2
  <2>2. CASE t # cur
    BY <1>3, <1>4, <2>2 DEF TurnInv, QuantumBounded
  <2> QED BY <2>1, <2>2
<1>6. OnlyXSuspended'
  <2> SUFFICES ASSUME config.type \in {"SEQUENTIAL", "ALL_PATHS"}, NEW t \in Queued', ~IsX(t)
               PROVE  th'[t].regs = EntryRegs(th'[t].fn, th'[t].stack_end)
    BY <1>3 DEF OnlyXSuspended, IsX
  <2>1. t \in Queued
    <3>1. CASE Queued' = Queued
      BY <3>1
    <3>2. CASE /\ \E usec \in Ticks : Switches(T, usec)
               /\ Queued' = (Queued \ {cur'}) \cup {cur}
      <4>1. XYields(T)
        BY <3>2 DEF Switches, QuantumUsed
      <4> QED BY <3>2, <4>1 DEF XYields
    <3> QED BY <1>1, <1>2, <3>1, <3>2, ScheduleQueue
  <2> QED BY <1>3, <1>4, <2>1 DEF TurnInv, OnlyXSuspended
<1> QED BY <1>1, <1>3, <1>5, <1>6 DEF TurnInv, Fresh

LEMMA TurnExit ==
  ASSUME TurnInv, SysExit
  PROVE  TurnInv'
<1>1. /\ Inv /\ Inv' /\ cur \in Tids /\ cur \notin Queued /\ Queued \subseteq Tids
      /\ \A t \in Tids \ {cur} : th'[t] = th[t]
      /\ Active' = Active \ {cur} /\ Active \subseteq Tids
  <2>1. Inv
    BY DEF TurnInv
  <2>2. Inv' /\ \A t \in Tids \ {cur} : th'[t] = th[t]
    BY <2>1, SysExitInv, ExitEffect
  <2>3. Active' = Active \ {cur}
    BY <2>1, ExitActive
  <2>4. cur \in Tids /\ cur \notin Queued /\ Queued \subseteq Tids /\ Active \subseteq Tids
    BY <2>1 DEF Inv, TypeOK, RunqSound, SysExit, AtSwi, Queued, Range, Active
  <2> QED BY <2>1, <2>2, <2>3, <2>4
<1>2. Queued' \subseteq Queued
  <2>1. runq' = runq \/ (runq # <<>> /\ runq' = Tail(runq))
    BY DEF SysExit
  <2> QED BY <1>1, <2>1, PopSeq DEF Inv, TypeOK, RunqSound, Queued
<1>3. config' = config /\ mode' # "client"
  BY DEF SysExit, RunOneInst
<1> QED BY <1>1, <1>2, <1>3 DEF TurnInv, Fresh, QuantumBounded, OnlyXSuspended, IsX

LEMMA TurnAnyStep == TurnInv /\ [AnyNext]_vars => TurnInv'
<1> SUFFICES ASSUME TurnInv, [AnyNext]_vars PROVE TurnInv'
  OBVIOUS
<1>1. Inv /\ Inv'
  BY AnyStepInv DEF TurnInv
<1>2. CASE UserInst \/ SyscallPanics \/ UNCHANGED vars
  <2>1. UNCHANGED <<th, runq, cur, config>> /\ (mode' = mode \/ mode' # "client")
    BY <1>2 DEF UserInst, SyscallPanics, Panic, vars, threadVars, runVars
  <2> QED BY <1>1, <2>1
      DEF TurnInv, Fresh, Unstarted, QuantumBounded, OnlyXSuspended, IsX, Active, Queued
<1>3. CASE RunThreadsReturn
  <2>1. Queued' = {} /\ Active' = {}
    <3>1. runq' = <<>> /\ cur' = 0
      BY <1>1, <1>3 DEF RunThreadsReturn, Inv, RunqSound
    <3>2. DOMAIN runq' = {}
      BY <3>1, EmptySeq
    <3> QED BY <3>1, <3>2 DEF Queued, Range, Active
  <2> QED BY <1>1, <2>1 DEF TurnInv, Fresh, QuantumBounded, OnlyXSuspended
<1> QED BY <1>2, <1>3, TurnClient, TurnHandler, TurnExit DEF AnyNext, Machine

LEMMA TurnStep == TurnInv /\ [Next]_vars => TurnInv'
BY TurnAnyStep, NextIsAny DEF TurnInv

LEMMA TurnInit == Init => TurnInv
<1> SUFFICES ASSUME Init PROVE TurnInv
  OBVIOUS
<1>1. Queued = {}
  <2>1. DOMAIN runq = {}
    BY EmptySeq DEF Init
  <2> QED BY <2>1 DEF Queued, Range
<1>2. Inv /\ Fresh /\ mode = "client"
  BY <1>1, InitInv DEF Init, Fresh
<1> QED BY <1>2, TurnsBetweenRuns DEF TurnInv

\* With EVERY_X no thread but X runs more than its n instructions in one turn
\* (eqx-threads.c:296-301).
THEOREM QuantumIsBounded == Spec => []QuantumBounded
<1>1. TurnInv => QuantumBounded
  BY DEF TurnInv
<1> QED BY <1>1, TurnInit, TurnStep, PTL DEF Spec

\* With SEQUENTIAL no thread but X is ever suspended half-way
\* (eqx-threads.c:266-283).
THEOREM OthersRunWhole == Spec => []OnlyXSuspended
<1>1. TurnInv => OnlyXSuspended
  BY DEF TurnInv
<1> QED BY <1>1, TurnInit, TurnStep, PTL DEF Spec
-----------------------------------------------------------------------------
(* ROUND_ROBIN: the threads wait in the order of the turns they have had.   *)

\* c runs and q waits: nobody waits who has had less turns than one before
\* him, or two more than the one who runs.
InLine(f, c, q) ==
    /\ \A i \in 1..Len(q) : f[c] <= f[q[i]] /\ f[q[i]] <= f[c] + 1
    /\ \A i, j \in 1..Len(q) : i < j => f[q[i]] <= f[q[j]]

\* The turns that are over.
Done == [t \in Tids |-> th[t].cumulative_inst_cnt + calls[t]]

RoundRobin == config.type = "ROUND_ROBIN" /\ ~config.enable_interleave

LineInv ==
    /\ Inv
    /\ mode = "client" => \A t \in Queued : Done[t] = 0
    /\ mode = "user" /\ RoundRobin => InLine(Done, cur, runq)

LEMMA LineRotates ==
  ASSUME NEW D, NEW f \in [D -> Nat], NEW g \in [D -> Nat], NEW c \in D, NEW q \in Seq(D),
         q # <<>>, c \notin Range(q), InLine(f, c, q),
         g[c] = f[c] + 1, \A t \in D \ {c} : g[t] = f[t]
  PROVE  InLine(g, Head(q), Append(Tail(q), c))
<1> DEFINE n == Len(q)
           r == Append(Tail(q), c)
<1>1. /\ n \in Nat \ {0} /\ Head(q) = q[1] /\ Len(r) = n /\ r[n] = c
      /\ \A i \in 1..(n - 1) : r[i] = q[i + 1]
  BY EmptySeq
<1>2. \A i \in 1..n : q[i] \in D /\ q[i] # c /\ g[q[i]] = f[q[i]] /\ f[q[i]] \in Nat
  BY DEF Range
<1>3. f[c] \in Nat
  OBVIOUS
<1>4. \A i \in 1..n : f[c] <= f[q[i]] /\ f[q[i]] <= f[c] + 1
  BY DEF InLine
<1>5. \A i, j \in 1..n : i < j => f[q[i]] <= f[q[j]]
  BY DEF InLine
<1> HIDE DEF r
<1>6. ASSUME NEW i \in 1..n
      PROVE  g[q[1]] <= g[r[i]] /\ g[r[i]] <= g[q[1]] + 1 /\ g[r[i]] <= g[c]
  <2>1. CASE i = n
    BY <1>1, <1>2, <1>3, <1>4, <2>1
  <2>2. CASE i # n
    <3>1. i \in 1..(n - 1) /\ i + 1 \in 1..n /\ 1 \in 1..n /\ 1 < i + 1
      BY <1>1, <2>2
    <3>2. r[i] = q[i + 1]
      BY <1>1, <3>1
    <3> QED BY <1>2, <1>3, <1>4, <1>5, <3>1, <3>2
  <2> QED BY <2>1, <2>2
<1>7. ASSUME NEW i \in 1..n, NEW j \in 1..n, i < j PROVE g[r[i]] <= g[r[j]]
  <2>1. CASE j = n
    BY <1>1, <1>6, <2>1
  <2>2. CASE j # n
    <3>1. /\ i \in 1..(n - 1) /\ j \in 1..(n - 1)
          /\ i + 1 \in 1..n /\ j + 1 \in 1..n /\ i + 1 < j + 1
      BY <1>1, <1>7, <2>2
    <3>2. r[i] = q[i + 1] /\ r[j] = q[j + 1]
      BY <1>1, <3>1
    <3>3. f[q[i + 1]] <= f[q[j + 1]]
      BY <1>5, <3>1
    <3> QED BY <1>2, <3>1, <3>2, <3>3
  <2> QED BY <2>1, <2>2
<1> QED BY <1>1, <1>6, <1>7 DEF InLine, r

LEMMA LineAdvances ==
  ASSUME NEW D, NEW f \in [D -> Nat], NEW c \in D, NEW q \in Seq(D), q # <<>>,
         InLine(f, c, q)
  PROVE  InLine(f, Head(q), Tail(q))
<1> DEFINE n == Len(q)
           r == Tail(q)
<1>1. /\ n \in Nat \ {0} /\ Head(q) = q[1] /\ Len(r) = n - 1
      /\ \A i \in 1..(n - 1) : r[i] = q[i + 1]
  BY EmptySeq
<1>2. \A i \in 1..n : q[i] \in D /\ f[q[i]] \in Nat
  OBVIOUS
<1>3. \A i \in 1..n : f[c] <= f[q[i]] /\ f[q[i]] <= f[c] + 1
  BY DEF InLine
<1>4. \A i, j \in 1..n : i < j => f[q[i]] <= f[q[j]]
  BY DEF InLine
<1> HIDE DEF r
<1>5. ASSUME NEW i \in 1..(n - 1)
      PROVE  f[q[1]] <= f[r[i]] /\ f[r[i]] <= f[q[1]] + 1
  <2>1. i + 1 \in 1..n /\ 1 \in 1..n /\ 1 < i + 1 /\ r[i] = q[i + 1] /\ f[c] \in Nat
    BY <1>1
  <2> QED BY <1>2, <1>3, <1>4, <2>1
<1>6. ASSUME NEW i \in 1..(n - 1), NEW j \in 1..(n - 1), i < j PROVE f[r[i]] <= f[r[j]]
  <2>1. i + 1 \in 1..n /\ j + 1 \in 1..n /\ i + 1 < j + 1
    BY <1>1, <1>6
  <2> QED BY <1>1, <1>4, <2>1
<1> QED BY <1>1, <1>5, <1>6 DEF InLine, r

LEMMA DoneType == ASSUME Inv PROVE Done \in [Tids -> Nat]
<1> SUFFICES ASSUME NEW t \in Tids PROVE th[t].cumulative_inst_cnt + calls[t] \in Nat
  BY DEF Done
<1>1. th[t].cumulative_inst_cnt \in Nat /\ calls[t] \in Nat
  BY TidsType DEF Inv, TypeOK, Thread
<1> QED BY <1>1

LEMMA LineHandler ==
  ASSUME LineInv, SingleStep \/ SysPutc
  PROVE  LineInv'
<1>1. /\ Inv /\ Inv' /\ mode = "user" /\ mode' = "user" /\ cur \in Tids /\ cur \notin Queued
      /\ runq \in Seq(Tids) /\ Tids' = Tids /\ config' = config
      /\ cur \in 1..MaxThreads
  <2>1. Inv /\ Inv' /\ mode = "user" /\ cur \in Tids
    BY SingleStepInv, SysPutcInv, HandlerSchedules DEF LineInv
  <2>2. Tids' = Tids /\ config' = config
    BY <2>1, MachineFrame DEF Machine
  <2>3. mode' = "user"
    BY DEF SingleStep, SysPutc, Schedule, RunOneInst
  <2> QED BY <2>1, <2>2, <2>3, TidsType DEF Inv, TypeOK, RunqSound
<1>2. PICK T \in [Tids -> Thread] :
              /\ Schedule(T)
              /\ \A t \in Tids \ {cur} : T[t] = th[t]
              /\ T[cur].cumulative_inst_cnt =
                   th[cur].cumulative_inst_cnt + (IF SingleStep THEN 1 ELSE 0)
  BY <1>1, HandlerSchedules
<1>3. /\ \A t \in Tids \ {cur} : th'[t] = th[t]
      /\ th'[cur].cumulative_inst_cnt =
           th[cur].cumulative_inst_cnt + (IF SingleStep THEN 1 ELSE 0)
  BY <1>1, <1>2, ScheduleThreads, ScheduleEffect
<1>4. /\ Done \in [Tids -> Nat] /\ Done' \in [Tids -> Nat]
      /\ Done'[cur] = Done[cur] + 1 /\ \A t \in Tids \ {cur} : Done'[t] = Done[t]
  <2>1. Done \in [Tids -> Nat] /\ Done' \in [Tids -> Nat]
    <3>1. \A t \in Tids : th'[t].cumulative_inst_cnt \in Nat /\ calls'[t] \in Nat
      BY <1>1, TidsType DEF Inv, TypeOK, Thread
    <3> QED BY <1>1, <3>1, DoneType DEF Done
  <2>2. /\ calls'[cur] = calls[cur] + (IF SingleStep THEN 0 ELSE 1)
        /\ \A t \in Tids \ {cur} : calls'[t] = calls[t]
    <3>1. CASE SingleStep
      BY <1>1, <3>1, TidsType DEF SingleStep, Inv, TypeOK
    <3>2. CASE SysPutc
      <4>1. ~SingleStep
        BY <3>2 DEF SingleStep, SysPutc, AtSwi
      <4> QED BY <1>1, <3>2, <4>1 DEF SysPutc, Inv, TypeOK
    <3> QED BY <3>1, <3>2
  <2>3. th[cur].cumulative_inst_cnt \in Nat /\ calls[cur] \in Nat
    BY <1>1 DEF Inv, TypeOK, Thread
  <2>4. \A t \in Tids : /\ Done[t] = th[t].cumulative_inst_cnt + calls[t]
                       /\ Done'[t] = th'[t].cumulative_inst_cnt + calls'[t]
    BY <1>1 DEF Done
  <2>5. Done'[cur] = Done[cur] + 1
    <3>1. th'[cur].cumulative_inst_cnt + calls'[cur] =
             th[cur].cumulative_inst_cnt + calls[cur] + 1
      BY <1>3, <2>2, <2>3
    <3> QED BY <1>1, <2>4, <3>1
  <2>6. \A t \in Tids \ {cur} : Done'[t] = Done[t]
    BY <1>3, <2>2, <2>4
  <2> QED BY <2>1, <2>5, <2>6
<1>5. ASSUME RoundRobin PROVE InLine(Done', cur', runq')
  <2>1. CASE runq = <<>>
    <3>1. runq' = <<>>
      BY <1>1, <1>2, <2>1, ScheduleQueue
    <3>2. Len(runq') = 0
      BY <3>1, EmptySeq
    <3> QED BY <3>2 DEF InLine
  <2>2. CASE runq # <<>>
    <3>1. \E usec \in Ticks : cur' = Head(runq) /\ runq' = Rotated
      BY <1>2, <1>5, <2>2 DEF Schedule, Switches, RoundRobin, IsX
    <3>2. cur' = Head(runq) /\ runq' = Append(Tail(runq), cur)
      BY <3>1 DEF Rotated
    <3>3. InLine(Done, cur, runq) /\ cur \notin Range(runq)
      BY <1>1, <1>5 DEF LineInv, Queued
    <3> QED BY <1>1, <1>4, <2>2, <3>2, <3>3, LineRotates
  <2> QED BY <2>1, <2>2
<1> QED BY <1>1, <1>5 DEF LineInv, RoundRobin

LEMMA LineExit ==
  ASSUME LineInv, SysExit
  PROVE  LineInv'
<1>1. /\ Inv /\ Inv' /\ Tids' = Tids /\ cur \in Tids /\ runq \in Seq(Tids)
      /\ config' = config /\ mode = "user" /\ calls' = calls
  BY SysExitInv, ExitEffect DEF LineInv, SysExit, AtSwi, Inv, TypeOK
<1>2. Done' = Done
  <2>1. \A t \in Tids : th'[t].cumulative_inst_cnt = th[t].cumulative_inst_cnt
    BY <1>1 DEF SysExit, Inv, TypeOK, Thread
  <2> QED BY <1>1, <2>1 DEF Done
<1>3. mode' # "client" /\ (mode' = "user" => runq # <<>> /\ cur' = Head(runq) /\ runq' = Tail(runq))
  BY DEF SysExit, RunOneInst
<1> QED BY <1>1, <1>2, <1>3, LineAdvances, DoneType DEF LineInv, RoundRobin

LEMMA LineClient ==
  ASSUME LineInv, Client
  PROVE  LineInv'
<1>1. Inv /\ Inv' /\ th \in [Tids -> Thread] /\ Queued \subseteq Tids /\ mode = "client"
  <2>1. mode = "client"
    BY DEF Client, EqxInit, RunThreads, RunThreadsPanics, SetSchedulerConfig, Fork, ForkNostack,
       ForkStack, Refork, ReforkAsserts
  <2> QED BY <2>1, ClientInv DEF LineInv, Inv, TypeOK, Queued, Range
<1>2. ASSUME NEW r, Panic(r) PROVE LineInv'
  BY <1>1, <1>2 DEF LineInv, Panic
<1>3. ASSUME mode' = "client",
             \A t \in Queued' : \/ t \in Queued /\ Done'[t] = Done[t]
                                \/ Done'[t] = 0
      PROVE  LineInv'
  BY <1>1, <1>3 DEF LineInv
<1>4. CASE RunThreads
  <2>1. Done' = Done /\ mode' = "user" /\ cur' = Head(runq) /\ runq' = Tail(runq)
    BY <1>4 DEF RunThreads, RunOneInst, threadVars, Done, Tids
  <2>2. cur' \in Queued /\ Queued' \subseteq Queued /\ runq' \in Seq(Tids)
    BY <1>1, <1>4, PopSeq DEF Inv, TypeOK, RunqSound, RunThreads, Queued
  <2>3. \A i \in 1..Len(runq') : runq'[i] \in Queued'
    BY <2>2 DEF Queued, Range
  <2>4. Done[cur'] = 0 /\ \A i \in 1..Len(runq') : Done[runq'[i]] = 0
    BY <1>1, <2>2, <2>3 DEF LineInv
  <2>5. InLine(Done', cur', runq')
    BY <2>1, <2>4 DEF InLine
  <2> QED BY <1>1, <2>1, <2>5 DEF LineInv
<1>5. ASSUME NEW f, NEW h, NEW base, NEW nbytes, ForkStack(f, h, base, nbytes) PROVE LineInv'
  <2>1. ntids \in 1..MaxThreads /\ ntids \notin Tids /\ Tids' = Tids \cup {ntids}
    BY <1>1, <1>5, ForkActive
  <2>2. Tids' = 1..ntids
    <3>1. ntids' - 1 = ntids
      BY <1>5, <2>1 DEF ForkStack
    <3> QED BY <3>1 DEF Tids
  <2>3. \A t \in Tids : Done'[t] = Done[t]
    BY <1>1, <1>5, <2>1, <2>2 DEF ForkStack, Done, Inv, TypeOK
  <2>4. Done'[ntids] = 0
    <3>1. th'[ntids].cumulative_inst_cnt = 0 /\ calls'[ntids] = 0
      BY <1>1, <1>5, <2>1, <2>2 DEF ForkStack, NewThread, Inv, TypeOK
    <3> QED BY <2>1, <3>1 DEF Done
  <2>5. Queued' \subseteq Queued \cup {ntids}
    <3>1. runq \in Seq(Tids')
      BY <1>1, <2>1 DEF Inv, TypeOK
    <3> QED BY <1>5, <2>1, <3>1, PushSeq DEF ForkStack, Queued
  <2>6. mode' = "client"
    BY <1>5 DEF ForkStack
  <2> QED BY <1>1, <1>3, <2>3, <2>4, <2>5, <2>6
<1>6. ASSUME NEW t \in Tids, Refork(t) PROVE LineInv'
  <2>1. /\ \A s \in Tids \ {t} : th'[s] = th[s] /\ calls'[s] = calls[s]
        /\ th'[t].cumulative_inst_cnt = 0 /\ calls'[t] = 0 /\ Tids' = Tids
    BY <1>1, <1>6, TidsType DEF Refork, Restarted, Thread, Inv, TypeOK, Tids
  <2>2. Queued' \subseteq Queued \cup {t}
    BY <1>1, <1>6, PushSeq DEF Inv, TypeOK, Refork, Queued
  <2>3. mode' = "client"
    BY <1>6 DEF Refork
  <2>4. Done'[t] = 0 /\ \A s \in Tids \ {t} : Done'[s] = Done[s]
    BY <2>1 DEF Done
  <2> QED BY <1>1, <1>3, <2>2, <2>3, <2>4
<1>7. CASE UNCHANGED <<th, ntids, calls, runq, mode>>
  BY <1>1, <1>3, <1>7 DEF Queued, Done, Tids
<1> QED BY <1>2, <1>4, <1>5, <1>6, <1>7
        DEF Client, EqxInit, RunThreadsPanics, SetSchedulerConfig, Fork, ForkNostack,
            ReforkAsserts, threadVars

LEMMA LineStep == LineInv /\ [Next]_vars => LineInv'
<1> SUFFICES ASSUME LineInv, [Next]_vars PROVE LineInv'
  OBVIOUS
<1>1. Inv'
  BY StepInv DEF LineInv
<1>2. CASE UserInst \/ SyscallPanics \/ UNCHANGED vars
  <2>1. /\ UNCHANGED <<th, ntids, calls, runq, cur, config>>
        /\ mode' = mode \/ mode' = "panic"
    BY <1>2 DEF UserInst, SyscallPanics, Panic, vars, threadVars, runVars
  <2>2. Done' = Done /\ Queued' = Queued
    BY <2>1 DEF Done, Queued, Tids
  <2> QED BY <1>1, <2>1, <2>2 DEF LineInv, RoundRobin
<1>3. CASE RunThreadsReturn
  <2>1. runq' = <<>> /\ mode' # "user"
    BY <1>3 DEF RunThreadsReturn, LineInv, Inv, RunqSound
  <2>2. DOMAIN runq' = {}
    BY <2>1, EmptySeq
  <2> QED BY <1>1, <2>1, <2>2 DEF LineInv, Queued, Range
<1> QED BY <1>2, <1>3, LineClient, LineHandler, LineExit DEF Next, Machine

LEMMA LineInit == Init => LineInv
<1> SUFFICES ASSUME Init PROVE LineInv
  OBVIOUS
<1>1. DOMAIN runq = {}
  BY EmptySeq DEF Init
<1>2. Queued = {} /\ mode = "client"
  BY <1>1 DEF Queued, Range, Init
<1> QED BY <1>2, InitInv DEF LineInv

\* With ROUND_ROBIN and no X, no thread has had more than one turn more than
\* another one that still runs (eqx-threads.c:291-293, 308-322, 526).
THEOREM RoundsAreFair == NoSelfBranch => (Spec => []RoundRobinBalanced)
<1> SUFFICES ASSUME NoSelfBranch PROVE Spec => []RoundRobinBalanced
  OBVIOUS
<1>1. StepInvariant /\ [Next]_vars => StepInvariant'
  BY StepInvariantStep
<1>2. StepInvariant /\ LineInv => RoundRobinBalanced
  <2> SUFFICES ASSUME StepInvariant, LineInv, RoundRobin, mode = "user",
                      NEW s \in Active, NEW t \in Active
               PROVE  Turns(s) - Turns(t) <= 1
    BY DEF RoundRobinBalanced, RoundRobin
  <2>1. /\ Done \in [Tids -> Nat] /\ runq \in Seq(Tids) /\ cur \in Tids
        /\ InLine(Done, cur, runq)
    BY DoneType, TidsType DEF LineInv, Inv, TypeOK, RunqSound
  <2>2. ASSUME NEW u \in Active
        PROVE  /\ u \in Tids
               /\ u # cur => \E i \in 1..Len(runq) : u = runq[i]
    <3>1. u = cur \/ u \in Range(runq)
      BY DEF Active, Queued
    <3> QED BY <2>1, <3>1 DEF Range
  <2>3. ASSUME NEW u \in Active
        PROVE  Turns(u) = Done[u] + (IF FaultPending(u) THEN 1 ELSE 0)
    <3>1. /\ u \in Tids
          /\ executed[u] = th[u].cumulative_inst_cnt + (IF FaultPending(u) THEN 1 ELSE 0)
      BY <2>2 DEF StepInvariant, CountsEveryInstruction
    <3>2. th[u].cumulative_inst_cnt \in Nat /\ calls[u] \in Nat
      BY <3>1, TidsType DEF LineInv, Inv, TypeOK, Thread
    <3> QED BY <3>1, <3>2 DEF Turns, Done
  <2>4. ASSUME NEW u \in Active
        PROVE  Done[u] \in Nat /\ Done[cur] <= Done[u] /\ Done[u] <= Done[cur] + 1
    <3>1. Done[u] \in Nat /\ Done[cur] \in Nat
      BY <2>1, <2>2
    <3>2. CASE u = cur
      BY <3>1, <3>2
    <3>3. CASE u # cur
      <4>1. PICK i \in 1..Len(runq) : u = runq[i]
        BY <2>2, <3>3
      <4> QED BY <2>1, <3>1, <4>1 DEF InLine
    <3> QED BY <3>2, <3>3
  <2>5. Done[cur] \in Nat /\ (FaultPending(s) => s = cur)
    BY <2>1 DEF FaultPending
  <2>6. Turns(s) <= Done[cur] + 1 /\ Turns(t) >= Done[cur]
    BY <2>3, <2>4, <2>5
  <2> QED BY <2>3, <2>4, <2>5, <2>6
<1> QED BY <1>1, <1>2, StepInvariantInit, LineInit, LineStep, PTL DEF Spec
-----------------------------------------------------------------------------
(* What a checker knows of a run of the threads S, while it lasts and when *)
(* it has returned.                                                        *)

Ran(S) ==
    /\ RunResult
    /\ Active \cup finished = S
    /\ mode = "client" => Active = {}

LEMMA RanStart ==
  ASSUME Inv, RunThreads
  PROVE  Ran(Active)'
<1>1. RunResult' /\ Active' \cup finished' = Active' /\ mode' = "user"
  BY RunThreadsResult DEF RunThreads, RunOneInst
<1> QED BY <1>1 DEF Ran

LEMMA RanStep ==
  ASSUME Inv, Machine, NEW S, Ran(S)
  PROVE  (Active \cup finished = S)' /\ RunResult' /\ (mode' = "client" => Active' = {})
<1>1. RunResult' /\ Active' \cup finished' = S
  BY MachineResult, MachineFrame DEF Ran
<1>2. ASSUME mode' = "client" PROVE Active' = {}
  <2>1. RunThreadsReturn
    BY <1>2 DEF Machine, UserInst, SingleStep, SysPutc, SysExit, SyscallPanics, Schedule,
       RunOneInst, Panic, AtSwi
  <2>2. runq' = <<>> /\ cur' = 0
    BY <2>1 DEF RunThreadsReturn, Inv, RunqSound
  <2>3. DOMAIN runq' = {}
    BY <2>2, EmptySeq
  <2> QED BY <2>2, <2>3 DEF Active, Queued, Range
<1> QED BY <1>1, <1>2

ExpectedSum(S) == SumFunction([t \in S |-> th[t].expected_hash])

\* When it has returned, every thread of S has the hash it was expected to have,
\* and these hashes add up to the result.
LEMMA RanDone ==
  ASSUME Inv, NEW S, Ran(S), mode = "client"
  PROVE  /\ finished = S
         /\ \A t \in S : th[t].reg_hash = th[t].expected_hash
         /\ exit_hash = ExpectedSum(S) % Word
<1>1. finished = S /\ \A t \in S : th[t].reg_hash = th[t].expected_hash
  BY DEF Ran, RunResult
<1>2. FinalHashes = [t \in S |-> th[t].expected_hash]
  BY <1>1 DEF FinalHashes
<1> QED BY <1>1, <1>2 DEF Ran, RunResult, ExpectedSum

-----------------------------------------------------------------------------
(* What becomes of thread X.  Up to its n-th instruction it has the CPU;   *)
(* there it is preempted, once or more; a shorter X is found to complete.  *)

XCount == th[config.interleave_tid].cumulative_inst_cnt

XKnown ==
    /\ config.enable_interleave
    /\ config.interleave_tid \in Tids /\ config.switch_on_inst_n # 0
    /\ config.interleave_tid \in Active =>
         /\ ~complete_x_before_switch
         /\ thread_x_has_yielded => XCount >= config.switch_on_inst_n
         /\ ~thread_x_has_yielded =>
              cur = config.interleave_tid /\ XCount < config.switch_on_inst_n /\ runq # <<>>
    /\ config.interleave_tid \notin Active =>
         /\ thread_x_has_yielded
         /\ complete_x_before_switch <=> XCount < config.switch_on_inst_n

\* X has the CPU and is put back into the queue.
XPreempted ==
    /\ cur = config.interleave_tid /\ cur' # cur
    /\ config.interleave_tid \in Queued'

LEMMA XKnownStart ==
  ASSUME Inv, RunThreads, config.enable_interleave, config.switch_on_inst_n # 0,
         Head(runq) = config.interleave_tid, Tail(runq) # <<>>,
         ~complete_x_before_switch, ~thread_x_has_yielded, XCount = 0
  PROVE  XKnown'
<1>1. /\ cur' = config.interleave_tid /\ cur' \in Active' /\ cur' \in Tids /\ Tids' = Tids
      /\ UNCHANGED <<th, config, flagVars>> /\ runq' # <<>>
  BY StartEffect, RunThreadsActive DEF RunThreads
<1>2. config.switch_on_inst_n \in Nat
  BY DEF Inv, TypeOK, SchedulerConfig
<1>3. 0 < config.switch_on_inst_n
  BY <1>2
<1> QED BY <1>1, <1>3 DEF XKnown, XCount, flagVars

LEMMA XKnownHandler ==
  ASSUME Inv, XKnown, SingleStep \/ SysPutc
  PROVE  /\ XKnown' /\ XCount' >= XCount
         /\ XPreempted => XCount' = config.switch_on_inst_n
         /\ XCount < config.switch_on_inst_n /\ XCount' >= config.switch_on_inst_n => XPreempted
<1> DEFINE X == config.interleave_tid
           n == config.switch_on_inst_n
<1>1. /\ mode = "user" /\ cur \in Tids /\ cur \in Active
      /\ \E T \in [Tids -> Thread] :
           /\ Schedule(T)
           /\ \A t \in Tids \ {cur} : T[t] = th[t]
           /\ T[cur].cumulative_inst_cnt =
                th[cur].cumulative_inst_cnt + (IF SingleStep THEN 1 ELSE 0)
  BY HandlerSchedules
<1>2. PICK T \in [Tids -> Thread] :
           /\ Schedule(T)
           /\ \A t \in Tids \ {cur} : T[t] = th[t]
           /\ T[cur].cumulative_inst_cnt =
                th[cur].cumulative_inst_cnt + (IF SingleStep THEN 1 ELSE 0)
  BY <1>1
<1>3. /\ config' = config /\ Active' = Active /\ Tids' = Tids /\ cur \notin Queued
      /\ complete_x_before_switch' <=> complete_x_before_switch
      /\ thread_x_has_yielded' <=> (thread_x_has_yielded \/ XYields(T))
      /\ \A t \in Tids : th'[t].cumulative_inst_cnt = T[t].cumulative_inst_cnt
  <2>1. /\ config' = config /\ complete_x_before_switch' = complete_x_before_switch
        /\ thread_x_has_yielded' = (thread_x_has_yielded \/ XYields(T))
    BY <1>2 DEF Schedule
  <2>2. Active' = Active
    BY <1>1, <1>2, ScheduleStutters DEF B!batchVars
  <2>3. Tids' = Tids /\ \A t \in Tids : th'[t].cumulative_inst_cnt = T[t].cumulative_inst_cnt
    BY <1>1, <1>2, ScheduleEffect
  <2> QED BY <2>1, <2>2, <2>3 DEF Inv, RunqSound
<1>4. X \in Tids /\ config.enable_interleave /\ n \in Nat /\ n # 0
      /\ XCount \in Nat /\ XCount' = T[X].cumulative_inst_cnt
  BY <1>3 DEF XKnown, XCount, Inv, TypeOK, Thread, SchedulerConfig
<1>5. CASE cur # X
  <2>1. XCount' = XCount /\ ~XYields(T) /\ ~XPreempted
    BY <1>2, <1>4, <1>5 DEF XCount, XYields, IsX, XPreempted
  <2>2. XKnown'
    BY <1>3, <1>4, <1>5, <2>1 DEF XKnown
  <2> QED BY <1>4, <2>1, <2>2
<1>6. CASE cur = X
  <2>1. /\ XCount' = XCount + (IF SingleStep THEN 1 ELSE 0)
        /\ XYields(T) <=> XCount' = n
    BY <1>2, <1>4, <1>6 DEF XCount, XYields, IsX
  <2>2. \/ cur' = cur /\ (runq = <<>> => runq' = <<>>) /\ (runq # <<>> => ~XYields(T) /\ runq' = runq)
        \/ XYields(T) /\ cur' # cur /\ cur \in Queued'
    <3>1. (\E usec \in Ticks : Switches(T, usec)) => XYields(T)
      BY <1>4, <1>6 DEF Switches, QuantumUsed, IsX
    <3> QED BY <1>1, <1>2, <3>1, ScheduleQueue
  <2>3. X \in Active /\ ~complete_x_before_switch
    BY <1>1, <1>6 DEF XKnown
  <2>4. CASE thread_x_has_yielded
    <3>1. XCount >= n
      BY <2>3, <2>4 DEF XKnown
    <3>2. XCount' >= n /\ XCount' >= XCount
      BY <1>4, <2>1, <3>1
    <3>3. XPreempted => XCount' = n
      BY <2>1, <2>2 DEF XPreempted
    <3>4. XKnown'
      BY <1>3, <1>4, <2>3, <2>4, <3>2 DEF XKnown
    <3> QED BY <1>4, <3>1, <3>2, <3>3, <3>4
  <2>5. CASE ~thread_x_has_yielded
    <3>1. XCount < n /\ runq # <<>>
      BY <2>3, <2>5 DEF XKnown
    <3>2. XCount' <= n /\ XCount' >= XCount
      BY <1>4, <2>1, <3>1
    <3>3. CASE XCount' = n
      <4>1. XPreempted
        BY <1>6, <2>1, <2>2, <3>1, <3>3 DEF XPreempted
      <4>2. XKnown'
        BY <1>3, <1>4, <2>1, <2>3, <3>2, <3>3 DEF XKnown
      <4> QED BY <3>2, <3>3, <4>1, <4>2
    <3>4. CASE XCount' < n
      <4>1. cur' = cur /\ runq' # <<>> /\ ~XYields(T)
        BY <1>4, <2>1, <2>2, <3>1, <3>4
      <4>2. XKnown'
        BY <1>3, <1>4, <1>6, <2>3, <2>5, <3>4, <4>1 DEF XKnown
      <4>3. ~XPreempted /\ ~(XCount' >= n)
        BY <1>4, <2>1, <3>1, <3>4, <4>1 DEF XPreempted
      <4> QED BY <3>2, <4>2, <4>3
    <3> QED BY <1>4, <2>1, <3>2, <3>3, <3>4
  <2> QED BY <2>4, <2>5
<1> QED BY <1>5, <1>6

LEMMA XKnownExit ==
  ASSUME Inv, XKnown, SysExit
  PROVE  XKnown' /\ XCount' = XCount /\ ~XPreempted
<1> DEFINE X == config.interleave_tid
<1>1. /\ cur \in Tids /\ th[cur] \in Thread /\ Tids' = Tids /\ config' = config
      /\ \A t \in Tids \ {cur} : th'[t] = th[t]
      /\ th \in [Tids -> Thread]
      /\ th' = [th EXCEPT ![cur].regs = trapped, ![cur].expected_hash = th[cur].reg_hash]
      /\ complete_x_before_switch' =
           (complete_x_before_switch \/ (IsX(cur) /\ ~thread_x_has_yielded))
      /\ thread_x_has_yielded' = (thread_x_has_yielded \/ IsX(cur))
  BY ExitEffect DEF SysExit, ExpectsNext, Inv, TypeOK
<1>2. Active' = Active \ {cur} /\ cur \in Active
  BY <1>1, ExitActive, TidsType DEF Active, Inv
<1>3. X \in Tids /\ config.enable_interleave /\ config.switch_on_inst_n \in Nat
  BY DEF XKnown, Inv, TypeOK, SchedulerConfig
<1>4. XCount' = XCount /\ XCount \in Nat
  BY <1>1, <1>3 DEF XCount, Thread
<1>5. ~XPreempted
  <2>1. 0 \notin Queued'
    <3>1. TypeOK'
      BY SysExitInv DEF Inv
    <3>2. 0 \notin Tids'
      BY <3>1, BoundsAssumption DEF TypeOK, Tids
    <3> QED BY <3>1, <3>2 DEF TypeOK, Queued, Range
  <2> QED BY <1>1, <1>2, <2>1 DEF XPreempted, Active
<1>6. CASE cur # X
  BY <1>1, <1>2, <1>3, <1>4, <1>5, <1>6 DEF XKnown, IsX
<1>7. CASE cur = X
  <2>1. X \notin Active' /\ thread_x_has_yielded'
    BY <1>1, <1>2, <1>3, <1>7 DEF IsX
  <2>2. complete_x_before_switch' <=> ~thread_x_has_yielded
    BY <1>1, <1>2, <1>3, <1>7 DEF IsX, XKnown
  <2>3. ~thread_x_has_yielded <=> XCount < config.switch_on_inst_n
    BY <1>2, <1>3, <1>4, <1>7 DEF XKnown
  <2> QED BY <1>1, <1>3, <1>4, <1>5, <2>1, <2>2, <2>3 DEF XKnown
<1> QED BY <1>6, <1>7

\* A run knows of X what its checker concludes from it, and X is preempted just
\* when its count reaches n, or while it stands there.
LEMMA XKnownStep ==
  ASSUME Inv, XKnown, Machine
  PROVE  /\ XKnown' /\ XCount' >= XCount /\ XCount \in Nat /\ XCount' \in Nat
         /\ XPreempted => XCount' = config.switch_on_inst_n
         /\ XCount < config.switch_on_inst_n /\ XCount' >= config.switch_on_inst_n => XPreempted
<1>1. config.switch_on_inst_n \in Nat /\ XCount \in Nat /\ config' = config
  BY MachineFrame DEF XKnown, XCount, Inv, TypeOK, Thread, SchedulerConfig
<1>2. CASE UserInst \/ SyscallPanics
  <2>1. UNCHANGED <<th, ntids, runq, cur, config, flagVars>>
    BY <1>2 DEF UserInst, SyscallPanics, Panic, threadVars, runVars
  <2> QED BY <1>1, <2>1 DEF XKnown, XCount, XPreempted, Active, Queued, Tids, flagVars
<1>3. CASE RunThreadsReturn
  <2>1. UNCHANGED <<th, ntids, runq, cur, config, flagVars>>
    BY <1>3 DEF RunThreadsReturn, threadVars, flagVars, Inv, RunqSound
  <2> QED BY <1>1, <2>1 DEF XKnown, XCount, XPreempted, Active, Queued, Tids, flagVars
<1>4. CASE SysExit
  BY <1>1, <1>4, XKnownExit
<1>5. CASE SingleStep \/ SysPutc
  <2>1. Inv'
    BY <1>5, MachineInv DEF Machine
  <2>2. XKnown'
    BY <1>5, XKnownHandler
  <2>3. XCount' \in Nat
    BY <2>1, <2>2 DEF XKnown, XCount, Inv, TypeOK, Thread
  <2> QED BY <1>1, <1>5, <2>3, XKnownHandler
<1> QED BY <1>2, <1>3, <1>4, <1>5 DEF Machine

-----------------------------------------------------------------------------
(* The calls of a checker.                                                 *)

\* A call of eqx_run_threads.
LEMMA RunCall ==
  ASSUME Inv, RunThreads \/ RunThreadsPanics
  PROVE  /\ Client
         /\ \/ mode' = "panic"
            \/ /\ RunThreads /\ mode' = "user" /\ UNCHANGED <<th, ntids, config>>
               /\ Tids' = Tids /\ Ran(Active)' /\ Active' = Active
<1>1. CASE RunThreads
  BY <1>1, RanStart, RunThreadsActive, StartEffect DEF Client, RunThreads, threadVars
<1>2. CASE RunThreadsPanics
  BY <1>2 DEF Client, RunThreadsPanics, Panic
<1> QED BY <1>1, <1>2

\* A call of eqx_refork for a thread that has exited.
LEMMA ReforkStep ==
  ASSUME Inv, NEW t \in Tids, t \notin Active, Refork(t) \/ ReforkAsserts(t)
  PROVE  /\ Client
         /\ \/ mode' = "panic"
            \/ /\ Refork(t) /\ mode = "client" /\ mode' = "client"
               /\ UNCHANGED <<ntids, config>> /\ Tids' = Tids
               /\ Active' = Active \cup {t} /\ runq' # <<>> /\ Head(runq') = t
               /\ th[t].expected_hash # 0
               /\ \A s \in Tids : th'[s].expected_hash = th[s].expected_hash
               /\ th'[t].cumulative_inst_cnt = 0
               /\ ~complete_x_before_switch' /\ ~thread_x_has_yielded'
<1>1. t \notin Queued
  BY TidsType DEF Inv, TypeOK, RunqSound, Active, Queued, Range
<1>2. Client
  BY <1>1 DEF Client
<1>3. CASE ReforkAsserts(t)
  BY <1>2, <1>3 DEF ReforkAsserts, Panic
<1>4. CASE Refork(t)
  <2>1. Active' = Active \cup {t}
    BY <1>1, <1>4, ReforkActive
  <2>2. runq' = <<t>> \o runq /\ runq \in Seq(Tids)
    BY <1>4 DEF Refork, Inv, TypeOK
  <2>3. runq' # <<>> /\ Head(runq') = t
    BY <2>2
  <2>4. /\ \A s \in Tids : th'[s].expected_hash = th[s].expected_hash
        /\ th'[t].cumulative_inst_cnt = 0
    <3>1. th \in [Tids -> Thread]
      BY DEF Inv, TypeOK
    <3>2. th' = [th EXCEPT ![t].regs = EntryRegs(th[t].fn, th[t].stack_end),
                           ![t].inst_cnt = 0, ![t].cumulative_inst_cnt = 0,
                           ![t].reg_hash = 0]
      BY <1>4 DEF Refork, Restarted
    <3>3. th[t] \in Thread
      BY <3>1
    <3> QED BY <3>1, <3>2, <3>3 DEF Thread
  <2> QED BY <1>2, <1>4, <2>1, <2>3, <2>4 DEF Refork, Tids
<1> QED BY <1>3, <1>4

\* Only a checker's own assertions find a wrong sum or a wrong hash.
\* A mismatch is found where a thread with another hash than expected exits, and
\* after a panic nothing happens.
LEMMA Accuses ==
  ASSUME [AnyNext]_vars
  PROVE  /\ mode = "panic" => UNCHANGED vars
         /\ why' = "mismatch" /\ why # "mismatch" =>
              mode' = "panic" /\ AtSwi("exit") /\ ~HashMatches
<1>1. CASE UNCHANGED vars
  BY <1>1 DEF vars
<1>2. CASE AnyClient
  BY <1>2 DEF AnyClient, EqxInit, RunThreads, RunThreadsPanics, SetSchedulerConfig, Fork,
     ForkNostack, ForkStack, Refork, ReforkAsserts, Panic
<1>3. CASE Machine
  BY <1>3 DEF Machine, UserInst, SingleStep, SysPutc, SysExit, SyscallPanics, AtSwi,
     RunThreadsReturn, Schedule, Panic
<1> QED BY <1>1, <1>2, <1>3 DEF AnyNext

\* The expected hash of a thread is that of its first exit.
LEMMA ExpectedRecorded ==
  ASSUME Inv, Machine, NEW t \in Tids
  PROVE  \/ th'[t].expected_hash = th[t].expected_hash
         \/ SysExit /\ t = cur /\ th[t].expected_hash = 0
            /\ th'[t].expected_hash = th[t].reg_hash
<1>1. \A s \in Tids \ {cur} : th'[s] = th[s]
  BY MachineFrame
<1>2. th \in [Tids -> Thread]
  BY DEF Inv, TypeOK
<1>3. CASE t # cur
  BY <1>1, <1>3
<1>4. CASE t = cur /\ SysExit
  BY <1>2, <1>4 DEF SysExit, HashMatches, Thread
<1>5. CASE t = cur /\ (SingleStep \/ SysPutc)
  <2>1. PICK T \in [Tids -> Thread] :
          Schedule(T) /\ T[cur].expected_hash = th[cur].expected_hash
    <3>1. AfterStep[cur].expected_hash = th[cur].expected_hash
      BY <1>2, <1>5 DEF AfterStep, Thread
    <3>2. [th EXCEPT ![cur].regs = trapped][cur].expected_hash = th[cur].expected_hash
      BY <1>2, <1>5 DEF Thread
    <3>3. SingleStep => AfterStep \in [Tids -> Thread]
      BY StepUpdate DEF SingleStep, AfterStep
    <3>4. SysPutc => [th EXCEPT ![cur].regs = trapped] \in [Tids -> Thread]
      BY StepUpdate DEF SysPutc, AtSwi
    <3> QED BY <1>5, <3>1, <3>2, <3>3, <3>4 DEF SingleStep, SysPutc
  <2> QED BY <1>5, <2>1 DEF Schedule, Thread
<1>6. CASE ~(SysExit \/ SingleStep \/ SysPutc)
  BY <1>6 DEF Machine, UserInst, SyscallPanics, RunThreadsReturn, Panic, threadVars
<1> QED BY <1>3, <1>4, <1>5, <1>6

LEMMA ReasonFrame ==
  ASSUME AnyClient \/ Machine,
         NEW reason \in {"wrong sum of hashes", "eqx did not catch mismatch hash"},
         why # reason
  PROVE  why' # reason
BY DEF AnyClient, Machine, EqxInit, RunThreads, RunThreadsPanics, SetSchedulerConfig, Fork,
   ForkNostack, ForkStack, Refork, Restarted, ReforkAsserts, UserInst, SingleStep, SysPutc,
   SysExit, SyscallPanics, RunThreadsReturn, Schedule, Panic
-----------------------------------------------------------------------------
(* A thread that has exited has recorded its hash, so that eqx_refork      *)
(* refuses it only when its run ended with hash 0.                         *)

Refused == why = "refork without expected hash"

IdleInv ==
    /\ mode # "panic" => /\ ~Refused
                         /\ \A t \in Tids \ Active : th[t].expected_hash = th[t].reg_hash
    /\ Refused => \E t \in Tids \ Active : th[t].reg_hash = 0

\* A panic about anything but a refork.
LEMMA IdlePanic ==
  ASSUME ~Refused, mode' = "panic", why' # "refork without expected hash"
  PROVE  IdleInv'
BY DEF IdleInv, Refused

LEMMA IdleRefork ==
  ASSUME Inv, IdleInv, NEW t \in Tids, t \notin Queued, Refork(t) \/ ReforkAsserts(t)
  PROVE  IdleInv'
<1>1. /\ mode = "client" /\ ~Refused /\ t \notin Active /\ t \in Tids
      /\ \A s \in Tids \ Active : th[s].expected_hash = th[s].reg_hash
  BY TidsType DEF Refork, ReforkAsserts, IdleInv, Inv, RunqSound, Active
<1>2. CASE ReforkAsserts(t)
  <2>1. /\ UNCHANGED <<th, ntids, runq, cur>> /\ mode' = "panic" /\ th[t].reg_hash = 0
    BY <1>1, <1>2 DEF ReforkAsserts, Panic, threadVars, runVars
  <2>2. Tids' = Tids /\ Active' = Active
    BY <2>1 DEF Tids, Active, Queued
  <2> QED BY <1>1, <2>1, <2>2 DEF IdleInv
<1>3. CASE Refork(t)
  <2>1. /\ Tids' = Tids /\ mode' = mode /\ why' = why
        /\ \A s \in Tids \ {t} : th'[s] = th[s]
    BY <1>3 DEF Refork, Restarted, Inv, TypeOK, Tids
  <2>2. Active' = Active \cup {t}
    BY <1>3, ReforkActive
  <2> QED BY <1>1, <2>1, <2>2 DEF IdleInv, Refused
<1> QED BY <1>2, <1>3

LEMMA IdleFork ==
  ASSUME Inv, IdleInv, NEW f, NEW h, NEW base, NEW nbytes, ForkStack(f, h, base, nbytes)
  PROVE  IdleInv'
<1>1. mode' = mode /\ why' = why /\ mode = "client"
  BY DEF ForkStack
<1>2. Tids' = Tids \cup {ntids} /\ Active' = Active \cup {ntids} /\ ntids \notin Tids
  BY ForkActive
<1>3. \A t \in Tids : th'[t] = th[t]
  <2>1. \A t \in Tids : t \in 1..ntids /\ t # ntids
    BY <1>2, BoundsAssumption DEF Inv, TypeOK, Tids
  <2> QED BY <2>1 DEF ForkStack
<1> QED BY <1>1, <1>2, <1>3 DEF IdleInv, Refused

LEMMA IdleMachine ==
  ASSUME Inv, IdleInv, Machine
  PROVE  IdleInv'
<1>1. mode # "panic" /\ ~Refused
  BY DEF Machine, UserInst, SingleStep, SysPutc, SysExit, SyscallPanics, AtSwi, RunThreadsReturn,
         IdleInv
<1>2. ~Refused'
  BY <1>1 DEF Machine, UserInst, SingleStep, SysPutc, SysExit, SyscallPanics, RunThreadsReturn,
              Schedule, Panic, Refused
<1>3. ASSUME mode' # "panic", NEW t \in Tids \ Active'
      PROVE  th'[t].expected_hash = th'[t].reg_hash
  <2>1. CASE t \notin Active
    <3>1. mode = "user" => cur \in Active
      BY TidsType DEF Inv, TypeOK, RunqSound, Active
    <3>2. mode = "return" => cur = 0
      BY DEF Inv, RunqSound
    <3>3. mode \in {"user", "return"}
      BY DEF Machine, UserInst, SingleStep, SysPutc, SysExit, SyscallPanics, AtSwi,
             RunThreadsReturn
    <3>4. t # cur
      BY <2>1, <3>1, <3>2, <3>3, TidsType DEF Inv
    <3> QED BY <1>1, <2>1, <3>4, MachineFrame DEF IdleInv
  <2>2. CASE t \in Active
    <3>1. SysExit
      <4>1. CASE UserInst \/ SyscallPanics
        BY <1>3, <2>2, <4>1 DEF UserInst, SyscallPanics, Panic, runVars, Active, Queued
      <4>2. CASE RunThreadsReturn
        BY <1>3, <2>2, <4>2 DEF RunThreadsReturn, Inv, RunqSound, Active, Queued
      <4>3. CASE SingleStep \/ SysPutc
        <5>1. UNCHANGED B!batchVars
          BY <4>3, HandlerSchedules, ScheduleStutters
        <5> QED BY <1>3, <2>2, <5>1 DEF B!batchVars
      <4> QED BY <4>1, <4>2, <4>3 DEF Machine
    <3>2. Active' = Active \ {cur} /\ cur \in Tids
      BY <3>1, ExitActive, ExitEffect
    <3>3. t = cur /\ th \in [Tids -> Thread]
      BY <1>3, <2>2, <3>2 DEF Inv, TypeOK
    <3> QED BY <3>1, <3>3 DEF SysExit, ExpectsNext, Thread
  <2> QED BY <2>1, <2>2
<1>4. Tids' = Tids
  BY MachineFrame
<1> QED BY <1>2, <1>3, <1>4 DEF IdleInv

LEMMA IdleStep == Inv /\ IdleInv /\ [AnyNext]_vars => IdleInv'
<1> SUFFICES ASSUME Inv, IdleInv, [AnyNext]_vars PROVE IdleInv'
  OBVIOUS
<1>1. CASE UNCHANGED vars
  BY <1>1 DEF vars, threadVars, runVars, IdleInv, Refused, Tids, Active, Queued
<1>2. CASE Machine
  BY <1>2, IdleMachine
<1>3. CASE AnyClient
  <2>1. mode = "client" /\ ~Refused
    BY <1>3 DEF AnyClient, EqxInit, RunThreads, RunThreadsPanics, SetSchedulerConfig, Fork,
       ForkNostack, ForkStack, Refork, ReforkAsserts, Panic, IdleInv
  <2>2. CASE UNCHANGED <<th, ntids, runq, cur, mode, why>>
    BY <2>2 DEF IdleInv, Refused, Tids, Active, Queued
  <2>3. CASE \E r \in Reasons \ {"refork without expected hash"} : Panic(r)
    BY <2>1, <2>3, IdlePanic DEF Panic
  <2>4. CASE RunThreads
    <3>1. Active' = Active /\ UNCHANGED <<th, ntids, why>> /\ mode' = "user"
      BY <2>4, RunThreadsActive DEF RunThreads, RunOneInst, threadVars
    <3> QED BY <2>1, <3>1 DEF IdleInv, Refused, Tids
  <2>5. ASSUME NEW f, NEW h, Fork(f, h) \/ ForkNostack(f, h) PROVE IdleInv'
    BY <2>5, IdleFork DEF Fork, ForkNostack
  <2> QED BY <1>3, <2>2, <2>3, <2>4, <2>5, IdleRefork
      DEF AnyClient, EqxInit, RunThreadsPanics, SetSchedulerConfig, Reasons, threadVars, runVars
<1> QED BY <1>1, <1>2, <1>3 DEF AnyNext

LEMMA IdleInit == Init => IdleInv
<1> SUFFICES ASSUME Init PROVE IdleInv
  OBVIOUS
<1>1. Tids = {} /\ why = "none"
  BY DEF Init, Tids
<1> QED BY <1>1 DEF IdleInv, Refused
=============================================================================
