----------------------- MODULE SimpleInterleaveProofs -----------------------
(***************************************************************************)
(* simple_interleave_check keeps to the interface of the threads, never    *)
(* finds a wrong sum of hashes and skips no switch point, for every        *)
(* machine, every pair of routines and every number of copies; without     *)
(* stacks it does not accuse routines that do not disturb each other.      *)
(* Every run with A preempted computes what its parts compute in turn, and *)
(* without stacks the verdict on routines that restore the memory is right.*)
(***************************************************************************)
EXTENDS SimpleInterleave, RoutineProofs

Labels ==
    {"init", "config", "fork_A", "run_A", "done_A", "run_B", "done_B", "fork_copies",
     "x_refork", "x_run", "x_check", "done"}

\* The labels before the loop over switch points.
BeforeLoop ==
    {"init", "config", "fork_A", "run_A", "done_A", "run_B", "done_B", "fork_copies"}

\* The hash of A alone is the one recorded for its thread.
HasA == th_A = 1 /\ h_A \in Hashes /\ th[1].expected_hash = h_A

\* Thread 1 is A and all others are copies of B; the recorded hashes add up.
Known ==
    /\ HasA
    /\ th_B = 2 /\ ntids > 2 /\ ntids - 2 <= N
    /\ copies = [i \in 1..(ntids - 2) |-> i + 1]
    /\ h_B \in Hashes \ {0}
    /\ \A t \in Tids \ {1} : th[t].expected_hash = h_B
    /\ ExpectedSum(Tids) = h_A + (ntids - 2) * h_B

\* The loop over switch points.
WithA == Known /\ ntids - 2 = N /\ h_A # 0 /\ inst \in Nat \ {0}

AtPoint ==
    /\ config.enable_interleave
    /\ config.interleave_tid = 1 /\ config.switch_on_inst_n = inst

\* A goes last, and is then at the head of the queue.
AIsNext ==
    /\ cuts = 1..(inst - 1)
    /\ todo # <<>> => todo[Len(todo)] = 1
    /\ todo = <<>> => /\ runq # <<>> /\ Head(runq) = 1
                      /\ ~complete_x_before_switch /\ ~thread_x_has_yielded
                      /\ th[1].cumulative_inst_cnt = 0

CutsSoFar == cuts = {i \in 1..inst : i < inst \/ i <= XCount}

\* What holds at each label.
PFirst == ntids = 1 /\ Active = {}
PRunA == ntids = 2 /\ th_A = 1 /\ Active = {1}
PDoneA == ntids = 2 /\ th_A = 1 /\ Ran({1})
PRunB == ntids = 3 /\ HasA /\ th_B = 2 /\ Active = {2}
PDoneB == ntids = 3 /\ HasA /\ th_B = 2 /\ Ran({2})
PForkCopies == Known /\ Active = Tids \ {1}
PXRefork ==
    /\ WithA /\ AIsNext
    /\ todo \in Seq(Tids) /\ IsInjective(todo)
    /\ Range(todo) \cap Active = {} /\ Range(todo) \cup Active = Tids
PXRun == WithA /\ AIsNext /\ Active = Tids /\ AtPoint
PXCheck == WithA /\ Ran(Tids) /\ AtPoint /\ XKnown /\ CutsSoFar

AtLabels ==
    /\ at \in Labels
    /\ at \notin {"done_A", "done_B", "x_check"} => mode = "client"
    /\ at # "x_refork" => todo = <<>>
    /\ at \in BeforeLoop => cuts = {}
    /\ at \in BeforeLoop \ {"init", "config"} => ~config.enable_interleave
    /\ at \in {"init", "config", "fork_A"} => PFirst
    /\ at = "run_A" => PRunA
    /\ at = "done_A" => PDoneA
    /\ at = "run_B" => PRunB
    /\ at = "done_B" => PDoneB
    /\ at = "fork_copies" => PForkCopies
    /\ at = "x_refork" => PXRefork
    /\ at = "x_run" => PXRun
    /\ at = "x_check" => PXCheck

SInv == Inv /\ SumAlwaysRight /\ c \in CheckerConfig /\ (mode # "panic" => AtLabels)

-----------------------------------------------------------------------------
LEMMA AnyInv ==
  ASSUME Inv, SumAlwaysRight, AnyNext
  PROVE  Inv' /\ SumAlwaysRight'
BY AnyClientInv, MachineInv, ReasonFrame DEF AnyNext, SumAlwaysRight

\* A call that panics ends everything.
LEMMA PanicStep ==
  ASSUME SInv, AnyNext, mode' = "panic", c' = c
  PROVE  SInv'
BY AnyInv DEF SInv

LEMMA ActiveFacts ==
  ASSUME Inv
  PROVE  /\ Active \subseteq Tids /\ Queued \subseteq Active
         /\ mode = "client" => Queued = Active
         /\ ntids \in Nat \ {0} /\ Tids = 1..(ntids - 1) /\ IsFiniteSet(Tids)
<1>1. ntids \in Nat \ {0}
  BY BoundsAssumption DEF Inv, TypeOK
<1> QED BY <1>1, TidsType, FinishedFinite
        DEF Inv, TypeOK, RunqSound, Active, Queued, Range, Tids

\* A fork of the checker.
LEMMA ForkEffect ==
  ASSUME Inv, NEW stack, NEW f \in Routines, NEW h \in Hashes, ForkWith(stack, f, h)
  PROVE  /\ AnyNext /\ mode = "client" /\ mode' = "client"
         /\ ntids' = ntids + 1 /\ ntids \notin Tids /\ Tids' = Tids \cup {ntids}
         /\ Active' = Active \cup {ntids}
         /\ \A t \in Tids : th'[t] = th[t]
         /\ th'[ntids].expected_hash = h
         /\ UNCHANGED <<config, runVars, flagVars>>
<1>1. Fork(f, h) \/ ForkNostack(f, h)
  BY DEF ForkWith
<1>2. AnyNext
  BY <1>1 DEF AnyNext, AnyClient
<1>3. PICK base, nbytes : ForkStack(f, h, base, nbytes)
  BY <1>1 DEF Fork, ForkNostack
<1>4. /\ mode = "client" /\ mode' = mode /\ ntids' = ntids + 1
      /\ UNCHANGED <<config, runVars, flagVars>>
      /\ th' = [t \in 1..ntids |-> IF t = ntids THEN NewThread(f, h, base, nbytes) ELSE th[t]]
  BY <1>3 DEF ForkStack
<1>5. Tids' = Tids \cup {ntids} /\ Active' = Active \cup {ntids} /\ ntids \notin Tids
  BY <1>3, ForkActive
<1>6. Tids = 1..(ntids - 1) /\ ntids \in Nat \ {0}
  BY ActiveFacts
<1>7. \A t \in Tids : t \in 1..ntids /\ t # ntids
  BY <1>6
<1>8. th'[ntids].expected_hash = h
  BY <1>4, <1>6 DEF NewThread
<1> QED BY <1>2, <1>4, <1>5, <1>7, <1>8

\* A run of one thread returns the hash recorded for it.
LEMMA RanAlone ==
  ASSUME Inv, NEW t \in Tids, Ran({t}), mode = "client"
  PROVE  exit_hash = th[t].expected_hash /\ exit_hash \in Hashes /\ Active = {}
<1>1. exit_hash = ExpectedSum({t}) % Word /\ Active = {}
  BY RanDone DEF Ran
<1>2. th[t].expected_hash \in Hashes /\ Word \in Nat \ {0}
  BY BoundsAssumption DEF Inv, TypeOK, Thread
<1>3. ExpectedSum({t}) = th[t].expected_hash
  <2> DEFINE g == [s \in {t} |-> th[s].expected_hash]
  <2>1. DOMAIN g = {t} /\ g[t] = th[t].expected_hash /\ g[t] \in Int
    BY <1>2 DEF Hashes
  <2> HIDE DEF g
  <2> QED BY <2>1, SumOne DEF ExpectedSum, g
<1> QED BY <1>1, <1>2, <1>3 DEF Hashes

LEMMA StartStep ==
  ASSUME SInv, Start
  PROVE  AnyNext /\ SInv'
<1>1. /\ AnyNext /\ mode = "client" /\ at = "init" /\ at' = "config" /\ EqxInit
      /\ UNCHANGED <<todo, cuts, c>>
  BY DEF Start, EqxInit, AnyNext, AnyClient, checkVars
<1>2. CASE mode' = "panic"
  BY <1>1, <1>2, PanicStep
<1>3. CASE mode' # "panic"
  <2>1. UNCHANGED <<ntids, runq, cur, mode>>
    BY <1>1, <1>3 DEF EqxInit, Panic, threadVars, runVars
  <2>2. PFirst /\ todo = <<>> /\ cuts = {}
    BY <1>1 DEF SInv, AtLabels, BeforeLoop
  <2>3. AtLabels'
    BY <1>1, <2>1, <2>2 DEF AtLabels, Labels, BeforeLoop, PFirst, Active, Queued
  <2> QED BY <1>1, <2>3, AnyInv DEF SInv
<1> QED BY <1>1, <1>2, <1>3

LEMMA SequentialConfigStep ==
  ASSUME SInv, SequentialConfig
  PROVE  AnyNext /\ SInv'
<1>1. PICK g \in Garbage :
        /\ SetSchedulerConfig(Sequentially(g)) /\ at = "config" /\ at' = "fork_A"
        /\ UNCHANGED <<todo, cuts, c>>
  BY DEF SequentialConfig, checkVars
<1>2. Sequentially(g) \in SchedulerConfig
  BY GarbageAssumption DEF Sequentially, SchedulerConfig, SchedulerTypes
<1>3. AnyNext
  BY <1>1, <1>2 DEF AnyNext, AnyClient
<1>4. CASE mode' = "panic"
  BY <1>1, <1>3, <1>4, PanicStep
<1>5. CASE mode' # "panic"
  <2>1. /\ mode = "client" /\ UNCHANGED <<ntids, runq, cur, mode>>
        /\ config' = Sequentially(g)
    BY <1>1, <1>5 DEF SetSchedulerConfig, Panic, threadVars, runVars
  <2>2. PFirst /\ todo = <<>> /\ cuts = {}
    BY <1>1, <2>1 DEF SInv, AtLabels, BeforeLoop
  <2>3. ~config'.enable_interleave
    BY <2>1 DEF Sequentially
  <2>4. AtLabels'
    BY <1>1, <2>1, <2>2, <2>3 DEF AtLabels, Labels, BeforeLoop, PFirst, Active, Queued
  <2> QED BY <1>1, <1>3, <2>4, AnyInv DEF SInv
<1> QED BY <1>3, <1>4, <1>5

LEMMA ForkAStep ==
  ASSUME SInv, ForkA
  PROVE  AnyNext /\ SInv'
<1>1. /\ at = "fork_A" /\ at' = "run_A" /\ ForkWith(c.enable_stack, c.A, 0) /\ th_A' = ntids
      /\ UNCHANGED <<todo, cuts, c>> /\ Inv
  BY DEF ForkA, SInv
<1>2. c.A \in Routines /\ 0 \in Hashes
  BY BoundsAssumption DEF SInv, CheckerConfig, Hashes
<1>3. /\ AnyNext /\ mode = "client" /\ mode' = "client" /\ ntids' = ntids + 1
      /\ Active' = Active \cup {ntids} /\ config' = config
  BY <1>1, <1>2, ForkEffect
<1>4. PFirst /\ todo = <<>> /\ cuts = {} /\ ~config.enable_interleave
  BY <1>1, <1>3 DEF SInv, AtLabels, BeforeLoop
<1>5. PRunA'
  BY <1>1, <1>3, <1>4 DEF PFirst, PRunA
<1>6. AtLabels'
  BY <1>1, <1>3, <1>4, <1>5 DEF AtLabels, Labels, BeforeLoop
<1> QED BY <1>1, <1>3, <1>6, AnyInv DEF SInv

LEMMA RunAStep ==
  ASSUME SInv, RunA
  PROVE  AnyNext /\ SInv'
<1>1. /\ at = "run_A" /\ at' = "done_A" /\ todo = <<>> /\ Inv
      /\ RunThreads \/ RunThreadsPanics
      /\ UNCHANGED <<todo, cuts, c, th_A>>
  BY DEF RunA, Run, SInv, checkVars
<1>2. AnyNext /\ \/ mode' = "panic"
                 \/ mode' = "user" /\ UNCHANGED <<ntids, config>> /\ Ran(Active)' /\ Active' = Active
  BY <1>1, RunCall DEF AnyNext, AnyClient
<1>3. CASE mode' = "panic"
  BY <1>1, <1>2, <1>3, PanicStep
<1>4. CASE mode' # "panic"
  <2>1. mode = "client"
    BY <1>1 DEF RunThreads, RunThreadsPanics
  <2>2. PRunA /\ cuts = {} /\ ~config.enable_interleave
    BY <1>1, <2>1 DEF SInv, AtLabels, BeforeLoop
  <2>3. PDoneA'
    BY <1>1, <1>2, <1>4, <2>2 DEF PRunA, PDoneA
  <2>4. AtLabels'
    BY <1>1, <1>2, <1>4, <2>2, <2>3 DEF AtLabels, Labels, BeforeLoop
  <2> QED BY <1>1, <1>2, <2>4, AnyInv DEF SInv
<1> QED BY <1>2, <1>3, <1>4

LEMMA ForkBStep ==
  ASSUME SInv, ForkB
  PROVE  AnyNext /\ SInv'
<1>1. /\ at = "done_A" /\ at' = "run_B" /\ mode = "client"
      /\ h_A' = exit_hash /\ ForkNostack(c.B, 0) /\ th_B' = ntids
      /\ UNCHANGED <<todo, cuts, c, th_A>> /\ Inv
  BY DEF ForkB, InClient, SInv
<1>2. c.B \in Routines /\ 0 \in Hashes
  BY BoundsAssumption DEF SInv, CheckerConfig, Hashes
<1>3. ForkWith(FALSE, c.B, 0)
  BY <1>1 DEF ForkWith
<1>4. /\ AnyNext /\ mode' = "client" /\ ntids' = ntids + 1
      /\ Active' = Active \cup {ntids} /\ config' = config
      /\ \A t \in Tids : th'[t] = th[t]
  BY <1>1, <1>2, <1>3, ForkEffect
<1>5. PDoneA /\ todo = <<>> /\ cuts = {} /\ ~config.enable_interleave
  BY <1>1 DEF SInv, AtLabels, BeforeLoop
<1>6. 1 \in Tids
  BY <1>5 DEF PDoneA, Tids
<1>7. exit_hash = th[1].expected_hash /\ exit_hash \in Hashes /\ Active = {}
  BY <1>1, <1>5, <1>6, RanAlone DEF PDoneA
<1>8. HasA'
  BY <1>1, <1>4, <1>5, <1>6, <1>7 DEF PDoneA, HasA
<1>9. PRunB'
  BY <1>1, <1>4, <1>5, <1>7, <1>8 DEF PDoneA, PRunB
<1>10. AtLabels'
  BY <1>1, <1>4, <1>5, <1>9 DEF AtLabels, Labels, BeforeLoop
<1> QED BY <1>1, <1>4, <1>10, AnyInv DEF SInv

LEMMA RunBStep ==
  ASSUME SInv, RunB
  PROVE  AnyNext /\ SInv'
<1>1. /\ at = "run_B" /\ at' = "done_B" /\ todo = <<>> /\ Inv
      /\ RunThreads \/ RunThreadsPanics
      /\ UNCHANGED <<todo, cuts, c, th_A, th_B, h_A>>
  BY DEF RunB, Run, SInv, checkVars
<1>2. AnyNext /\ \/ mode' = "panic"
                 \/ mode' = "user" /\ UNCHANGED <<th, ntids, config>> /\ Ran(Active)' /\ Active' = Active
  BY <1>1, RunCall DEF AnyNext, AnyClient
<1>3. CASE mode' = "panic"
  BY <1>1, <1>2, <1>3, PanicStep
<1>4. CASE mode' # "panic"
  <2>1. mode = "client"
    BY <1>1 DEF RunThreads, RunThreadsPanics
  <2>2. PRunB /\ cuts = {} /\ ~config.enable_interleave
    BY <1>1, <2>1 DEF SInv, AtLabels, BeforeLoop
  <2>3. PDoneB'
    BY <1>1, <1>2, <1>4, <2>2 DEF PRunB, PDoneB, HasA
  <2>4. AtLabels'
    BY <1>1, <1>2, <1>4, <2>2, <2>3 DEF AtLabels, Labels, BeforeLoop
  <2> QED BY <1>1, <1>2, <2>4, AnyInv DEF SInv
<1> QED BY <1>2, <1>3, <1>4

LEMMA ReforkBStep ==
  ASSUME SInv, ReforkB
  PROVE  AnyNext /\ SInv'
<1>1. /\ at = "done_B" /\ at' = "fork_copies" /\ mode = "client"
      /\ h_B' = exit_hash
      /\ Refork(th_B) \/ ReforkAsserts(th_B)
      /\ copies' = <<th_B>>
      /\ UNCHANGED <<todo, cuts, c, th_A, th_B, h_A>> /\ Inv
  BY DEF ReforkB, ReforkCall, InClient, SInv
<1>2. PDoneB /\ todo = <<>> /\ cuts = {} /\ ~config.enable_interleave /\ c \in CheckerConfig
  BY <1>1 DEF SInv, AtLabels, BeforeLoop
<1>3. 1 \in Tids /\ 2 \in Tids /\ Tids = {1} \cup {2} /\ Tids \ {1} = {2} /\ th_B = 2
  BY <1>2 DEF PDoneB, Tids
<1>4. exit_hash = th[2].expected_hash /\ exit_hash \in Hashes /\ Active = {}
  BY <1>1, <1>2, <1>3, RanAlone DEF PDoneB
<1>5. /\ AnyNext
      /\ \/ mode' = "panic"
         \/ /\ mode' = "client" /\ UNCHANGED <<ntids, config>> /\ Tids' = Tids
            /\ Active' = Active \cup {2} /\ th[2].expected_hash # 0
            /\ \A s \in Tids : th'[s].expected_hash = th[s].expected_hash
  <2>1. 2 \notin Active
    BY <1>4
  <2> QED BY <1>1, <1>3, <2>1, ReforkStep, ClientInv DEF AnyNext
<1>6. CASE mode' = "panic"
  BY <1>1, <1>5, <1>6, PanicStep
<1>7. CASE mode' # "panic"
  <2>1. \A t \in Tids : th[t].expected_hash \in Hashes /\ th[t].expected_hash \in Int
    BY BoundsAssumption, <1>1 DEF Inv, TypeOK, Thread, Hashes
  <2>2. ExpectedSum(Tids)' = th[1].expected_hash + th[2].expected_hash
    <3> DEFINE g == [s \in Tids |-> th[s].expected_hash]
    <3>1. /\ DOMAIN g = {1, 2} /\ 1 # 2
          /\ g[1] = th[1].expected_hash /\ g[1] \in Int
          /\ g[2] = th[2].expected_hash /\ g[2] \in Int
      BY <1>3, <2>1
    <3>2. [s \in Tids' |-> th'[s].expected_hash] = g
      BY <1>5, <1>7
    <3> HIDE DEF g
    <3>3. SumFunction(g) = g[1] + g[2]
      BY <3>1, SumTwo, Zenon
    <3> QED BY <3>1, <3>2, <3>3 DEF ExpectedSum
  <2>3. HasA' /\ h_A' \in Int
    BY <1>1, <1>2, <1>3, <1>5, <1>7, BoundsAssumption DEF PDoneB, HasA, Hashes
  <2>4. /\ ntids' = 3 /\ th_B' = 2 /\ N' = N /\ N \in Nat \ {0} /\ Tids' \ {1} = {2}
        /\ h_A' = th[1].expected_hash /\ h_B' = th[2].expected_hash
        /\ h_B' \in Hashes \ {0} /\ h_A' \in Int /\ h_B' \in Int
    <3>1. /\ ntids' = 3 /\ th_B' = 2 /\ N' = N /\ Tids' \ {1} = {2}
          /\ h_A' = th[1].expected_hash /\ h_B' = th[2].expected_hash
      BY <1>1, <1>2, <1>3, <1>4, <1>5, <1>7 DEF PDoneB, HasA, N
    <3>2. N \in Nat \ {0}
      BY <1>2 DEF N, CheckerConfig
    <3> QED BY <1>3, <1>4, <1>5, <1>7, <2>1, <3>1, <3>2
  <2>10. th'[2].expected_hash = h_B'
    BY <1>3, <1>5, <1>7, <2>4
  <2>5. copies' = [i \in 1..1 |-> i + 1]
    <3>1. <<2>> = [i \in 1..1 |-> 2] /\ \A i \in 1..1 : i + 1 = 2
      OBVIOUS
    <3> QED BY <1>1, <1>3, <3>1
  <2>6. ExpectedSum(Tids)' = h_A' + (ntids' - 2) * h_B'
    BY <2>2, <2>4
  <2>7. PForkCopies'
    BY <1>3, <1>4, <1>5, <1>7, <2>3, <2>4, <2>5, <2>6, <2>10 DEF PForkCopies, Known
  <2>8. AtLabels'
    BY <1>1, <1>2, <1>5, <1>7, <2>7 DEF AtLabels, Labels, BeforeLoop
  <2> QED BY <1>1, <1>2, <1>5, <2>8, AnyInv DEF SInv
<1> QED BY <1>5, <1>6, <1>7

\* The facts about the threads in the loops that follow.
LEMMA KnownFacts ==
  ASSUME Inv, Known, c \in CheckerConfig
  PROVE  /\ 1 \in Tids /\ ntids \in Nat /\ N \in Nat \ {0} /\ Tids = 1..(ntids - 1)
         /\ copies \in Seq(Tids) /\ Len(copies) = ntids - 2
         /\ IsInjective(copies) /\ Range(copies) = Tids \ {1}
         /\ h_A \in Nat /\ h_B \in Nat
         /\ IsFiniteSet(Tids) /\ \A t \in Tids : th[t].expected_hash \in Int
<1>1. ntids \in Nat /\ ntids > 2 /\ Tids = 1..(ntids - 1) /\ IsFiniteSet(Tids)
  BY ActiveFacts DEF Known
<1>2. copies = [i \in 1..(ntids - 2) |-> i + 1]
  BY DEF Known
<1>3. /\ copies \in [1..(ntids - 2) -> Tids] /\ Len(copies) = ntids - 2
      /\ DOMAIN copies = 1..(ntids - 2) /\ \A i \in 1..(ntids - 2) : copies[i] = i + 1
  BY <1>1, <1>2
<1>4. copies \in Seq(Tids)
  BY <1>1, <1>3
<1>5. IsInjective(copies)
  BY <1>1, <1>3 DEF IsInjective
<1>6. Range(copies) = Tids \ {1}
  <2>1. Range(copies) \subseteq Tids \ {1}
    BY <1>1, <1>3 DEF Range
  <2>2. ASSUME NEW t \in Tids \ {1} PROVE t \in Range(copies)
    <3>1. t - 1 \in 1..(ntids - 2) /\ copies[t - 1] = t
      BY <1>1, <1>3
    <3> QED BY <1>3, <3>1 DEF Range
  <2> QED BY <2>1, <2>2
<1>7. h_A \in Nat /\ h_B \in Nat /\ N \in Nat \ {0}
  BY BoundsAssumption DEF Known, HasA, Hashes, N, CheckerConfig
<1>8. \A t \in Tids : th[t].expected_hash \in Int
  BY BoundsAssumption DEF Inv, TypeOK, Thread, Hashes
<1> QED BY <1>1, <1>3, <1>4, <1>5, <1>6, <1>7, <1>8

LEMMA ForkCopyStep ==
  ASSUME SInv, ForkCopy
  PROVE  AnyNext /\ SInv'
<1>1. /\ at = "fork_copies" /\ Len(copies) < N /\ ForkWith(c.enable_stack, c.B, h_B)
      /\ copies' = Append(copies, ntids)
      /\ UNCHANGED <<at, todo, inst, cuts, c, th_A, th_B, h_A, h_B>>
      /\ Inv /\ c \in CheckerConfig
  BY DEF ForkCopy, SInv, loopVars
<1>2. mode = "client"
  BY <1>1 DEF ForkWith, Fork, ForkNostack, ForkStack
<1>3. Known /\ Active = Tids \ {1} /\ todo = <<>> /\ cuts = {} /\ ~config.enable_interleave
  BY <1>1, <1>2 DEF SInv, AtLabels, BeforeLoop, PForkCopies
<1>4. /\ 1 \in Tids /\ ntids \in Nat /\ N \in Nat \ {0} /\ Tids = 1..(ntids - 1)
      /\ copies \in Seq(Tids) /\ Len(copies) = ntids - 2
      /\ h_A \in Nat /\ h_B \in Nat
      /\ IsFiniteSet(Tids) /\ \A t \in Tids : th[t].expected_hash \in Int
  BY <1>1, <1>3, KnownFacts
<1>5. c.B \in Routines /\ h_B \in Hashes
  BY <1>1, <1>3 DEF Known, CheckerConfig
<1>6. /\ AnyNext /\ mode' = "client"
      /\ ntids' = ntids + 1 /\ ntids \notin Tids /\ Tids' = Tids \cup {ntids}
      /\ Active' = Active \cup {ntids}
      /\ \A t \in Tids : th'[t] = th[t]
      /\ th'[ntids].expected_hash = h_B /\ config' = config
  BY <1>1, <1>5, ForkEffect
<1>7. ExpectedSum(Tids)' = h_A + (ntids' - 2) * h_B
  <2> DEFINE g == [s \in Tids' |-> th'[s].expected_hash]
             f == [s \in Tids |-> th[s].expected_hash]
  <2>1. /\ DOMAIN f = Tids /\ DOMAIN g = Tids \cup {ntids}
        /\ \A y \in Tids : f[y] \in Int /\ g[y] = f[y]
        /\ g[ntids] = h_B /\ g[ntids] \in Int
        /\ IsFiniteSet(Tids) /\ ntids \notin Tids
    BY <1>4, <1>6
  <2> HIDE DEF f, g
  <2>2. SumFunction(g) = h_B + SumFunction(f)
    BY <2>1, SumGrow
  <2>3. SumFunction(f) = h_A + (ntids - 2) * h_B
    BY <1>3 DEF Known, ExpectedSum, f
  <2>4. h_B + (h_A + (ntids - 2) * h_B) = h_A + (ntids' - 2) * h_B
    <3>1. ntids' - 2 = (ntids - 2) + 1 /\ ntids - 2 \in Int
      BY <1>4, <1>6
    <3>2. \A k \in Int : h_B + (h_A + k * h_B) = h_A + (k + 1) * h_B
      BY <1>4
    <3> QED BY <3>1, <3>2
  <2> QED BY <2>2, <2>3, <2>4 DEF ExpectedSum, g
<1>8. copies' = [i \in 1..(ntids' - 2) |-> i + 1]
  <2> DEFINE r == Append(copies, ntids)
  <2>1. \A i \in 1..(ntids - 2) : copies[i] = i + 1
    BY <1>3, <1>4 DEF Known
  <2>2. r \in Seq(Nat) /\ Len(r) = ntids - 1 /\ \A i \in 1..(ntids - 1) : r[i] = i + 1
    BY <1>4, <2>1
  <2> HIDE DEF r
  <2>3. r = [i \in 1..Len(r) |-> r[i]]
    BY <2>2
  <2>4. r = [i \in 1..(ntids - 1) |-> i + 1]
    BY <2>2, <2>3
  <2>5. ntids' - 2 = ntids - 1
    BY <1>4, <1>6
  <2> QED BY <1>1, <2>4, <2>5 DEF r
<1>9. Known'
  <2>1. HasA' /\ th_B' = 2 /\ h_B' \in Hashes \ {0}
    BY <1>1, <1>3, <1>4, <1>6 DEF Known, HasA
  <2>2. ntids' > 2 /\ ntids' - 2 <= N'
    BY <1>1, <1>3, <1>4, <1>6 DEF Known, N
  <2>3. \A t \in Tids' \ {1} : th'[t].expected_hash = h_B'
    BY <1>1, <1>3, <1>6 DEF Known
  <2> QED BY <1>1, <1>7, <1>8, <2>1, <2>2, <2>3 DEF Known
<1>10. PForkCopies'
  <2>1. 1 # ntids
    BY <1>4, <1>6
  <2> QED BY <1>3, <1>6, <1>9, <2>1 DEF PForkCopies
<1>11. AtLabels'
  BY <1>1, <1>3, <1>6, <1>10 DEF AtLabels, Labels, BeforeLoop
<1> QED BY <1>1, <1>6, <1>11, AnyInv DEF SInv

-----------------------------------------------------------------------------
(* The loop over switch points.                                            *)

\* A refork keeps what is known of A and of the copies.
LEMMA KnownFrame ==
  ASSUME Known, Tids' = Tids, UNCHANGED <<ntids, c, th_A, th_B, h_A, h_B, copies>>,
         1 \in Tids, \A t \in Tids : th'[t].expected_hash = th[t].expected_hash
  PROVE  Known'
<1>1. ExpectedSum(Tids)' = ExpectedSum(Tids)
  <2>1. [s \in Tids' |-> th'[s].expected_hash] = [s \in Tids |-> th[s].expected_hash]
    OBVIOUS
  <2> QED BY <2>1 DEF ExpectedSum
<1> QED BY <1>1 DEF Known, HasA, N

LEMMA ReforkAStep ==
  ASSUME SInv, ReforkA
  PROVE  AnyNext /\ SInv'
<1>1. /\ at = "fork_copies" /\ at' = "x_refork" /\ Len(copies) = N
      /\ Refork(th_A) \/ ReforkAsserts(th_A)
      /\ inst' = 1 /\ Inv /\ c \in CheckerConfig
      /\ UNCHANGED <<todo, cuts, c, th_A, th_B, h_A, h_B, copies>>
  BY DEF ReforkA, ReforkCall, SInv, checkVars
<1>2. mode = "client"
  BY <1>1 DEF Refork, ReforkAsserts
<1>3. Known /\ Active = Tids \ {1} /\ todo = <<>> /\ cuts = {} /\ th_A = 1
  BY <1>1, <1>2 DEF SInv, AtLabels, BeforeLoop, PForkCopies, Known, HasA
<1>4. 1 \in Tids /\ Len(copies) = ntids - 2
  BY <1>1, <1>3, KnownFacts
<1>5. /\ AnyNext
      /\ \/ mode' = "panic"
         \/ /\ mode' = "client" /\ UNCHANGED <<ntids, config>> /\ Tids' = Tids
            /\ Active' = Active \cup {1} /\ runq' # <<>> /\ Head(runq') = 1
            /\ th[1].expected_hash # 0
            /\ \A s \in Tids : th'[s].expected_hash = th[s].expected_hash
            /\ th'[1].cumulative_inst_cnt = 0
            /\ ~complete_x_before_switch' /\ ~thread_x_has_yielded'
  <2>1. 1 \notin Active
    BY <1>3
  <2> QED BY <1>1, <1>3, <1>4, <2>1, ReforkStep, ClientInv DEF AnyNext
<1>6. CASE mode' = "panic"
  BY <1>1, <1>5, <1>6, PanicStep
<1>7. CASE mode' # "panic"
  <2>1. Known'
    BY <1>1, <1>3, <1>4, <1>5, <1>7, KnownFrame
  <2>2. WithA'
    <3>1. h_A # 0
      BY <1>3, <1>5, <1>7 DEF Known, HasA
    <3>2. ntids - 2 = N /\ N' = N
      BY <1>1, <1>4 DEF N
    <3> QED BY <1>1, <1>5, <1>7, <2>1, <3>1, <3>2 DEF WithA
  <2>3. AIsNext'
    <3>1. {} = 1..(1 - 1)
      OBVIOUS
    <3> QED BY <1>1, <1>3, <1>5, <1>7, <3>1 DEF AIsNext
  <2>4. /\ todo' \in Seq(Tids') /\ IsInjective(todo') /\ Range(todo') = {}
        /\ Active' = Tids'
    <3>1. DOMAIN <<>> = {}
      BY EmptySeq
    <3>2. IsInjective(<<>>) /\ Range(<<>>) = {}
      BY <3>1 DEF IsInjective, Range
    <3>3. Active' = Tids'
      BY <1>3, <1>4, <1>5, <1>7
    <3>4. todo' = <<>> /\ <<>> \in Seq(Tids')
      BY <1>1, <1>3
    <3> QED BY <3>2, <3>3, <3>4
  <2>5. PXRefork'
    BY <2>2, <2>3, <2>4 DEF PXRefork
  <2>6. AtLabels'
    BY <1>1, <1>3, <1>5, <1>7, <2>5 DEF AtLabels, Labels, BeforeLoop
  <2> QED BY <1>1, <1>5, <2>6, AnyInv DEF SInv
<1> QED BY <1>5, <1>6, <1>7

LEMMA ReforkTodoStep ==
  ASSUME SInv, ReforkTodo, UNCHANGED checkVars
  PROVE  AnyNext /\ SInv'
<1> DEFINE t == Head(todo)
<1>1. /\ todo # <<>> /\ todo' = Tail(todo) /\ Inv /\ c \in CheckerConfig
      /\ Refork(t) \/ ReforkAsserts(t)
      /\ UNCHANGED <<at, inst, cuts, c, th_A, th_B, h_A, h_B, copies>>
  BY DEF ReforkTodo, ReforkCall, SInv, checkVars
<1>2. mode = "client"
  BY <1>1 DEF Refork, ReforkAsserts
<1>3. at = "x_refork" /\ PXRefork
  BY <1>1, <1>2 DEF SInv, AtLabels
<1>4. /\ t \in Tids /\ t \in Range(todo) /\ t \notin Active /\ todo \in Seq(Tids)
      /\ todo' \in Seq(Tids) /\ Range(todo') = Range(todo) \ {t} /\ IsInjective(todo')
  BY <1>1, <1>3, PopSeq DEF PXRefork
<1>5. Len(todo) \in Nat \ {0} /\ Len(todo') = Len(todo) - 1 /\ t = todo[1]
      /\ \A i \in 1..(Len(todo) - 1) : todo'[i] = todo[i + 1]
  BY <1>1, <1>4, EmptySeq
<1> HIDE DEF t
<1>6. /\ AnyNext
      /\ \/ mode' = "panic"
         \/ /\ mode' = "client" /\ UNCHANGED <<ntids, config>> /\ Tids' = Tids
            /\ Active' = Active \cup {t} /\ runq' # <<>> /\ Head(runq') = t
            /\ \A s \in Tids : th'[s].expected_hash = th[s].expected_hash
            /\ th'[t].cumulative_inst_cnt = 0
            /\ ~complete_x_before_switch' /\ ~thread_x_has_yielded'
  BY <1>1, <1>4, ReforkStep, ClientInv DEF AnyNext
<1>7. CASE mode' = "panic"
  BY <1>1, <1>6, <1>7, PanicStep
<1>8. CASE mode' # "panic"
  <2>1. WithA /\ AIsNext /\ Range(todo) \cap Active = {} /\ Range(todo) \cup Active = Tids
    BY <1>3 DEF PXRefork
  <2>2. 1 \in Tids
    BY <1>1, <2>1, KnownFacts DEF WithA
  <2>3. Known'
    BY <1>1, <1>6, <1>8, <2>1, <2>2, KnownFrame DEF WithA
  <2>4. WithA'
    BY <1>1, <1>6, <1>8, <2>1, <2>3 DEF WithA, N
  <2>5. Range(todo') \cap Active' = {} /\ Range(todo') \cup Active' = Tids'
    BY <1>4, <1>6, <1>8, <2>1
  <2>6. AIsNext'
    <3>1. cuts' = 1..(inst' - 1) /\ todo[Len(todo)] = 1
      BY <1>1, <2>1 DEF AIsNext
    <3>2. CASE todo' # <<>>
      <4>1. Len(todo') # 0
        BY <1>4, <3>2, EmptySeq
      <4>2. todo'[Len(todo')] = todo[Len(todo)]
        BY <1>5, <4>1
      <4> QED BY <3>1, <3>2, <4>2 DEF AIsNext
    <3>3. CASE todo' = <<>>
      <4>1. Len(todo') = 0
        BY <3>3
      <4>2. Len(todo) = 1
        BY <1>5, <4>1
      <4>3. t = 1
        BY <1>5, <3>1, <4>2
      <4> QED BY <1>6, <1>8, <3>1, <3>3, <4>3 DEF AIsNext
    <3> QED BY <3>2, <3>3
  <2>7. PXRefork'
    BY <1>4, <1>6, <1>8, <2>4, <2>5, <2>6 DEF PXRefork
  <2>8. AtLabels'
    BY <1>1, <1>3, <1>6, <1>8, <2>7 DEF AtLabels, Labels, BeforeLoop
  <2> QED BY <1>1, <1>6, <2>8, AnyInv DEF SInv
<1> QED BY <1>6, <1>7, <1>8

LEMMA SwitchAtStep ==
  ASSUME SInv, SwitchAt
  PROVE  AnyNext /\ SInv'
<1> DEFINE cf == [config EXCEPT !.type = "SEQUENTIAL", !.enable_interleave = TRUE,
                                !.interleave_tid = th_A, !.switch_on_inst_n = inst]
<1>1. /\ at = "x_refork" /\ at' = "x_run" /\ todo = <<>> /\ SetSchedulerConfig(cf)
      /\ Inv /\ c \in CheckerConfig
      /\ UNCHANGED <<todo, inst, cuts, c, th_A, th_B, h_A, h_B, copies>>
  BY DEF SwitchAt, SInv, checkVars
<1>2. mode = "client"
  BY <1>1 DEF SetSchedulerConfig, Panic
<1>3. PXRefork /\ th_A = 1 /\ inst \in Nat
  BY <1>1, <1>2 DEF SInv, AtLabels, PXRefork, WithA, Known, HasA
<1>4. /\ cf \in SchedulerConfig /\ cf.type = "SEQUENTIAL"
      /\ cf.enable_interleave /\ cf.interleave_tid = 1 /\ cf.switch_on_inst_n = inst
  BY <1>1, <1>3 DEF Inv, TypeOK, SchedulerConfig, SchedulerTypes
<1> HIDE DEF cf
<1>5. /\ AnyNext /\ mode' = mode /\ config' = cf
      /\ UNCHANGED <<th, ntids, runq, cur, flagVars>>
  <2>1. AnyNext
    BY <1>1, <1>4 DEF AnyNext, AnyClient
  <2> QED BY <1>1, <1>4, <2>1 DEF SetSchedulerConfig, threadVars, runVars
<1>6. Tids' = Tids /\ Active' = Active /\ Active = Tids
  <2>1. Range(<<>>) = {}
    <3>1. DOMAIN <<>> = {}
      BY EmptySeq
    <3> QED BY <3>1 DEF Range
  <2> QED BY <1>1, <1>3, <1>5, <2>1 DEF Tids, Active, Queued, PXRefork
<1>7. WithA' /\ AIsNext'
  <2>1. Known'
    BY <1>1, <1>3, <1>5, <1>6, KnownFrame, KnownFacts DEF PXRefork, WithA
  <2> QED BY <1>1, <1>3, <1>5, <2>1 DEF PXRefork, WithA, AIsNext, N, flagVars
<1>8. PXRun'
  BY <1>1, <1>4, <1>5, <1>6, <1>7 DEF PXRun, AtPoint
<1>9. AtLabels'
  BY <1>1, <1>2, <1>5, <1>8 DEF AtLabels, Labels, BeforeLoop
<1> QED BY <1>1, <1>5, <1>9, AnyInv DEF SInv

LEMMA XRunStep ==
  ASSUME SInv, XRun
  PROVE  AnyNext /\ SInv'
<1>1. /\ at = "x_run" /\ at' = "x_check" /\ todo = <<>> /\ Inv /\ c \in CheckerConfig
      /\ RunThreads \/ RunThreadsPanics
      /\ UNCHANGED <<todo, inst, cuts, c, th_A, th_B, h_A, h_B, copies>>
  BY DEF XRun, Run, SInv, checkVars
<1>2. AnyNext /\ \/ mode' = "panic"
                 \/ /\ RunThreads /\ mode' = "user" /\ UNCHANGED <<th, ntids, config>>
                    /\ Tids' = Tids /\ Ran(Active)' /\ Active' = Active
  BY <1>1, RunCall DEF AnyNext, AnyClient
<1>3. CASE mode' = "panic"
  BY <1>1, <1>2, <1>3, PanicStep
<1>4. CASE mode' # "panic"
  <2>1. PXRun /\ mode = "client"
    BY <1>1 DEF SInv, AtLabels, RunThreads, RunThreadsPanics
  <2>2. /\ 1 \in Tids /\ ntids \in Nat /\ ntids > 2 /\ Tids = 1..(ntids - 1)
        /\ inst \in Nat \ {0}
    BY <1>1, <2>1, KnownFacts DEF PXRun, WithA, Known
  <2>3. WithA' /\ AtPoint' /\ Ran(Tids)'
    <3>1. Known'
      BY <1>1, <1>2, <1>4, <2>1, <2>2, KnownFrame DEF PXRun, WithA
    <3> QED BY <1>1, <1>2, <1>4, <2>1, <3>1 DEF PXRun, WithA, AtPoint, N
  <2>4. /\ Head(runq) = 1 /\ runq # <<>> /\ XCount = 0 /\ AtPoint /\ Active = Tids
        /\ ~complete_x_before_switch /\ ~thread_x_has_yielded /\ cuts = 1..(inst - 1)
    BY <1>1, <2>1 DEF PXRun, AIsNext, AtPoint, XCount
  <2>5. Tail(runq) # <<>>
    <3>1. runq \in Seq(Tids) /\ IsInjective(runq) /\ Queued = Tids
      BY <1>1, <2>1, <2>4, ActiveFacts DEF Inv, TypeOK, RunqSound
    <3>2. Range(Tail(runq)) = Tids \ {1}
      BY <2>4, <3>1, PopSeq DEF Queued
    <3>3. 2 \in Tids
      BY <2>2
    <3>4. Range(<<>>) = {}
      <4>1. DOMAIN <<>> = {}
        BY EmptySeq
      <4> QED BY <4>1 DEF Range
    <3>5. 2 \in Range(Tail(runq))
      BY <3>2, <3>3
    <3> QED BY <3>4, <3>5
  <2>6. XKnown'
    BY <1>1, <1>2, <1>4, <2>2, <2>4, <2>5, XKnownStart DEF AtPoint
  <2>7. CutsSoFar'
    <3>1. XCount' = 0
      BY <1>2, <1>4, <2>4 DEF XCount
    <3>2. 1..(inst - 1) = {i \in 1..inst : i < inst \/ i <= 0}
      BY <2>2
    <3> QED BY <1>1, <2>4, <3>1, <3>2 DEF CutsSoFar
  <2>8. PXCheck'
    BY <2>3, <2>6, <2>7 DEF PXCheck
  <2>9. AtLabels'
    BY <1>1, <1>4, <2>8 DEF AtLabels, Labels, BeforeLoop
  <2> QED BY <1>1, <1>2, <2>9, AnyInv DEF SInv
<1> QED BY <1>2, <1>3, <1>4

\* When a run of the loop has returned, the result is the expected one, and A
\* completed before the switch just when it was too short for it.
LEMMA XReturned ==
  ASSUME Inv, c \in CheckerConfig, PXCheck, mode = "client"
  PROVE  /\ exit_hash = expected_hash /\ Active = {}
         /\ XCount \in Nat /\ inst \in Nat \ {0}
         /\ complete_x_before_switch <=> XCount < inst
<1>1. exit_hash = ExpectedSum(Tids) % Word /\ Active = {}
  BY RanDone DEF PXCheck, Ran
<1>2. 1 \in Tids
  BY KnownFacts DEF PXCheck, WithA
<1>3. ExpectedSum(Tids) = h_A + N * h_B
  BY DEF PXCheck, WithA, Known
<1>4. config.interleave_tid = 1 /\ config.switch_on_inst_n = inst /\ XKnown
  BY DEF PXCheck, AtPoint
<1>5. XCount \in Nat
  BY <1>2, <1>4 DEF XCount, Inv, TypeOK, Thread
<1>6. complete_x_before_switch <=> XCount < inst
  BY <1>1, <1>4 DEF XKnown
<1>7. inst \in Nat \ {0}
  BY DEF PXCheck, WithA
<1> QED BY <1>1, <1>3, <1>5, <1>6, <1>7 DEF expected_hash

LEMMA CheckStep ==
  ASSUME SInv, Check
  PROVE  (AnyNext \/ UNCHANGED vars) /\ SInv'
<1>1. /\ at = "x_check" /\ mode = "client" /\ Inv /\ c \in CheckerConfig /\ PXCheck
      /\ todo = <<>> /\ SumAlwaysRight
      /\ UNCHANGED <<cuts, c, th_A, th_B, h_A, h_B, copies>>
  BY DEF Check, InClient, SInv, AtLabels, checkVars
<1>2. /\ exit_hash = expected_hash /\ Active = {}
      /\ XCount \in Nat /\ inst \in Nat \ {0}
      /\ complete_x_before_switch <=> XCount < inst
  BY <1>1, XReturned
<1>3. /\ UNCHANGED vars
      /\ \/ at' = "done" /\ UNCHANGED <<inst, todo>>
         \/ ~complete_x_before_switch /\ inst' = inst + 1 /\ todo' = ths /\ at' = "x_refork"
  BY <1>2 DEF Check
<1>4. UNCHANGED <<th, ntids, mode, why>> /\ Active' = Active /\ Tids' = Tids
  BY <1>3 DEF vars, threadVars, runVars, Active, Queued, Tids
<1>5. Inv' /\ SumAlwaysRight'
  BY <1>1, <1>3, <1>4, StepInv DEF SumAlwaysRight
<1>6. CASE at' = "done" /\ UNCHANGED <<inst, todo>>
  <2>1. AtLabels'
    BY <1>1, <1>4, <1>6 DEF AtLabels, Labels, BeforeLoop
  <2> QED BY <1>1, <1>3, <1>5, <2>1 DEF SInv
<1>7. CASE ~complete_x_before_switch /\ inst' = inst + 1 /\ todo' = ths /\ at' = "x_refork"
  <2>1. /\ 1 \in Tids /\ copies \in Seq(Tids) /\ IsInjective(copies)
        /\ Range(copies) = Tids \ {1} /\ th_A = 1
    BY <1>1, KnownFacts DEF PXCheck, WithA, Known, HasA
  <2>2. todo' = Append(copies, 1)
    BY <1>7, <2>1 DEF ths
  <2>3. /\ todo' \in Seq(Tids) /\ IsInjective(todo') /\ Range(todo') = Tids
    <3>1. 1 \notin Range(copies) /\ Range(copies) \cup {1} = Tids
      BY <2>1
    <3>2. /\ Append(copies, 1) \in Seq(Tids) /\ IsInjective(Append(copies, 1))
          /\ Range(Append(copies, 1)) = Range(copies) \cup {1}
      BY <2>1, <3>1, AppendSeq
    <3> QED BY <2>2, <3>1, <3>2
  <2>4. todo' # <<>> /\ todo'[Len(todo')] = 1
    BY <2>1, <2>2
  <2>5. AIsNext'
    <3>1. inst <= XCount
      BY <1>2, <1>7
    <3>2. cuts = {i \in 1..inst : i < inst \/ i <= XCount}
      BY <1>1 DEF PXCheck, CutsSoFar
    <3>3. cuts = 1..inst /\ (inst + 1) - 1 = inst
      BY <1>2, <3>1, <3>2
    <3> QED BY <1>1, <1>7, <2>4, <3>3 DEF AIsNext
  <2>6. WithA'
    <3>1. Known'
      BY <1>1, <1>4, <2>1, KnownFrame DEF PXCheck, WithA
    <3> QED BY <1>1, <1>2, <1>4, <1>7, <3>1 DEF PXCheck, WithA, N
  <2>7. PXRefork'
    BY <1>2, <1>4, <2>3, <2>5, <2>6 DEF PXRefork
  <2>8. AtLabels'
    BY <1>1, <1>4, <1>7, <2>7 DEF AtLabels, Labels, BeforeLoop
  <2> QED BY <1>1, <1>3, <1>5, <2>8 DEF SInv
<1> QED BY <1>3, <1>6, <1>7

\* A step of the machine.  Before the loop no thread is X and nothing is cut; in
\* the loop the cut that is recorded is the count of A when it is preempted.
LEMMA CutsStep ==
  ASSUME Inv, c \in CheckerConfig, PXCheck, RunStep
  PROVE  XKnown' /\ CutsSoFar'
<1>1. /\ Machine /\ XKnown /\ inst' = inst /\ inst \in Nat \ {0}
      /\ cuts = {i \in 1..inst : i < inst \/ i <= XCount}
  BY DEF RunStep, PXCheck, CutsSoFar, WithA
<1>2. 1 \in Tids
  BY KnownFacts DEF PXCheck, WithA
<1>3. config.interleave_tid = 1 /\ config.switch_on_inst_n = inst /\ config.enable_interleave
  BY DEF PXCheck, AtPoint
<1>4. Tids' = Tids /\ config' = config
  BY <1>1, MachineFrame
<1>5. /\ XKnown' /\ XCount' >= XCount /\ XCount \in Nat /\ XCount' \in Nat
      /\ XPreempted => XCount' = inst
      /\ XCount < inst /\ XCount' >= inst => XPreempted
  BY <1>1, <1>3, XKnownStep
<1>6. cuts' = IF XPreempted THEN cuts \cup {XCount'} ELSE cuts
  <2>1. (\E t \in Tids : IsX(t) /\ Preempts(t)) <=> XPreempted
    BY <1>2, <1>3 DEF IsX, Preempts, XPreempted, Queued
  <2>2. XPreempted => th'[cur].cumulative_inst_cnt = XCount'
    BY <1>3, <1>4 DEF XPreempted, XCount
  <2> QED BY <2>1, <2>2 DEF RunStep
<1>7. CASE XPreempted
  <2>1. cuts' = {i \in 1..inst : i < inst \/ i <= XCount'}
    BY <1>1, <1>5, <1>6, <1>7
  <2> QED BY <1>1, <1>5, <2>1 DEF CutsSoFar
<1>8. CASE ~XPreempted
  <2>1. \A i \in 1..inst : (i < inst \/ i <= XCount) <=> (i < inst \/ i <= XCount')
    BY <1>1, <1>5, <1>8
  <2>2. cuts' = {i \in 1..inst : i < inst \/ i <= XCount'}
    BY <1>1, <1>6, <1>8, <2>1
  <2> QED BY <1>1, <1>5, <2>2 DEF CutsSoFar
<1> QED BY <1>7, <1>8

LEMMA RunStepStep ==
  ASSUME SInv, RunStep, UNCHANGED checkVars
  PROVE  AnyNext /\ SInv'
<1>1. /\ Machine /\ Inv /\ c \in CheckerConfig /\ mode \in {"user", "return"}
      /\ UNCHANGED <<at, todo, inst, c, th_A, th_B, h_A, h_B, copies>>
      /\ cuts' # cuts => config.enable_interleave
  BY DEF SInv, RunStep, checkVars, IsX, Machine, UserInst, SingleStep, SysPutc, SysExit,
     AtSwi, SyscallPanics, RunThreadsReturn
<1>2. AnyNext
  BY <1>1 DEF AnyNext
<1>3. AtLabels /\ at \in {"done_A", "done_B", "x_check"} /\ todo = <<>>
  BY <1>1 DEF SInv, AtLabels, Labels
<1>4. /\ Tids' = Tids /\ ntids' = ntids /\ config' = config
      /\ \A t \in Tids \ {cur} : th'[t] = th[t]
      /\ \A t \in Tids : th[t].expected_hash # 0 => th'[t].expected_hash = th[t].expected_hash
  BY <1>1, MachineFrame
<1>5. ASSUME NEW S, Ran(S)
      PROVE  RunResult' /\ (Active \cup finished = S)' /\ (mode' = "client" => Active' = {})
  BY <1>1, <1>5, RanStep
<1>6. CASE at = "done_A"
  <2>1. PDoneA /\ cuts = {} /\ ~config.enable_interleave
    BY <1>3, <1>6 DEF AtLabels, BeforeLoop
  <2>2. PDoneA'
    BY <1>1, <1>4, <1>5, <2>1 DEF PDoneA, Ran
  <2>3. AtLabels'
    BY <1>1, <1>3, <1>4, <1>6, <2>1, <2>2 DEF AtLabels, Labels, BeforeLoop
  <2> QED BY <1>1, <1>2, <2>3, AnyInv DEF SInv
<1>7. CASE at = "done_B"
  <2>1. PDoneB /\ cuts = {} /\ ~config.enable_interleave
    BY <1>3, <1>7 DEF AtLabels, BeforeLoop
  <2>2. 1 \in Tids /\ cur # 1
    BY <2>1 DEF PDoneB, Ran, Tids, Active
  <2>3. PDoneB'
    BY <1>1, <1>4, <1>5, <2>1, <2>2 DEF PDoneB, Ran, HasA
  <2>4. AtLabels'
    BY <1>1, <1>3, <1>4, <1>7, <2>1, <2>3 DEF AtLabels, Labels, BeforeLoop
  <2> QED BY <1>1, <1>2, <2>4, AnyInv DEF SInv
<1>8. CASE at = "x_check"
  <2>1. PXCheck /\ WithA /\ Known
    BY <1>3, <1>8 DEF AtLabels, PXCheck, WithA
  <2>2. \A t \in Tids : th'[t].expected_hash = th[t].expected_hash
    <3>1. \A t \in Tids : th[t].expected_hash # 0
      BY <2>1 DEF WithA, Known, HasA
    <3> QED BY <1>4, <3>1
  <2>3. Known'
    BY <1>1, <1>4, <2>1, <2>2, KnownFrame, KnownFacts
  <2>4. WithA' /\ AtPoint' /\ Ran(Tids)'
    BY <1>1, <1>4, <1>5, <2>1, <2>3 DEF WithA, N, PXCheck, AtPoint, Ran
  <2>5. XKnown' /\ CutsSoFar'
    BY <1>1, <2>1, CutsStep
  <2>6. PXCheck'
    BY <2>4, <2>5 DEF PXCheck
  <2>7. AtLabels'
    BY <1>1, <1>3, <1>8, <2>6 DEF AtLabels, Labels, BeforeLoop
  <2> QED BY <1>1, <1>2, <2>7, AnyInv DEF SInv
<1> QED BY <1>3, <1>6, <1>7, <1>8

-----------------------------------------------------------------------------
LEMMA SimpleInvInit == SimpleInit => SInv
<1> SUFFICES ASSUME SimpleInit PROVE SInv
  OBVIOUS
<1>1. Inv /\ Active = {} /\ ntids = 1
  BY InitInv, InitRefines DEF SimpleInit, HarnessInit, Init, B!BInit
<1>2. AtLabels
  BY <1>1 DEF SimpleInit, HarnessInit, Init, AtLabels, Labels, BeforeLoop, PFirst
<1>3. SumAlwaysRight /\ c \in CheckerConfig
  BY ChecksAssumption DEF SimpleInit, HarnessInit, Init, SumAlwaysRight
<1> QED BY <1>1, <1>2, <1>3 DEF SInv

LEMMA SimpleStep == SInv /\ [SimpleNext]_svars => (AnyNext \/ UNCHANGED vars) /\ SInv'
<1> SUFFICES ASSUME SInv, [SimpleNext]_svars PROVE (AnyNext \/ UNCHANGED vars) /\ SInv'
  OBVIOUS
<1>1. CASE UNCHANGED svars
  <2>1. UNCHANGED vars /\ UNCHANGED <<loopVars, checkVars>>
    BY <1>1 DEF svars
  <2>2. Inv'
    BY <2>1, StepInv DEF SInv
  <2>3. /\ UNCHANGED <<th, ntids, runq, cur, mode, why, config, flagVars, exit_hash, finished>>
        /\ Tids' = Tids /\ Active' = Active
    BY <2>1 DEF vars, threadVars, runVars, Tids, Active, Queued
  <2>4. AtLabels' = AtLabels
    BY <2>1, <2>3
    DEF loopVars, checkVars, flagVars, AtLabels, PFirst, PRunA, PDoneA, PRunB, PDoneB,
        PForkCopies, PXRefork, PXRun, PXCheck, HasA, Known, WithA, N, AtPoint, AIsNext, Ran,
        RunResult, FinalHashes, ExpectedSum, XKnown, XCount, CutsSoFar
  <2> QED BY <2>1, <2>2, <2>3, <2>4 DEF SInv, SumAlwaysRight, checkVars
<1>2. CASE SimpleNext
  BY <1>2, StartStep, SequentialConfigStep, ForkAStep, RunAStep, ForkBStep, RunBStep,
     ReforkBStep, ForkCopyStep, ReforkAStep, ReforkTodoStep, SwitchAtStep, XRunStep,
     CheckStep, RunStepStep DEF SimpleNext
<1> QED BY <1>1, <1>2

\* simple_interleave_check calls eqx-threads.c only as a client may: above all
\* it reforks no thread that is queued.  Configs and ExpectHashes only bound
\* what TLC tries; here a client may ask for anything
\* (interleave-checker.c:44-77, 87-92).
THEOREM SimpleKeepsContract ==
  Configs = SchedulerConfig /\ ExpectHashes = Hashes => (SimpleSpec => KeepsContract)
<1> SUFFICES ASSUME Configs = SchedulerConfig, ExpectHashes = Hashes
             PROVE  SimpleSpec => KeepsContract
  OBVIOUS
<1>1. SimpleInit => Init
  BY DEF SimpleInit, HarnessInit
<1>2. AnyNext \/ UNCHANGED vars => [Next]_vars
  BY DEF AnyNext, AnyClient, Next, Client
<1> QED BY <1>1, <1>2, SimpleInvInit, SimpleStep, PTL DEF SimpleSpec, KeepsContract, Spec

\* The assertion on the sum never fails: the hashes of the runs alone, one of A
\* and n_copies of B, add up modulo the word size to the result of every run
\* that is not stopped by a mismatch (interleave-checker.c:81, 96-100).
THEOREM SumNeverWrong == SimpleSpec => []SumAlwaysRight
BY SimpleInvInit, SimpleStep, PTL DEF SimpleSpec, SInv

\* No switch point of A is skipped: after the run for inst, A has been preempted
\* at every one of its first inst instructions and nowhere else, and the loop
\* ends only when A has no further instruction (interleave-checker.c:87-106).
THEOREM SimpleTriesEveryCut == SimpleSpec => []CutsTried
<1>1. ASSUME SInv PROVE CutsTried
  <2> SUFFICES ASSUME at = "x_check", InClient
               PROVE  LET K == th[config.interleave_tid].cumulative_inst_cnt
                      IN  /\ cuts = {i \in 1..inst : i < inst \/ i <= K}
                          /\ complete_x_before_switch <=> inst > K
    BY DEF CutsTried, EveryCutTried
  <2>1. Inv /\ c \in CheckerConfig /\ PXCheck /\ mode = "client"
    BY <1>1 DEF SInv, AtLabels, InClient
  <2>2. /\ XCount \in Nat /\ inst \in Nat
        /\ complete_x_before_switch <=> XCount < inst
    BY <2>1, XReturned
  <2>3. cuts = {i \in 1..inst : i < inst \/ i <= XCount}
    BY <2>1 DEF PXCheck, CutsSoFar
  <2> QED BY <2>2, <2>3 DEF XCount
<1> QED BY <1>1, SimpleInvInit, SimpleStep, PTL DEF SimpleSpec

\* The runs with A preempted compare the hash of A and of every copy of B: none
\* goes unchecked because its hash counts as missing, and eqx_refork refuses a
\* thread only when its last run ended with hash 0
\* (interleave-checker.c:50-77, 87-92, eqx-threads.c:201-203, 486-502).
THEOREM SimpleComparesExits == SimpleSpec => []ExitsCompared
<1> DEFINE All == SInv /\ IdleInv
<1>1. SimpleInit => All
  BY SimpleInvInit, IdleInit DEF SimpleInit, HarnessInit
<1>2. All /\ [SimpleNext]_svars => All'
  BY SimpleStep, IdleStep DEF SInv
<1>3. ASSUME All PROVE ExitsCompared
  <2>1. ASSUME at = "x_check", InClient, NEW t \in Tids PROVE th[t].expected_hash # 0
    <3>1. WithA
      BY <1>3, <2>1 DEF SInv, AtLabels, InClient, PXCheck
    <3> QED BY <3>1 DEF WithA, Known, HasA
  <2>2. Refused => \E t \in Tids \ Active : th[t].reg_hash = 0
    BY <1>3 DEF IdleInv
  <2> QED BY <2>1, <2>2 DEF ExitsCompared, EveryExitCompared, Refused
<1> QED BY <1>1, <1>2, <1>3, PTL DEF SimpleSpec
-----------------------------------------------------------------------------
(* Routines that do not disturb each other.                                *)

\* Thread 2 runs B without a stack, alone and as the first copy.
BAlone ==
    at \in {"run_B", "done_B", "fork_copies"} /\ mode # "panic" =>
      ntids > 2 /\ th[2].fn = c.B /\ th[2].stack_end = 0

\* No step changes the routine or the stack of a thread.
LEMMA RoutineKept ==
  ASSUME Inv, AnyNext \/ UNCHANGED vars, NEW t \in Tids
  PROVE  th'[t].fn = th[t].fn /\ th'[t].stack_end = th[t].stack_end /\ ntids' >= ntids
<1>1. th \in [Tids -> Thread] /\ ntids \in Nat /\ t \in 1..(ntids - 1)
  BY BoundsAssumption DEF Inv, TypeOK, Tids
<1>2. CASE UNCHANGED <<th, ntids>>
  BY <1>1, <1>2
<1>3. CASE Machine
  BY <1>1, <1>3, MachineFrame
<1>4. ASSUME NEW f, NEW h, NEW base, NEW nbytes, ForkStack(f, h, base, nbytes)
      PROVE  th'[t].fn = th[t].fn /\ th'[t].stack_end = th[t].stack_end /\ ntids' >= ntids
  BY <1>1, <1>4 DEF ForkStack
<1>5. ASSUME NEW u, Refork(u)
      PROVE  th'[t].fn = th[t].fn /\ th'[t].stack_end = th[t].stack_end /\ ntids' >= ntids
  BY <1>1, <1>5 DEF Refork, Restarted, Thread
<1> QED BY <1>2, <1>3, <1>4, <1>5
    DEF AnyNext, AnyClient, EqxInit, RunThreads, RunThreadsPanics, SetSchedulerConfig,
        Fork, ForkNostack, ReforkAsserts, Panic,
        threadVars, vars

LEMMA BAloneStep ==
  ASSUME SInv, BAlone, [SimpleNext]_svars
  PROVE  BAlone'
<1> DEFINE BLabels == {"run_B", "done_B", "fork_copies"}
<1>1. Inv /\ (AnyNext \/ UNCHANGED vars) /\ c' = c
  BY SimpleStep DEF SInv, svars, checkVars, SimpleNext, Start, SequentialConfig, ForkA, RunA,
     ForkB, RunB, ReforkB, ForkCopy, ReforkA, SwitchAt, XRun, Check
<1>2. CASE ForkB
  <2>1. ntids = 2 /\ ForkStack(c.B, 0, 0, 0)
    BY <1>2 DEF ForkB, ForkNostack, SInv, AtLabels, PDoneA, InClient
  <2>2. ntids' = 3 /\ th'[2] = NewThread(c.B, 0, 0, 0)
    BY <2>1 DEF ForkStack
  <2> QED BY <1>1, <2>2 DEF NewThread, BAlone
<1>3. CASE ~ForkB /\ at' \in BLabels /\ mode' # "panic"
  <2>1. at \in BLabels
    BY <1>3 DEF svars, loopVars, SimpleNext, Start, SequentialConfig, ForkA, RunA,
       RunB, ReforkB, ForkCopy, ReforkA, SwitchAt, XRun, Check, Run, ReforkTodo, RunStep
  <2>2. mode # "panic"
    BY <1>1, <1>3 DEF AnyNext, AnyClient, Machine, EqxInit, RunThreads, RunThreadsPanics,
       SetSchedulerConfig, Fork, ForkNostack, ForkStack, Refork, Restarted, ReforkAsserts,
       UserInst, SingleStep, SysPutc, SysExit, SyscallPanics, RunThreadsReturn, AtSwi, vars
  <2>3. ntids > 2 /\ th[2].fn = c.B /\ th[2].stack_end = 0
    BY <2>1, <2>2 DEF BAlone
  <2>4. ntids \in Nat /\ ntids' \in Nat /\ 2 \in Tids
    BY <1>1, <2>3, SimpleStep, BoundsAssumption DEF SInv, Inv, TypeOK, Tids
  <2> QED BY <1>1, <2>3, <2>4, RoutineKept DEF BAlone
<1> QED BY <1>2, <1>3 DEF BAlone

\* Without stacks the copies of B are forked with the hash of B's run alone.
LEMMA ForksHonestly ==
  ASSUME SInv, BAlone, LocalInv, ~c.enable_stack, [SimpleNext]_svars
  PROVE  HonestFork
<1>1. ntids \in Nat \ {0}
  BY BoundsAssumption DEF SInv, Inv, TypeOK
<1>2. ASSUME NEW f, NEW h, ForkNostack(f, h), h \in {0, LastHash(Solo(f, 0))}
      PROVE  HonestFork
  <2>1. th'[ntids] = NewThread(f, h, 0, 0)
    BY <1>1, <1>2 DEF ForkNostack, ForkStack
  <2> QED BY <1>2, <2>1 DEF HonestFork, NewThread
<1>3. CASE ForkA
  BY <1>2, <1>3 DEF ForkA, ForkWith
<1>4. CASE ForkB
  BY <1>2, <1>4 DEF ForkB
<1>5. CASE ForkCopy
  <2>1. ForkNostack(c.B, h_B) /\ at = "fork_copies" /\ mode = "client"
    BY <1>5 DEF ForkCopy, ForkWith, ForkNostack, ForkStack
  <2>2. ntids > 2 /\ th[2].fn = c.B /\ th[2].stack_end = 0 /\ Known
    BY <2>1 DEF BAlone, SInv, AtLabels, PForkCopies
  <2>3. 2 \in Tids /\ th[2].expected_hash = h_B /\ h_B # 0
    BY <1>1, <2>2 DEF Known, Tids
  <2>4. h_B = LastHash(Solo(c.B, 0))
    BY <2>2, <2>3 DEF LocalInv, OnSoloRun, SoloHash, SoloOf
  <2> QED BY <1>2, <2>1, <2>4
<1>6. CASE ~ForkA /\ ~ForkB /\ ~ForkCopy
  <2>1. ntids' = ntids
    BY <1>6 DEF svars, SimpleNext, Start, SequentialConfig, RunA, RunB, ReforkB, ReforkA,
       SwitchAt, XRun, Check, ReforkTodo, RunStep, Run, ReforkCall, EqxInit, Refork,
       ReforkAsserts, SetSchedulerConfig, RunThreads, RunThreadsPanics, Panic, vars, threadVars,
       Machine, UserInst, SingleStep, SysPutc, SysExit, SyscallPanics, RunThreadsReturn,
       Schedule, AddHash
  <2> QED BY <2>1 DEF HonestFork
<1> QED BY <1>3, <1>4, <1>5, <1>6

\* Without stacks simple_interleave_check accuses no routines that do not disturb
\* each other: it does not panic on a mismatch, whatever the number of copies.
\* With stacks it may, because B runs alone without one and the stack pointer is
\* hashed (interleave-checker.c:36-109, eqx-threads.c:486-502).
THEOREM SimpleAccusesNobody ==
  Undisturbed => (SimpleSpec => [](c.enable_stack \/ NoFalseAlarm))
<1> SUFFICES ASSUME Undisturbed PROVE SimpleSpec => [](c.enable_stack \/ NoFalseAlarm)
  OBVIOUS
<1> DEFINE All == SInv /\ BAlone /\ (~c.enable_stack => LocalInv)
<1>1. SimpleInit => All
  BY SimpleInvInit, LocalInit DEF SimpleInit, HarnessInit, BAlone
<1>2. ASSUME All, [SimpleNext]_svars PROVE All'
  <2>1. /\ SInv' /\ (AnyClient \/ Machine \/ UNCHANGED vars) /\ BAlone'
    BY <1>2, SimpleStep, BAloneStep DEF AnyNext
  <2>2. c' = c
    BY <1>2 DEF svars, checkVars, SimpleNext, Start, SequentialConfig, ForkA, RunA,
       ForkB, RunB, ReforkB, ForkCopy, ReforkA, SwitchAt, XRun, Check
  <2>3. ASSUME ~c.enable_stack PROVE LocalInv'
    <3>1. HonestFork
      BY <1>2, <2>3, ForksHonestly
    <3> QED BY <1>2, <2>1, <2>3, <3>1, LocalAny
  <2> QED BY <2>1, <2>2, <2>3
<1>3. All => c.enable_stack \/ NoFalseAlarm
  BY DEF LocalInv
<1> QED BY <1>1, <1>2, <1>3, PTL DEF SimpleSpec
-----------------------------------------------------------------------------
(* A run with A preempted is the run in turn.                              *)

\* How far the loop over switch points is: the queue that is built for its first
\* pass, and for each of the others, and the run of it.
InTurn == Along(QueueOrder, JobsOf(QueueOrder), inst, mem0)

SerialLabels ==
    /\ at = "fork_copies" => QueuedSoFar(Tids, copies, <<>>, runq)
    /\ at = "x_refork" => QueuedSoFar(Tids, ths, todo, runq)
    /\ at = "x_run" => runq = QueueOrder /\ config.type = "SEQUENTIAL"
    /\ at = "x_check" => InTurn

SerialInv == SInv /\ TurnInv /\ StepInvariant /\ (mode # "panic" => SerialLabels)

SerialHere == SerialInv /\ mode' # "panic"

LEMMA SerialHereFacts ==
  ASSUME SerialHere
  PROVE  /\ SInv /\ Inv /\ Fresh /\ c \in CheckerConfig /\ StepsFromSaved
         /\ mode # "panic" => AtLabels /\ SerialLabels
BY DEF SerialHere, SerialInv, SInv, TurnInv, StepInvariant

LEMMA SerialReforkB ==
  ASSUME SerialHere, ReforkB
  PROVE  SerialLabels'
<1>1. /\ at = "done_B" /\ at' = "fork_copies" /\ mode = "client" /\ Refork(th_B)
      /\ copies' = <<th_B>> /\ Inv
  BY SerialHereFacts DEF ReforkB, ReforkCall, ReforkAsserts, InClient, SerialHere, Panic
<1>2. PDoneB
  BY <1>1, SerialHereFacts DEF AtLabels
<1>3. th_B \in Tids /\ runq = <<>>
  <2>1. 2 \in Tids /\ th_B = 2
    BY <1>2 DEF PDoneB, Tids
  <2>2. Active = {}
    BY <1>1, <1>2, <2>1, RanAlone DEF PDoneB
  <2> QED BY <1>1, <2>1, <2>2, NoneQueued
<1>4. runq' = <<th_B>> \o runq /\ Tids' = Tids
  BY <1>1 DEF Refork, Tids
<1>5. QueuedSoFar(Tids, <<>>, <<>>, runq)
  <2>1. <<>> \in Seq(Tids)
    OBVIOUS
  <2> QED BY <1>3, <2>1, QueuedNone
<1>6. QueuedSoFar(Tids, Append(<<>>, th_B), <<>>, runq')
  BY <1>3, <1>4, <1>5, QueuedAppended
<1>7. Append(<<>>, th_B) = <<th_B>>
  OBVIOUS
<1> QED BY <1>1, <1>4, <1>6, <1>7 DEF SerialLabels

LEMMA SerialForkCopy ==
  ASSUME SerialHere, ForkCopy
  PROVE  SerialLabels'
<1>1. /\ at = "fork_copies" /\ at' = at /\ ForkWith(c.enable_stack, c.B, h_B)
      /\ copies' = Append(copies, ntids) /\ Inv /\ c \in CheckerConfig
  BY SerialHereFacts DEF ForkCopy, loopVars
<1>2. mode = "client"
  BY <1>1 DEF ForkWith, Fork, ForkNostack, ForkStack
<1>3. Known /\ QueuedSoFar(Tids, copies, <<>>, runq)
  BY <1>1, <1>2, SerialHereFacts DEF AtLabels, PForkCopies, SerialLabels
<1>4. Tids' = Tids \cup {ntids}
  BY <1>1, <1>3, ForkEffect DEF Known, CheckerConfig
<1>5. PICK base, nbytes : ForkStack(c.B, h_B, base, nbytes)
  BY <1>1 DEF ForkWith, Fork, ForkNostack
<1>6. runq' = <<ntids>> \o runq
  BY <1>5 DEF ForkStack
<1>7. QueuedSoFar(Tids', copies', <<>>, runq')
  BY <1>1, <1>3, <1>4, <1>6, QueuedAppended
<1> QED BY <1>1, <1>7 DEF SerialLabels

LEMMA SerialReforkA ==
  ASSUME SerialHere, ReforkA
  PROVE  SerialLabels'
<1>1. /\ at = "fork_copies" /\ at' = "x_refork" /\ mode = "client" /\ Refork(th_A)
      /\ Inv /\ c \in CheckerConfig /\ UNCHANGED <<todo, copies, th_A>>
  BY SerialHereFacts
     DEF ReforkA, ReforkCall, Refork, ReforkAsserts, SerialHere, Panic, checkVars
<1>2. Known /\ QueuedSoFar(Tids, copies, <<>>, runq) /\ todo = <<>>
  BY <1>1, SerialHereFacts DEF AtLabels, PForkCopies, SerialLabels
<1>3. th_A \in Tids
  BY <1>1, <1>2, KnownFacts DEF Known, HasA
<1>4. runq' = <<th_A>> \o runq /\ Tids' = Tids
  BY <1>1 DEF Refork, Tids
<1>5. QueuedSoFar(Tids, Append(copies, th_A), <<>>, runq')
  BY <1>2, <1>3, <1>4, QueuedAppended
<1> QED BY <1>1, <1>2, <1>4, <1>5 DEF SerialLabels, ths

LEMMA SerialReforkTodo ==
  ASSUME SerialHere, ReforkTodo, UNCHANGED checkVars
  PROVE  SerialLabels'
<1>1. /\ todo # <<>> /\ Refork(Head(todo)) /\ todo' = Tail(todo) /\ at' = at
      /\ mode = "client" /\ UNCHANGED <<copies, th_A>>
  BY DEF ReforkTodo, ReforkCall, Refork, ReforkAsserts, SerialHere, Panic, checkVars
<1>2. at = "x_refork" /\ QueuedSoFar(Tids, ths, todo, runq)
  BY <1>1, SerialHereFacts DEF AtLabels, SerialLabels
<1>3. runq' = <<Head(todo)>> \o runq /\ Tids' = Tids
  BY <1>1 DEF Refork, Tids
<1>4. QueuedSoFar(Tids, ths, todo', runq')
  BY <1>1, <1>2, <1>3, QueuedOneMore
<1> QED BY <1>1, <1>2, <1>3, <1>4 DEF SerialLabels, ths

LEMMA SerialSwitchAt ==
  ASSUME SerialHere, SwitchAt
  PROVE  SerialLabels'
<1>1. /\ at = "x_refork" /\ todo = <<>> /\ at' = "x_run" /\ mode = "client"
      /\ UNCHANGED <<runq, copies, th_A>>
      /\ config' = [config EXCEPT !.type = "SEQUENTIAL", !.enable_interleave = TRUE,
                                  !.interleave_tid = th_A, !.switch_on_inst_n = inst]
  BY DEF SwitchAt, SetSchedulerConfig, SerialHere, Panic, checkVars
<1>2. Known /\ Inv /\ c \in CheckerConfig /\ QueuedSoFar(Tids, ths, todo, runq)
  BY <1>1, SerialHereFacts DEF AtLabels, PXRefork, WithA, SerialLabels
<1>3. config'.type = "SEQUENTIAL"
  BY <1>1, <1>2 DEF Inv, TypeOK, SchedulerConfig
<1>4. copies \in Seq(Tids) /\ th_A \in Tids
  BY <1>2, KnownFacts DEF Known, HasA
<1>5. runq = QueueOrder
  BY <1>1, <1>2, <1>4, QueuedInReverse DEF ths, QueueOrder
<1> QED BY <1>1, <1>3, <1>5 DEF SerialLabels, QueueOrder

LEMMA SerialXRun ==
  ASSUME SerialHere, XRun
  PROVE  SerialLabels'
<1>1. /\ at = "x_run" /\ at' = "x_check" /\ mode = "client" /\ RunThreads
      /\ UNCHANGED <<inst, copies, th_A>> /\ mem0' = mem /\ Inv /\ Fresh
  BY SerialHereFacts
     DEF XRun, Run, RunThreads, RunThreadsPanics, Panic, SerialHere, checkVars
<1>2. PXRun /\ todo = <<>> /\ runq = QueueOrder /\ config.type = "SEQUENTIAL"
  BY <1>1, SerialHereFacts DEF AtLabels, SerialLabels
<1>3. /\ config.enable_interleave /\ config.interleave_tid = Head(runq)
      /\ config.switch_on_inst_n = inst /\ inst \in Nat \ {0}
      /\ ~thread_x_has_yielded /\ ~complete_x_before_switch
  BY <1>2 DEF PXRun, AtPoint, AIsNext, WithA
<1>4. PICK q, m, n : q = runq /\ m = mem /\ n = inst
  OBVIOUS
<1>5. Along(q, JobsOf(q), n, m)' /\ JobsOf(q)' = JobsOf(q)
  BY <1>1, <1>2, <1>3, <1>4, AlongStartX
<1>6. q = QueueOrder' /\ n = inst' /\ m = mem0'
  BY <1>1, <1>2, <1>4 DEF QueueOrder
<1>7. JobsOf(QueueOrder)' = JobsOf(q)'
  BY <1>6 DEF JobsOf
<1> QED BY <1>1, <1>5, <1>6, <1>7 DEF InTurn, SerialLabels

LEMMA SerialRunStep ==
  ASSUME NoSelfBranch, SerialHere, RunStep, UNCHANGED checkVars
  PROVE  SerialLabels'
<1>1. /\ Machine /\ mode \in {"user", "return"} /\ Inv /\ StepsFromSaved
      /\ UNCHANGED <<at, inst, mem0, copies, th_A>> /\ mode' # "panic"
  BY SerialHereFacts
     DEF RunStep, checkVars, Machine, UserInst, SingleStep, SysPutc, SysExit, AtSwi,
         SyscallPanics, RunThreadsReturn, SerialHere
<1>2. at \in {"done_A", "done_B", "x_check"} /\ SerialLabels
  BY <1>1, SerialHereFacts DEF AtLabels, Labels
<1>3. ASSUME at = "x_check" PROVE InTurn'
  <2>1. PICK q, m, n, J : q = QueueOrder /\ m = mem0 /\ n = inst /\ J = JobsOf(q)
    OBVIOUS
  <2>2. Along(q, J, n, m)
    BY <1>2, <1>3, <2>1 DEF SerialLabels, InTurn
  <2>3. Along(q, J, n, m)'
    BY <1>1, <2>2, AlongMachine
  <2>4. J = JobsOf(q)'
    BY <2>3 DEF Along, SetUp
  <2>5. q = QueueOrder' /\ n = inst' /\ m = mem0'
    BY <1>1, <2>1 DEF QueueOrder
  <2>6. JobsOf(QueueOrder)' = JobsOf(q)'
    BY <2>5 DEF JobsOf
  <2> QED BY <2>3, <2>4, <2>5, <2>6 DEF InTurn
<1> QED BY <1>1, <1>2, <1>3 DEF SerialLabels

LEMMA SerialCheck ==
  ASSUME SerialHere, Check
  PROVE  SerialLabels'
<1>1. /\ at = "x_check" /\ mode = "client" /\ Inv /\ c \in CheckerConfig
      /\ UNCHANGED <<runq, ntids, copies, th_A>>
      /\ at' = "done" \/ (todo' = ths /\ at' = "x_refork")
  BY SerialHereFacts
     DEF Check, InClient, SerialHere, Panic, checkVars, vars, threadVars
<1>2. PXCheck
  BY <1>1, SerialHereFacts DEF AtLabels
<1>3. runq = <<>> /\ ths \in Seq(Tids)
  <2>1. Active = {}
    BY <1>1, <1>2, XReturned
  <2>2. copies \in Seq(Tids) /\ th_A \in Tids
    BY <1>1, <1>2, KnownFacts DEF PXCheck, WithA, Known, HasA
  <2> QED BY <1>1, <2>1, <2>2, NoneQueued DEF ths
<1>4. QueuedSoFar(Tids, ths, ths, runq)
  BY <1>3, QueuedNone
<1>5. Tids' = Tids /\ ths' = ths
  BY <1>1 DEF Tids, ths
<1> QED BY <1>1, <1>4, <1>5 DEF SerialLabels

LEMMA SerialInit == SimpleInit => SerialInv
<1> SUFFICES ASSUME SimpleInit PROVE SerialInv
  OBVIOUS
<1>1. SInv /\ TurnInv /\ StepInvariant
  BY SimpleInvInit, TurnInit, StepInvariantInit DEF SimpleInit, HarnessInit
<1>2. SerialLabels
  BY DEF SimpleInit, HarnessInit, SerialLabels
<1> QED BY <1>1, <1>2 DEF SerialInv

LEMMA SerialFrame ==
  ASSUME SerialHere, UNCHANGED svars
  PROVE  SerialLabels'
<1>1. /\ UNCHANGED <<vars, loopVars, checkVars>>
      /\ UNCHANGED <<th, ntids, runq, cur, mode, config>>
  BY DEF svars, vars, threadVars, runVars
<1>2. SerialLabels
  BY <1>1, SerialHereFacts DEF SerialHere
<1>3. QueueOrder' = QueueOrder /\ ths' = ths /\ Tids' = Tids
  BY <1>1 DEF checkVars, QueueOrder, ths, Tids
<1>4. InTurn' = InTurn
  <2>1. JobsOf(QueueOrder)' = JobsOf(QueueOrder)
    BY <1>1, <1>3 DEF JobsOf
  <2>2. PICK q, m, n, J : q = QueueOrder /\ m = mem0 /\ n = inst /\ J = JobsOf(q)
    OBVIOUS
  <2>3. q = QueueOrder' /\ m = mem0' /\ n = inst' /\ J = JobsOf(QueueOrder)'
    BY <1>1, <1>3, <2>1, <2>2 DEF loopVars
  <2>4. Along(q, J, n, m)' = Along(q, J, n, m)
    BY <1>1, AlongFrame
  <2> QED BY <2>2, <2>3, <2>4 DEF InTurn
<1> QED BY <1>1, <1>2, <1>3, <1>4 DEF SerialLabels, loopVars, checkVars

LEMMA SerialStep == NoSelfBranch /\ SerialInv /\ [SimpleNext]_svars => SerialInv'
<1> SUFFICES ASSUME NoSelfBranch, SerialInv, [SimpleNext]_svars PROVE SerialInv'
  OBVIOUS
<1>1. [AnyNext]_vars /\ SInv'
  BY SimpleStep DEF SerialInv
<1>2. TurnInv' /\ StepInvariant'
  BY <1>1, TurnAnyStep, StepInvariantAnyStep DEF SerialInv
<1>3. ASSUME mode' # "panic" PROVE SerialLabels'
  <2>1. SerialHere
    BY <1>3 DEF SerialHere
  <2>2. CASE Start \/ SequentialConfig \/ ForkA \/ RunA \/ ForkB \/ RunB
    <3>1. at' \notin {"fork_copies", "x_refork", "x_run", "x_check"}
      BY <1>3, <2>2
         DEF Start, SequentialConfig, ForkA, RunA, ForkB, RunB, Run
    <3> QED BY <3>1 DEF SerialLabels
  <2>3. CASE UNCHANGED svars
    BY <2>1, <2>3, SerialFrame
  <2> QED BY <2>1, <2>2, <2>3, SerialReforkB, SerialForkCopy, SerialReforkA,
             SerialReforkTodo, SerialSwitchAt, SerialXRun, SerialCheck, SerialRunStep
          DEF SimpleNext
<1> QED BY <1>1, <1>2, <1>3 DEF SerialInv

\* A run with A preempted after inst instructions computes what A's first inst
\* instructions, the copies of B, last fork first, and the rest of A compute, for
\* every thread's hash and for the memory
\* (interleave-checker.c:34-36, 87-100, eqx-threads.c:266-325, 474-515).
THEOREM SimpleRunsAreSerial == NoSelfBranch => (SimpleSpec => []CutRunsAreSerial)
<1> SUFFICES ASSUME NoSelfBranch PROVE SimpleSpec => []CutRunsAreSerial
  OBVIOUS
<1>1. SerialInv => CutRunsAreSerial
  <2> SUFFICES ASSUME SerialInv, at = "x_check", InClient
               PROVE  LeftBy(QueueOrder) = CutRun(JobsOf(QueueOrder), inst, mem0)
    BY DEF CutRunsAreSerial
  <2>1. InTurn /\ mode # "user"
    BY DEF SerialInv, SerialLabels, InClient
  <2> QED BY <2>1 DEF InTurn, Along, Over
<1>2. SerialInv /\ [SimpleNext]_svars => SerialInv'
  BY SerialStep
<1> QED BY <1>1, <1>2, SerialInit, PTL DEF SimpleSpec

-----------------------------------------------------------------------------
(* The verdict.  Every thread runs with the memory as it was at boot, so   *)
(* the hash that is expected of it is the one it has alone.                *)

\* What thread t is to run without a stack, and what that computes alone.
JobOf(t) == Job(IF t = 1 THEN c.A ELSE c.B, 0)
HashAlone(t) == Alone(JobOf(t).fn, 0, InitMem).hash

RightThreads ==
    \A t \in Tids : /\ Job(th[t].fn, th[t].stack_end) = JobOf(t)
                    /\ th[t].expected_hash \in {0, HashAlone(t)}

\* Every run starts with the memory as it was at boot, the runs of A and of B
\* alone without an X.
InRow == \E q, J : Along(q, J, Never, InitMem)

RightRun ==
    /\ mode = "client" => mem = InitMem
    /\ at \in {"done_A", "done_B"} => InRow
    /\ at = "x_check" => mem0 = InitMem

\* The cuts so far have changed no hash.
Agreed ==
    /\ at \in {"x_refork", "x_run", "x_check"} => \A n \in 1..(inst - 1) : ~RacyAt(n)
    /\ at = "done" => ~Racy

InstSoFar == inst \in Nat /\ (at \in BeforeLoop => inst = 0)

Promise == ~c.enable_stack /\ Restores

Right == RightThreads /\ RightRun /\ Agreed

VerdictInv ==
    /\ SerialInv /\ InstSoFar
    /\ why = "mismatch" => mode = "panic"
    /\ at = "done" => mode # "panic"
    /\ Promise /\ mode # "panic" => Right
    /\ Promise /\ why = "mismatch" => Racy

-----------------------------------------------------------------------------
\* A call only goes on to later switch points.
LEMMA CallFrame ==
  ASSUME InstSoFar, [SimpleNext]_svars
  PROVE  c' = c /\ inst' >= inst /\ InstSoFar'
<1>1. c' = c
  BY DEF svars, checkVars, SimpleNext, Start, SequentialConfig, ForkA, RunA,
     ForkB, RunB, ReforkB, ForkCopy, ReforkA, SwitchAt, XRun, Check
<1>2. \/ inst' = inst /\ (at' \in BeforeLoop => at \in BeforeLoop)
      \/ inst = 0 /\ inst' = 1 /\ at' = "x_refork"
      \/ inst' = inst + 1 /\ at' = "x_refork"
  BY DEF InstSoFar, svars, loopVars, SimpleNext, Start, SequentialConfig, ForkA, RunA,
     ForkB, RunB, ReforkB, ForkCopy, ReforkA, SwitchAt, XRun, Check, Run, ReforkTodo, RunStep,
     BeforeLoop
<1> QED BY <1>1, <1>2 DEF InstSoFar, BeforeLoop

\* What is promised of these is promised of the ones before, and what is racy
\* remains so.
LEMMA CutsGrow ==
  ASSUME inst \in Nat, inst' \in Nat, inst' >= inst, c' = c
  PROVE  /\ JobsFor' = JobsFor /\ \A t : JobOf(t)' = JobOf(t) /\ HashAlone(t)' = HashAlone(t)
         /\ Promise' => Promise
         /\ Racy => Racy'
         /\ \A n : RacyAt(n)' <=> RacyAt(n)
<1>1. JobsFor' = JobsFor /\ \A t : JobOf(t)' = JobOf(t) /\ HashAlone(t)' = HashAlone(t)
  BY DEF JobsFor, N, JobOf, HashAlone
<1>2. \A n : RacyAt(n)' <=> RacyAt(n)
  BY <1>1 DEF RacyAt
<1>3. 1..inst \subseteq 1..inst'
  OBVIOUS
<1>4. Promise' => Promise
  BY <1>1, <1>3 DEF Promise, Restores
<1>5. Racy => Racy'
  BY <1>2, <1>3 DEF Racy, CutPoints
<1> QED BY <1>1, <1>2, <1>4, <1>5

LEMMA RightFrame ==
  ASSUME RightThreads, Tids' = Tids, c' = c,
         \A t \in Tids : /\ th'[t].fn = th[t].fn /\ th'[t].stack_end = th[t].stack_end
                         /\ th'[t].expected_hash = th[t].expected_hash
  PROVE  RightThreads'
<1>1. \A t : JobOf(t)' = JobOf(t) /\ HashAlone(t)' = HashAlone(t)
  BY DEF JobOf, HashAlone
<1> QED BY <1>1 DEF RightThreads

\* The queue of a run with A, and its routines.
LEMMA QueueFacts ==
  ASSUME Inv, c \in CheckerConfig, WithA
  PROVE  /\ QueueOrder \in Seq(Tids) /\ Len(QueueOrder) = N + 1 /\ N + 1 \in Nat \ {0}
         /\ QueueOrder[1] = 1
         /\ \A k \in 2..(N + 1) : QueueOrder[k] \in Tids \ {1}
<1>1. /\ copies \in Seq(Tids) /\ Len(copies) = N /\ N \in Nat \ {0}
      /\ Range(copies) = Tids \ {1} /\ 1 \in Tids /\ th_A = 1
  BY KnownFacts DEF WithA, Known, HasA
<1>2. /\ QueueOrder \in Seq(Tids) /\ Len(QueueOrder) = N + 1 /\ QueueOrder[1] = 1
      /\ \A k \in 1..N : QueueOrder[k + 1] = copies[N + 1 - k]
  <2> DEFINE f == <<th_A>> \o Reverse(copies)
  <2>1. th_A \in Tids
    BY <1>1
  <2>2. /\ f \in Seq(Tids) /\ Len(f) = Len(copies) + 1 /\ f[1] = th_A
        /\ \A k \in 1..Len(copies) : f[k + 1] = copies[Len(copies) + 1 - k]
    BY <1>1, <2>1, LastFirst
  <2>3. QueueOrder = f
    BY DEF QueueOrder
  <2> HIDE DEF f
  <2> QED BY <1>1, <2>2, <2>3
<1>3. ASSUME NEW k \in 2..(N + 1) PROVE QueueOrder[k] \in Tids \ {1}
  <2>1. k - 1 \in 1..N /\ (k - 1) + 1 = k /\ N + 1 - (k - 1) \in 1..N
    BY <1>1
  <2>2. QueueOrder[k] = copies[N + 1 - (k - 1)]
    BY <1>2, <2>1
  <2>3. copies[N + 1 - (k - 1)] \in Range(copies)
    BY <1>1, <2>1 DEF Range
  <2> QED BY <1>1, <2>2, <2>3
<1> QED BY <1>1, <1>2, <1>3

LEMMA QueueJobs ==
  ASSUME Inv, c \in CheckerConfig, WithA, RightThreads
  PROVE  JobsOf(QueueOrder) = JobsFor /\ Len(JobsFor) = N + 1
<1> DEFINE q == QueueOrder
<1>1. /\ q \in Seq(Tids) /\ Len(q) = N + 1 /\ N + 1 \in Nat \ {0} /\ q[1] = 1
      /\ \A k \in 2..(N + 1) : q[k] \in Tids \ {1}
  BY QueueFacts
<1> HIDE DEF q
<1>2. ASSUME NEW k \in 1..(N + 1)
      PROVE  Job(th[q[k]].fn, th[q[k]].stack_end) = Job(IF k = 1 THEN c.A ELSE c.B, 0)
  <2>1. q[k] \in Tids
    BY <1>1
  <2>2. q[k] = 1 <=> k = 1
    BY <1>1
  <2> QED BY <2>1, <2>2 DEF RightThreads, JobOf
<1>3. JobsOf(q) = JobsFor
  BY <1>1, <1>2 DEF JobsOf, JobsFor
<1> QED BY <1>1, <1>3 DEF JobsFor, q

\* The queue of any run, and what its routines compute alone.
LEMMA RightJobs ==
  ASSUME Inv, c \in CheckerConfig, RightThreads, NEW q \in Seq(Tids)
  PROVE  /\ Len(JobsOf(q)) = Len(q)
         /\ \A k \in 1..Len(q) : /\ q[k] \in Tids
                                 /\ HashAlone(q[k]) =
                                      Alone(JobsOf(q)[k].fn, JobsOf(q)[k].sp, InitMem).hash
         /\ Restores => Restoring(JobsOf(q), InitMem)
<1>1. Len(q) \in Nat /\ \A k \in 1..Len(q) : q[k] \in Tids
  OBVIOUS
<1>2. Len(JobsOf(q)) = Len(q) /\ \A k \in 1..Len(q) : JobsOf(q)[k] = JobOf(q[k])
  BY <1>1 DEF JobsOf, RightThreads
<1>3. \A t : JobOf(t).sp = 0
  BY DEF JobOf, Job
<1>4. ASSUME Restores, NEW t PROVE Alone(JobOf(t).fn, 0, InitMem).mem = InitMem
  <2>1. N \in Nat \ {0} /\ 1 \in 1..2 /\ 2 \in 1..2
    BY DEF N, CheckerConfig
  <2>2. JobsFor[1].fn = c.A /\ JobsFor[2].fn = c.B
    <3>1. 1 \in 1..(N + 1) /\ 2 \in 1..(N + 1)
      BY <2>1
    <3> QED BY <3>1 DEF JobsFor, Job
  <2>3. JobOf(t).fn \in {c.A, c.B}
    BY DEF JobOf, Job
  <2> QED BY <1>4, <2>1, <2>2, <2>3 DEF Restores
<1>5. Restores => Restoring(JobsOf(q), InitMem)
  BY <1>1, <1>2, <1>3, <1>4 DEF Restoring
<1> QED BY <1>1, <1>2, <1>3, <1>5 DEF HashAlone

\* What the run of x_check is, in terms of the call.
LEMMA XTurn ==
  ASSUME Inv, c \in CheckerConfig, AtLabels, RightThreads, RightRun, InTurn, at = "x_check"
  PROVE  /\ QueueOrder \in Seq(Tids) /\ Len(QueueOrder) = N + 1 /\ N + 1 \in Nat \ {0}
         /\ JobsOf(QueueOrder) = JobsFor /\ Len(JobsFor) = N + 1
         /\ Along(QueueOrder, JobsFor, inst, InitMem)
         /\ inst \in Nat \ {0} /\ inst \in 1..inst
         /\ \A t \in Tids : th[t].expected_hash # 0 /\ th[t].expected_hash = HashAlone(t)
<1>1. WithA /\ mem0 = InitMem
  BY DEF AtLabels, PXCheck, RightRun
<1>2. inst \in Nat \ {0} /\ inst \in 1..inst
  BY <1>1 DEF WithA
<1>3. \A t \in Tids : th[t].expected_hash # 0
  BY <1>1 DEF WithA, Known, HasA
<1> QED BY <1>1, <1>2, <1>3, QueueFacts, QueueJobs DEF InTurn, RightThreads

-----------------------------------------------------------------------------
(* One lemma for each statement of the checker.                            *)

VerdictHere == VerdictInv /\ [SimpleNext]_svars /\ Promise' /\ mode' # "panic"

LEMMA HereFacts ==
  ASSUME VerdictHere
  PROVE  /\ SerialHere /\ SInv /\ Inv /\ Fresh /\ c \in CheckerConfig
         /\ c' = c /\ inst \in Nat /\ inst' >= inst /\ InstSoFar' /\ inst' \in Nat
         /\ Promise /\ ~c.enable_stack /\ Restores
         /\ mode # "panic" => AtLabels /\ RightThreads /\ RightRun /\ Agreed
         /\ JobsFor' = JobsFor /\ \A t : JobOf(t)' = JobOf(t) /\ HashAlone(t)' = HashAlone(t)
         /\ \A n : RacyAt(n)' <=> RacyAt(n)
<1>1. SerialHere /\ SInv /\ Inv /\ Fresh /\ c \in CheckerConfig /\ (mode # "panic" => AtLabels)
  <2>1. SerialHere
    BY DEF VerdictHere, VerdictInv, SerialHere
  <2> QED BY <2>1, SerialHereFacts
<1>2. c' = c /\ inst \in Nat /\ inst' >= inst /\ InstSoFar' /\ inst' \in Nat
  BY CallFrame DEF VerdictHere, VerdictInv, InstSoFar
<1>3. /\ Promise
      /\ JobsFor' = JobsFor /\ \A t : JobOf(t)' = JobOf(t) /\ HashAlone(t)' = HashAlone(t)
      /\ \A n : RacyAt(n)' <=> RacyAt(n)
  BY <1>2, CutsGrow DEF VerdictHere
<1> QED BY <1>1, <1>2, <1>3 DEF VerdictHere, VerdictInv, Promise, Right

\* The calls that leave the threads and the memory alone.
LEMMA VerdictClient ==
  ASSUME VerdictHere,
         \/ Start \/ SequentialConfig \/ ReforkB \/ ReforkA
         \/ ReforkTodo /\ UNCHANGED checkVars
         \/ SwitchAt
  PROVE  Right'
<1>1. /\ mode = "client" /\ mem' = mem /\ ntids' = ntids
      /\ \/ th' = th
         \/ \E t : Refork(t) /\ th' = Restarted(t)
  BY DEF VerdictHere, Start, EqxInit, SequentialConfig, ReforkB, ReforkA, ReforkTodo,
     SwitchAt, SetSchedulerConfig, InClient,
     ReforkCall, Refork, ReforkAsserts, Panic, vars, threadVars, cpuVars
<1>2. /\ Inv /\ RightThreads /\ RightRun /\ Agreed /\ AtLabels /\ c' = c
      /\ \A n : RacyAt(n)' <=> RacyAt(n)
  BY <1>1, HereFacts
<1>3. th \in [Tids -> Thread] /\ Tids' = Tids
  BY <1>1, <1>2 DEF Inv, TypeOK, Tids
<1>4. \A t \in Tids : /\ th'[t].fn = th[t].fn /\ th'[t].stack_end = th[t].stack_end
                      /\ th'[t].expected_hash = th[t].expected_hash
  <2>1. ASSUME NEW t, th' = Restarted(t), NEW s \in Tids
        PROVE  /\ th'[s].fn = th[s].fn /\ th'[s].stack_end = th[s].stack_end
               /\ th'[s].expected_hash = th[s].expected_hash
    BY <1>3, <2>1 DEF Restarted, Thread
  <2> QED BY <1>1, <2>1
<1>5. RightThreads'
  BY <1>2, <1>3, <1>4, RightFrame
<1>6. \/ at' \in {"config", "fork_A", "fork_copies"}
      \/ inst' = 1 /\ at' = "x_refork"
      \/ inst' = inst /\ at = "x_refork" /\ at' \in {"x_refork", "x_run"}
  <2>1. ReforkTodo => at = "x_refork"
    BY <1>1, <1>2 DEF AtLabels, ReforkTodo
  <2> QED BY <2>1 DEF Start, SequentialConfig, ReforkB, ReforkA, ReforkTodo, SwitchAt
<1>7. Agreed'
  <2>1. 1..(1 - 1) = {}
    OBVIOUS
  <2> QED BY <1>2, <1>6, <2>1 DEF Agreed
<1>8. RightRun'
  BY <1>1, <1>2, <1>6 DEF RightRun
<1> QED BY <1>5, <1>7, <1>8 DEF Right

LEMMA VerdictFork ==
  ASSUME VerdictHere, ForkA \/ ForkB \/ ForkCopy
  PROVE  Right'
<1>1. /\ Inv /\ c \in CheckerConfig /\ ~c.enable_stack /\ c' = c
      /\ at \in {"fork_A", "done_A", "fork_copies"}
      /\ at' \in {"run_A", "run_B", "fork_copies"}
      /\ \A t : JobOf(t)' = JobOf(t) /\ HashAlone(t)' = HashAlone(t)
  BY HereFacts DEF ForkA, ForkB, ForkCopy, loopVars
<1>2. PICK f, h :
        /\ ForkNostack(f, h)
        /\ \/ at = "fork_A" /\ f = c.A /\ h = 0
           \/ at = "done_A" /\ f = c.B /\ h = 0
           \/ at = "fork_copies" /\ f = c.B /\ h = h_B
  BY <1>1 DEF ForkA, ForkB, ForkCopy, ForkWith
<1>3. mode = "client" /\ ForkStack(f, h, 0, 0)
  BY <1>2 DEF ForkNostack, ForkStack
<1>4. RightThreads /\ RightRun /\ AtLabels
  BY <1>3, HereFacts
<1>5. ntids \in Nat \ {0} /\ Tids = 1..(ntids - 1) /\ th \in [Tids -> Thread]
  BY <1>1, ActiveFacts DEF Inv, TypeOK
<1>6. /\ ntids' = ntids + 1 /\ mem' = mem
      /\ th' = [t \in 1..ntids |-> IF t = ntids THEN NewThread(f, h, 0, 0) ELSE th[t]]
  BY <1>3 DEF ForkStack, cpuVars
<1>7. f = JobOf(ntids).fn /\ h \in {0, HashAlone(ntids)}
  <2>1. CASE at = "fork_A"
    BY <1>2, <1>4, <2>1 DEF AtLabels, PFirst, JobOf, Job
  <2>2. CASE at = "done_A"
    BY <1>2, <1>4, <2>2 DEF AtLabels, PDoneA, JobOf, Job
  <2>3. CASE at = "fork_copies"
    <3>1. Known /\ ntids > 2 /\ h = h_B /\ f = c.B
      BY <1>2, <1>4, <2>3 DEF AtLabels, PForkCopies, Known
    <3>2. 2 \in Tids /\ th[2].expected_hash = h_B
      BY <1>5, <3>1 DEF Known
    <3>3. h_B \in {0, HashAlone(2)}
      BY <1>4, <3>2 DEF RightThreads
    <3>4. JobOf(ntids) = JobOf(2) /\ JobOf(2).fn = c.B
      BY <1>5, <3>1 DEF JobOf, Job
    <3> QED BY <3>1, <3>3, <3>4 DEF HashAlone
  <2> QED BY <1>1, <2>1, <2>2, <2>3
<1>8. RightThreads'
  <2>1. ASSUME NEW t \in Tids
        PROVE  /\ Job(th'[t].fn, th'[t].stack_end) = JobOf(t)
               /\ th'[t].expected_hash \in {0, HashAlone(t)}
    <3>1. th'[t] = th[t]
      BY <1>5, <1>6
    <3> QED BY <1>4, <3>1 DEF RightThreads
  <2>2. /\ Job(th'[ntids].fn, th'[ntids].stack_end) = JobOf(ntids)
        /\ th'[ntids].expected_hash \in {0, HashAlone(ntids)}
    <3>1. th'[ntids] = NewThread(f, h, 0, 0)
      BY <1>5, <1>6
    <3>2. Job(f, 0) = JobOf(ntids)
      BY <1>7 DEF JobOf, Job
    <3> QED BY <1>7, <3>1, <3>2 DEF NewThread
  <2>3. Tids' = Tids \cup {ntids}
    BY <1>5, <1>6 DEF Tids
  <2> QED BY <1>1, <2>1, <2>2, <2>3 DEF RightThreads
<1>9. RightRun' /\ Agreed'
  BY <1>1, <1>3, <1>4, <1>6 DEF RightRun, Agreed
<1> QED BY <1>8, <1>9 DEF Right

\* A run starts.
LEMMA VerdictRun ==
  ASSUME VerdictHere, RunA \/ RunB \/ XRun
  PROVE  Right'
<1>1. /\ RunThreads /\ mode = "client" /\ mode' = "user" /\ mem0' = mem
      /\ UNCHANGED <<th, ntids, mem, inst>>
      /\ at \in {"run_A", "run_B", "x_run"}
      /\ at' = IF at = "run_A" THEN "done_A"
               ELSE IF at = "run_B" THEN "done_B" ELSE "x_check"
  BY DEF VerdictHere, RunA, RunB, XRun, Run, RunThreads, RunThreadsPanics, RunOneInst, Panic,
     threadVars
<1>2. /\ Inv /\ Fresh /\ RightThreads /\ RightRun /\ Agreed /\ AtLabels /\ mem = InitMem
      /\ c' = c /\ \A n : RacyAt(n)' <=> RacyAt(n)
  BY <1>1, HereFacts DEF RightRun
<1>3. RightThreads'
  BY <1>1, <1>2, RightFrame DEF Tids
<1>4. ASSUME at \in {"run_A", "run_B"} PROVE InRow'
  <2>1. ~config.enable_interleave
    BY <1>2, <1>4 DEF AtLabels, BeforeLoop
  <2>2. PICK t : Queued = {t}
    <3>1. Queued = Active
      BY <1>1, <1>2, ActiveFacts
    <3> QED BY <1>2, <1>4, <3>1 DEF AtLabels, PRunA, PRunB
  <2>3. ~(Len(runq) > 1)
    <3>1. runq \in Seq(Tids) /\ IsInjective(runq)
      BY <1>2 DEF Inv, TypeOK, RunqSound
    <3>2. ASSUME Len(runq) > 1 PROVE FALSE
      <4>1. 1 \in DOMAIN runq /\ 2 \in DOMAIN runq /\ 1 # 2
        BY <3>1, <3>2
      <4>2. runq[1] \in Queued /\ runq[2] \in Queued
        BY <4>1 DEF Queued, Range
      <4> QED BY <2>2, <3>1, <4>1, <4>2 DEF IsInjective
    <3> QED BY <3>2
  <2>4. PICK q, m, J : q = runq /\ m = mem /\ J = JobsOf(q)
    OBVIOUS
  <2>5. Along(q, JobsOf(q), Never, m)' /\ JobsOf(q)' = JobsOf(q)
    BY <1>1, <1>2, <2>1, <2>3, <2>4, AlongStartAll
  <2>6. m = InitMem
    BY <1>2, <2>4
  <2>7. Along(q, J, Never, InitMem)'
    BY <2>4, <2>5, <2>6
  <2> QED BY <2>7 DEF InRow
<1>5. RightRun'
  BY <1>1, <1>2, <1>4 DEF RightRun
<1>6. Agreed'
  BY <1>1, <1>2 DEF Agreed
<1> QED BY <1>3, <1>5, <1>6 DEF Right

\* A step inside a run.
LEMMA VerdictRunStep ==
  ASSUME NoSelfBranch, VerdictHere, RunStep, UNCHANGED checkVars
  PROVE  Right'
<1>0. Machine /\ UNCHANGED <<at, inst, mem0, c, copies, th_A>>
  BY DEF RunStep, checkVars
<1>1. /\ mode \in {"user", "return"} /\ mode' # "panic"
      /\ mode' = "client" => mode = "return" /\ mem' = mem
  <2>1. CASE RunThreadsReturn
    BY <1>0, <2>1 DEF RunThreadsReturn, VerdictHere
  <2>2. CASE UserInst \/ SysExit
    BY <1>0, <2>2 DEF UserInst, SysExit, AtSwi, RunOneInst, VerdictHere
  <2>3. CASE SingleStep \/ SysPutc
    BY <1>0, <2>3 DEF SingleStep, SysPutc, AtSwi, Schedule, RunOneInst, VerdictHere
  <2>4. CASE SyscallPanics
    BY <2>4 DEF SyscallPanics, Panic, VerdictHere
  <2> QED BY <1>0, <2>1, <2>2, <2>3, <2>4 DEF Machine
<1>2. /\ Inv /\ c \in CheckerConfig /\ StepsFromSaved /\ Restores /\ AtLabels
      /\ RightThreads /\ RightRun /\ Agreed /\ (at = "x_check" => InTurn)
      /\ \A t : JobOf(t)' = JobOf(t) /\ HashAlone(t)' = HashAlone(t)
      /\ \A n : RacyAt(n)' <=> RacyAt(n)
  BY <1>1, HereFacts, SerialHereFacts DEF SerialLabels
<1>3. at \in {"done_A", "done_B", "x_check"}
  BY <1>1, <1>2 DEF AtLabels, Labels
<1>4. /\ Tids' = Tids
      /\ \A t \in Tids : th'[t].fn = th[t].fn /\ th'[t].stack_end = th[t].stack_end
  BY <1>0, <1>2, MachineFrame
<1>5. ASSUME at # "x_check"
      PROVE  /\ InRow' /\ (mode' = "client" => mem' = InitMem)
             /\ AtSwi("exit") => cur \in Tids /\ th[cur].reg_hash = HashAlone(cur)
  <2>1. PICK q, J : Along(q, J, Never, InitMem)
    BY <1>2, <1>3, <1>5 DEF RightRun, InRow
  <2>2. Along(q, J, Never, InitMem)'
    BY <1>0, <1>1, <1>2, <2>1, AlongMachine
  <2>3. q \in Seq(Tids) /\ J = JobsOf(q)
    BY <2>1 DEF Along, SetUp
  <2>4. /\ Restoring(J, InitMem)
        /\ \A k \in 1..Len(q) : /\ q[k] \in Tids
                                /\ HashAlone(q[k]) = Alone(J[k].fn, J[k].sp, InitMem).hash
    BY <1>2, <2>3, RightJobs
  <2>5. ASSUME mode' = "client" PROVE mem' = InitMem
    <3>1. mode # "user"
      BY <1>1, <2>5
    <3> QED BY <1>1, <1>2, <2>1, <2>4, <2>5, <3>1, OverAlone
  <2>6. ASSUME AtSwi("exit") PROVE cur \in Tids /\ th[cur].reg_hash = HashAlone(cur)
    <3>1. PICK k \in 1..Len(q) :
            cur = q[k] /\ th[cur].reg_hash = Alone(J[k].fn, J[k].sp, InitMem).hash
      BY <1>2, <2>1, <2>4, <2>6, ExitsAlone
    <3> QED BY <2>4, <3>1
  <2> QED BY <2>2, <2>5, <2>6 DEF InRow
<1>6. ASSUME NEW t \in Tids PROVE th'[t].expected_hash \in {0, HashAlone(t)}
  <2>1. th[t].expected_hash \in {0, HashAlone(t)}
    BY <1>2 DEF RightThreads
  <2>2. CASE th'[t].expected_hash = th[t].expected_hash
    BY <2>1, <2>2
  <2>3. CASE /\ SysExit /\ t = cur /\ th[t].expected_hash = 0
             /\ th'[t].expected_hash = th[t].reg_hash
    <3>1. at # "x_check"
      BY <1>2, <2>3, XTurn
    <3>2. AtSwi("exit")
      BY <2>3 DEF SysExit
    <3> QED BY <1>5, <2>3, <3>1, <3>2
  <2> QED BY <1>0, <1>2, <2>2, <2>3, ExpectedRecorded
<1>7. RightThreads'
  BY <1>2, <1>4, <1>6 DEF RightThreads
<1>8. ASSUME at = "x_check", mode' = "client" PROVE mem' = InitMem
  <2>1. Along(QueueOrder, JobsFor, inst, InitMem) /\ inst \in 1..inst
    BY <1>2, <1>8, XTurn
  <2>2. LeftBy(QueueOrder) = CutRun(JobsFor, inst, InitMem)
    BY <1>1, <1>8, <2>1 DEF Along, Over
  <2>3. mem = CutRun(JobsFor, inst, InitMem).mem
    BY <2>2 DEF LeftBy
  <2> QED BY <1>1, <1>2, <1>8, <2>1, <2>3 DEF Restores
<1>9. RightRun'
  <2>1. mode' = "client" => mem' = InitMem
    BY <1>5, <1>8
  <2>2. at' \in {"done_A", "done_B"} => InRow'
    BY <1>0, <1>5
  <2> QED BY <1>0, <1>2, <2>1, <2>2 DEF RightRun
<1>10. Agreed'
  BY <1>0, <1>2, <1>3 DEF Agreed
<1> QED BY <1>7, <1>9, <1>10 DEF Right

\* After a run with A: it has changed no hash.
LEMMA RunAgrees ==
  ASSUME Inv, c \in CheckerConfig, AtLabels, RightThreads, RightRun, InTurn, at = "x_check",
         mode = "client"
  PROVE  ~RacyAt(inst)
<1> DEFINE q == QueueOrder
<1>1. /\ q \in Seq(Tids) /\ Len(q) = N + 1 /\ Len(JobsFor) = N + 1
      /\ Along(q, JobsFor, inst, InitMem) /\ JobsOf(q) = JobsFor
      /\ \A t \in Tids : th[t].expected_hash = HashAlone(t)
  BY XTurn
<1> HIDE DEF q
<1>2. LeftBy(q) = CutRun(JobsFor, inst, InitMem)
  BY <1>1 DEF Along, Over
<1>3. \A t \in Tids : th[t].reg_hash = HashAlone(t)
  <2>1. Ran(Tids)
    BY DEF AtLabels, PXCheck
  <2>2. \A t \in Tids : th[t].reg_hash = th[t].expected_hash
    BY <2>1, RanDone
  <2> QED BY <1>1, <2>2
<1>4. \A k \in 1..Len(q) :
        q[k] \in Tids /\ HashAlone(q[k]) = Alone(JobsFor[k].fn, JobsFor[k].sp, InitMem).hash
  BY <1>1, RightJobs
<1>5. LeftBy(q).hashes = HashesAlone(JobsFor, InitMem)
  <2>1. \A k \in 1..Len(q) :
          th[q[k]].reg_hash = Alone(JobsFor[k].fn, JobsFor[k].sp, InitMem).hash
    BY <1>3, <1>4
  <2> QED BY <1>1, <2>1 DEF LeftBy, HashesAlone
<1> QED BY <1>2, <1>5 DEF RacyAt

\* A that ended before its switch point has no later cut of its own.
LEMMA NoLaterCut ==
  ASSUME Inv, c \in CheckerConfig, AtLabels, RightThreads, RightRun, InTurn, at = "x_check",
         mode = "client", complete_x_before_switch, NEW n \in CutPoints, n \notin 1..inst
  PROVE  RacyAt(n) <=> RacyAt(inst)
<1>1. /\ Along(QueueOrder, JobsFor, inst, InitMem) /\ Len(JobsFor) = N + 1 /\ N + 1 \in Nat \ {0}
      /\ inst \in Nat \ {0}
  BY XTurn
<1>2. Short(JobsFor, inst, InitMem)
  BY <1>1 DEF Along, Over
<1>3. JobsFor[1] = Job(c.A, 0)
  BY <1>1 DEF JobsFor
<1>4. Alone(c.A, 0, InitMem) = RunTo(Begun(JobsFor, InitMem), Never)
  BY <1>3 DEF Alone, Begun, Job
<1>5. Alone(c.A, 0, InitMem) \in State
  BY <1>2, <1>4 DEF Short, After
<1>6. n \in Nat /\ n > inst
  BY <1>1, <1>5 DEF CutPoints, State
<1>7. n \in After(inst)
  BY <1>1, <1>6 DEF After, Never
<1>8. CutRun(JobsFor, n, InitMem) = CutRun(JobsFor, inst, InitMem)
  BY <1>1, <1>2, <1>7, ShortCutRun
<1> QED BY <1>8 DEF RacyAt

LEMMA VerdictCheck ==
  ASSUME VerdictHere, Check
  PROVE  Right'
<1>1. /\ at = "x_check" /\ mode = "client" /\ UNCHANGED <<th, ntids, mode, mem>>
      /\ \/ at' = "done" /\ inst' = inst /\ complete_x_before_switch
         \/ at' = "x_refork" /\ inst' = inst + 1
  BY DEF VerdictHere, Check, InClient, Panic, vars, threadVars, cpuVars
<1>2. /\ Inv /\ c \in CheckerConfig /\ AtLabels /\ RightThreads /\ RightRun /\ Agreed /\ InTurn
      /\ c' = c /\ inst \in Nat /\ \A n : RacyAt(n)' <=> RacyAt(n)
  BY <1>1, HereFacts, SerialHereFacts DEF SerialLabels
<1>3. \A n \in 1..inst : ~RacyAt(n)
  <2>1. ~RacyAt(inst)
    BY <1>1, <1>2, RunAgrees
  <2>2. \A n \in 1..(inst - 1) : ~RacyAt(n)
    BY <1>1, <1>2 DEF Agreed
  <2>3. \A n \in 1..inst : n \in 1..(inst - 1) \/ n = inst
    BY <1>2
  <2> QED BY <2>1, <2>2, <2>3
<1>4. RightThreads'
  BY <1>1, <1>2, RightFrame DEF Tids
<1>5. RightRun'
  BY <1>1, <1>2 DEF RightRun
<1>6. Agreed'
  <2>1. CASE at' = "done" /\ inst' = inst /\ complete_x_before_switch
    <3>1. inst \in 1..inst /\ CutPoints' = CutPoints
      BY <1>1, <1>2, <2>1, XTurn DEF CutPoints
    <3>2. \A n \in CutPoints : ~RacyAt(n)
      BY <1>1, <1>2, <1>3, <2>1, <3>1, NoLaterCut
    <3> QED BY <1>2, <2>1, <3>1, <3>2 DEF Agreed, Racy
  <2>2. CASE at' = "x_refork" /\ inst' = inst + 1
    <3>1. inst' - 1 = inst
      BY <1>2, <2>2
    <3> QED BY <1>2, <1>3, <2>2, <3>1 DEF Agreed
  <2> QED BY <1>1, <2>1, <2>2
<1> QED BY <1>4, <1>5, <1>6 DEF Right

\* A mismatch is the hash of A cut by the copies, or of a copy that ran in the
\* middle of A.
LEMMA AccusesRacy ==
  ASSUME VerdictInv, Promise, [AnyNext]_vars, why' = "mismatch", why # "mismatch"
  PROVE  Racy
<1>0. Inv /\ c \in CheckerConfig
  BY DEF VerdictInv, SerialInv, SInv
<1>1. AtSwi("exit") /\ ~HashMatches /\ mode = "user"
  BY <1>0, Accuses DEF AtSwi
<1>2. /\ Restores /\ AtLabels /\ RightThreads /\ RightRun
      /\ at = "x_check" => InTurn
  BY <1>1 DEF VerdictInv, SerialInv, SInv, Right, Promise, SerialLabels
<1>3. at \in {"done_A", "done_B", "x_check"}
  BY <1>1, <1>2 DEF AtLabels, Labels
<1>4. cur \in Tids => th[cur].reg_hash # HashAlone(cur)
  BY <1>1, <1>2 DEF RightThreads, HashMatches
<1>5. CASE at # "x_check"
  <2>1. PICK q, J : Along(q, J, Never, InitMem)
    BY <1>2, <1>3, <1>5 DEF RightRun, InRow
  <2>2. q \in Seq(Tids) /\ J = JobsOf(q)
    BY <2>1 DEF Along, SetUp
  <2>3. /\ Restoring(J, InitMem)
        /\ \A k \in 1..Len(q) : /\ q[k] \in Tids
                                /\ HashAlone(q[k]) = Alone(J[k].fn, J[k].sp, InitMem).hash
    BY <1>0, <1>2, <2>2, RightJobs
  <2>4. PICK k \in 1..Len(q) :
          cur = q[k] /\ th[cur].reg_hash = Alone(J[k].fn, J[k].sp, InitMem).hash
    BY <1>0, <1>1, <2>1, <2>3, ExitsAlone
  <2> QED BY <1>4, <2>3, <2>4
<1>6. CASE at = "x_check"
  <2> DEFINE q == QueueOrder
             J == JobsFor
  <2>1. /\ q \in Seq(Tids) /\ Len(q) = N + 1 /\ Len(J) = N + 1 /\ N + 1 \in Nat \ {0}
        /\ Along(q, J, inst, InitMem) /\ JobsOf(q) = J /\ inst \in 1..inst
    BY <1>0, <1>2, <1>6, XTurn
  <2> HIDE DEF q, J
  <2>2. \A k \in 1..Len(q) :
          q[k] \in Tids /\ HashAlone(q[k]) = Alone(J[k].fn, J[k].sp, InitMem).hash
    BY <1>0, <1>2, <2>1, RightJobs
  <2>3. PICK k \in 1..Len(q) :
          /\ cur = q[k]
          /\ \/ k = 1 /\ th[cur].reg_hash = Alone(J[1].fn, J[1].sp, InitMem).hash
             \/ th[cur].reg_hash = CutRun(J, inst, InitMem).hashes[k]
             \/ k > 1 /\ th[cur].reg_hash = Stops(J, inst, InitMem)[k].hash
    BY <1>0, <1>1, <2>1, ExitsWith
  <2>4. ~(k = 1 /\ th[cur].reg_hash = Alone(J[1].fn, J[1].sp, InitMem).hash)
    BY <1>4, <2>2, <2>3
  <2>5. k > 1 => CutRun(J, inst, InitMem).hashes[k] = Stops(J, inst, InitMem)[k].hash
    BY <2>1, CutRunFacts
  <2>6. CutRun(J, inst, InitMem).hashes[k] = th[cur].reg_hash
    BY <2>3, <2>4, <2>5
  <2>7. HashesAlone(J, InitMem)[k] = HashAlone(cur)
    BY <2>1, <2>2, <2>3 DEF HashesAlone
  <2>8. CutRun(J, inst, InitMem).hashes # HashesAlone(J, InitMem)
    BY <1>4, <2>2, <2>3, <2>6, <2>7
  <2> QED BY <2>1, <2>8 DEF Racy, RacyAt, CutPoints, J
<1> QED BY <1>5, <1>6

LEMMA VerdictInit == SimpleInit => VerdictInv
<1> SUFFICES ASSUME SimpleInit PROVE VerdictInv
  OBVIOUS
<1>1. SerialInv
  BY SerialInit
<1>2. why = "none" /\ mem = InitMem /\ at = "init" /\ ntids = 1 /\ inst = 0
  BY DEF SimpleInit, HarnessInit, Init
<1>3. Tids = {}
  BY <1>2 DEF Tids
<1>4. Right
  BY <1>2, <1>3 DEF Right, RightThreads, RightRun, Agreed
<1> QED BY <1>1, <1>2, <1>4 DEF VerdictInv, InstSoFar

LEMMA VerdictFrame ==
  ASSUME VerdictHere, UNCHANGED svars
  PROVE  Right'
<1>1. /\ UNCHANGED <<vars, loopVars, checkVars>>
      /\ UNCHANGED <<th, ntids, mode, mem, at, inst, mem0, c>>
  BY DEF svars, vars, threadVars, cpuVars, loopVars, checkVars
<1>2. /\ RightThreads /\ RightRun /\ Agreed
      /\ \A n : RacyAt(n)' <=> RacyAt(n)
  BY <1>1, HereFacts DEF VerdictHere
<1>3. RightThreads'
  BY <1>1, <1>2, RightFrame DEF Tids
<1>4. InRow => InRow'
  <2>1. \A q, J : Along(q, J, Never, InitMem)' = Along(q, J, Never, InitMem)
    BY <1>1, AlongFrame
  <2> QED BY <2>1 DEF InRow
<1>5. RightRun'
  BY <1>1, <1>2, <1>4 DEF RightRun
<1>6. Agreed'
  BY <1>1, <1>2 DEF Agreed, Racy, CutPoints
<1> QED BY <1>3, <1>5, <1>6 DEF Right

LEMMA VerdictStep == NoSelfBranch /\ VerdictInv /\ [SimpleNext]_svars => VerdictInv'
<1> SUFFICES ASSUME NoSelfBranch, VerdictInv, [SimpleNext]_svars PROVE VerdictInv'
  OBVIOUS
<1>1. SerialInv' /\ [AnyNext]_vars
  BY SerialStep, SimpleStep DEF VerdictInv, SerialInv
<1>2. InstSoFar' /\ (Promise' => Promise) /\ (Racy => Racy')
  <2>1. c' = c /\ inst' >= inst /\ InstSoFar'
    BY CallFrame DEF VerdictInv
  <2> QED BY <2>1, CutsGrow DEF VerdictInv, InstSoFar
<1>3. /\ mode = "panic" => UNCHANGED vars
      /\ why' = "mismatch" /\ why # "mismatch" => mode' = "panic"
  BY <1>1, Accuses
<1>4. why' = "mismatch" => mode' = "panic"
  <2>1. mode = "panic" => mode' = "panic"
    BY <1>3 DEF vars
  <2> QED BY <1>3, <2>1 DEF VerdictInv
<1>5. Promise' /\ why' = "mismatch" => Racy'
  BY <1>1, <1>2, AccusesRacy DEF VerdictInv
<1>6. ASSUME Promise', mode' # "panic" PROVE Right'
  <2>1. VerdictHere
    BY <1>6 DEF VerdictHere
  <2>2. CASE UNCHANGED svars
    BY <2>1, <2>2, VerdictFrame
  <2> QED BY <2>1, <2>2, VerdictClient, VerdictFork, VerdictRun, VerdictRunStep, VerdictCheck
          DEF SimpleNext
<1>7. ASSUME at' = "done" PROVE mode' # "panic"
  <2>1. CASE Check
    BY <1>7, <2>1 DEF Check, InClient, vars
  <2>2. CASE UNCHANGED svars
    BY <1>7, <2>2 DEF VerdictInv, svars, loopVars, vars
  <2>3. CASE ReforkTodo \/ RunStep
    <3>1. at = "done" /\ mode # "panic" /\ SInv
      BY <1>7, <2>3 DEF ReforkTodo, RunStep, VerdictInv, SerialInv
    <3>2. mode = "client" /\ todo = <<>>
      BY <3>1 DEF SInv, AtLabels
    <3> QED BY <2>3, <3>2 DEF ReforkTodo, RunStep, Machine, UserInst, SingleStep,
               SysPutc, SysExit, SyscallPanics, AtSwi, RunThreadsReturn
  <2> QED BY <1>7, <2>1, <2>2, <2>3
       DEF SimpleNext, Start, SequentialConfig, ForkA, RunA, ForkB, RunB, ReforkB, ForkCopy,
           ReforkA, SwitchAt, XRun, Run, loopVars
<1> QED BY <1>1, <1>2, <1>4, <1>5, <1>6, <1>7 DEF VerdictInv

\* The verdict on routines that leave the memory as they find it and need no
\* stack is right: the check stops with a mismatch exactly when running the
\* copies of B in the middle of A changes a hash
\* (interleave-checker.c:39-109, eqx-threads.c:486-502).
THEOREM SimpleVerdictIsRight == NoSelfBranch => (SimpleSpec => []VerdictIsRight)
<1> SUFFICES ASSUME NoSelfBranch PROVE SimpleSpec => []VerdictIsRight
  OBVIOUS
<1>1. VerdictInv => VerdictIsRight
  <2> SUFFICES ASSUME VerdictInv, at = "done" \/ why = "mismatch", ~c.enable_stack, Restores
               PROVE  why = "mismatch" <=> Racy
    BY DEF VerdictIsRight
  <2>1. why = "mismatch" => Racy
    BY DEF VerdictInv, Promise
  <2>2. ASSUME why # "mismatch" PROVE ~Racy
    <3>1. at = "done"
      BY <2>2
    <3>2. mode # "panic"
      BY <3>1 DEF VerdictInv
    <3> QED BY <3>1, <3>2 DEF VerdictInv, Promise, Right, Agreed
  <2> QED BY <2>1, <2>2
<1>2. VerdictInv /\ [SimpleNext]_svars => VerdictInv'
  BY VerdictStep
<1> QED BY <1>1, <1>2, VerdictInit, PTL DEF SimpleSpec
=============================================================================
