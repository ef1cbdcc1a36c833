---------------------- MODULE InterleaveMultipleProofs ----------------------
(***************************************************************************)
(* interleave_multiple keeps to the interface of the threads, finds no     *)
(* wrong hash by itself and skips no switch point, for every machine and   *)
(* every list of routines; it does not accuse routines that do not disturb *)
(* each other.  Where the others run one after the other, every run with X *)
(* preempted computes what its parts compute in turn, and the verdict on   *)
(* routines that restore the memory is right.                              *)
(***************************************************************************)
EXTENDS InterleaveMultiple, RoutineProofs

Labels ==
    {"init", "fork", "single", "single_check", "single_refork", "seq_refork", "seq_run",
     "seq_done", "x_start", "x_refork", "x_run", "x_check", "done"}

\* The threads are forked in the order of the routines.
Forked ==
    /\ opt \in Opts
    /\ ths = [i \in 1..(ntids - 1) |-> i]
    /\ ntids - 1 <= Len(opt.fns)

Recorded(S) == \A t \in S : th[t].expected_hash # 0

\* run_single: the newest thread, with the hash of its first run.
Single(n) ==
    /\ ntids > 1 /\ reruns \in 0..n
    /\ reruns > 0 => solo_hash # 0 /\ th[Newest].expected_hash = solo_hash

\* A loop of reforks: every thread is queued or to do.
Reforking ==
    /\ ntids > 1
    /\ todo \in Seq(Tids) /\ IsInjective(todo)
    /\ Range(todo) \cap Active = {} /\ Range(todo) \cup Active = Tids
    /\ Recorded(Active)

\* interleave_x_with_others.
WithX == ntids > 1 /\ x \in Tids /\ hash = ExpectedSum(Tids) % Word

\* X goes last, and is then at the head of the queue.
XIsNext ==
    /\ cuts = 1..(inst - 1)
    /\ todo # <<>> => todo[Len(todo)] = x
    /\ todo = <<>> => /\ runq # <<>> /\ Head(runq) = x
                      /\ ~complete_x_before_switch /\ ~thread_x_has_yielded
                      /\ th[x].cumulative_inst_cnt = 0

PointInRange == inst \in 1..(opt.max_num_inst + 1)

CutsSoFar == cuts = {i \in 1..inst : i < inst \/ i <= XCount}

\* What holds at each label.
PInit == ntids = 1 /\ Active = {}
PFork == Active = {} /\ Len(ths) < Len(opt.fns)
PSingle == Single(Reruns) /\ Active = {Newest}
PSingleCheck == Single(Reruns) /\ Ran({Newest})
PSingleRefork ==
    /\ ntids > 1 /\ reruns \in 0..(Reruns - 1) /\ Active = {}
    /\ th[Newest].expected_hash = solo_hash
PSeqRun == ntids > 1 /\ Active = Tids /\ Recorded(Tids)
PSeqDone == ntids > 1 /\ Ran(Tids) /\ Recorded(Tids)
PXStart == WithX /\ Active = {} /\ Recorded(Tids)
PXRefork == WithX /\ Reforking /\ Recorded(Tids) /\ PointInRange /\ (ntids > 2 => XIsNext)
PXRun ==
    /\ WithX /\ Active = Tids /\ Recorded(Tids) /\ PointInRange
    /\ config = XConfig(inst) /\ (ntids > 2 => XIsNext)
PXCheck ==
    /\ WithX /\ Ran(Tids) /\ Recorded(Tids) /\ PointInRange
    /\ config = XConfig(inst) /\ (ntids > 2 => XKnown /\ CutsSoFar)

AtLabels ==
    /\ at \in Labels
    /\ at \notin {"single_check", "seq_done", "x_check"} => mode = "client"
    /\ at \notin {"seq_refork", "x_refork"} => todo = <<>>
    /\ at = "init" => PInit
    /\ at = "fork" => PFork
    /\ at = "single" => PSingle
    /\ at = "single_check" => PSingleCheck
    /\ at = "single_refork" => PSingleRefork
    /\ at = "seq_refork" => Reforking
    /\ at = "seq_run" => PSeqRun
    /\ at = "seq_done" => PSeqDone
    /\ at = "x_start" => PXStart
    /\ at = "x_refork" => PXRefork
    /\ at = "x_run" => PXRun
    /\ at = "x_check" => PXCheck

\* The loop over X starts with the first thread.
BeforeX ==
    {"init", "fork", "single", "single_check", "single_refork", "seq_refork", "seq_run",
     "seq_done"}

XFirst == at \in BeforeX => x = 1

MInv == Inv /\ n_errors = 0 /\ (mode # "panic" => Forked /\ AtLabels)
-----------------------------------------------------------------------------
(* The lists of threads.                                                   *)

LEMMA ThsFacts ==
  ASSUME Inv, Forked
  PROVE  /\ ntids \in Nat \ {0} /\ Len(ths) = ntids - 1 /\ ths \in Seq(Tids)
         /\ \A i \in Tids : ths[i] = i
         /\ Range(ths) = Tids /\ IsInjective(ths) /\ DOMAIN ths = Tids
         /\ ntids > 1 => Newest = ntids - 1 /\ Newest \in Tids
         /\ opt \in Opts /\ opt.fns \in Seq(Routines) /\ opt.max_num_inst \in Nat
<1>1. ntids \in Nat \ {0}
  BY BoundsAssumption DEF Inv, TypeOK
<1>2. ntids - 1 \in Nat /\ ths = [i \in 1..(ntids - 1) |-> i] /\ Tids = 1..(ntids - 1)
  BY <1>1 DEF Forked, Tids
<1>3. Len(ths) = ntids - 1 /\ DOMAIN ths = Tids /\ \A i \in Tids : ths[i] = i
  BY <1>2
<1>4. ths \in Seq(Tids)
  <2>1. ths \in [1..(ntids - 1) -> Tids]
    BY <1>2
  <2> QED BY <1>2, <2>1
<1>5. Range(ths) = Tids /\ IsInjective(ths)
  BY <1>3 DEF Range, IsInjective
<1>6. ntids > 1 => Newest = ntids - 1 /\ Newest \in Tids
  BY <1>1, <1>2, <1>3 DEF Newest
<1>7. opt \in Opts /\ opt.fns \in Seq(Routines) /\ opt.max_num_inst \in Nat
  BY OptsAssumption DEF Forked, MultipleOpt
<1> QED BY <1>1, <1>3, <1>4, <1>5, <1>6, <1>7

\* The order of the reforks has every thread once, X last.
LEMMA ReforkOrderFacts ==
  ASSUME Inv, Forked, x \in Tids
  PROVE  /\ ReforkOrder \in Seq(Tids) /\ ReforkOrder # <<>>
         /\ IsInjective(ReforkOrder) /\ Range(ReforkOrder) = Tids
         /\ ReforkOrder[Len(ReforkOrder)] = x
<1> DEFINE n == ntids - 1
           rest == RemoveAt(ths, x)
<1>1. /\ n \in Nat /\ Len(ths) = n /\ ths \in Seq(Tids) /\ \A i \in 1..n : ths[i] = i
      /\ x \in 1..n /\ Tids = 1..n
  BY ThsFacts DEF Tids
<1>2. /\ rest \in Seq(Tids) /\ Len(rest) = n - 1
      /\ \A i \in 1..(n - 1) : rest[i] = IF i < x THEN i ELSE i + 1
  <2> DEFINE a == SubSeq(ths, 1, x - 1)
             b == SubSeq(ths, x + 1, n)
  <2>1. a \in Seq(Tids) /\ Len(a) = x - 1 /\ \A i \in 1..(x - 1) : a[i] = i
    BY <1>1
  <2>2. b \in Seq(Tids) /\ Len(b) = n - x /\ \A i \in 1..(n - x) : b[i] = i + x
    BY <1>1
  <2>3. rest = a \o b
    BY <1>1 DEF RemoveAt
  <2> HIDE DEF a, b, rest
  <2>4. rest \in Seq(Tids) /\ Len(rest) = n - 1
    BY <1>1, <2>1, <2>2, <2>3
  <2>5. ASSUME NEW i \in 1..(n - 1) PROVE rest[i] = IF i < x THEN i ELSE i + 1
    <3>1. CASE i < x
      <4>1. i \in 1..Len(a)
        BY <1>1, <2>1, <3>1
      <4> QED BY <1>1, <2>1, <2>2, <2>3, <3>1, <4>1
    <3>2. CASE ~(i < x)
      <4>1. i - (x - 1) \in 1..(n - x) /\ i > Len(a) /\ i <= Len(a) + Len(b)
            /\ (i - (x - 1)) + x = i + 1
        BY <1>1, <2>1, <2>2, <3>2
      <4>2. i \in 1..(Len(a) + Len(b)) /\ ~(i <= Len(a)) /\ i - Len(a) = i - (x - 1)
        BY <1>1, <2>1, <2>2, <4>1
      <4>3. rest[i] = b[i - Len(a)]
        BY <2>1, <2>2, <2>3, <4>2, ConcatProperties
      <4> QED BY <2>2, <3>2, <4>1, <4>2, <4>3
    <3> QED BY <3>1, <3>2
  <2> QED BY <2>4, <2>5
<1>3. ReforkOrder = Append(rest, x)
  BY <1>1 DEF ReforkOrder
<1> HIDE DEF rest
<1>4. DOMAIN rest = 1..(n - 1)
  BY <1>2
<1>5. IsInjective(rest)
  <2> SUFFICES ASSUME NEW i \in 1..(n - 1), NEW j \in 1..(n - 1), rest[i] = rest[j]
               PROVE  i = j
    BY <1>4 DEF IsInjective
  <2>1. i \in Int /\ j \in Int /\ x \in Int
    BY <1>1
  <2>2. rest[i] = (IF i < x THEN i ELSE i + 1) /\ rest[j] = (IF j < x THEN j ELSE j + 1)
    BY <1>2
  <2>3. (IF i < x THEN i ELSE i + 1) = (IF j < x THEN j ELSE j + 1)
    BY <2>2
  <2> QED BY <2>1, <2>3
<1>6. Range(rest) = Tids \ {x}
  <2>1. Range(rest) \subseteq Tids \ {x}
    BY <1>1, <1>2, <1>4 DEF Range
  <2>2. ASSUME NEW t \in Tids, t # x PROVE t \in Range(rest)
    <3>1. CASE t < x
      <4>1. t \in 1..(n - 1) /\ rest[t] = t
        BY <1>1, <1>2, <3>1
      <4> QED BY <1>4, <4>1 DEF Range
    <3>2. CASE t > x
      <4>1. t - 1 \in 1..(n - 1) /\ rest[t - 1] = t
        BY <1>1, <1>2, <3>2
      <4> QED BY <1>4, <4>1 DEF Range
    <3> QED BY <1>1, <2>2, <3>1, <3>2
  <2> QED BY <2>1, <2>2
<1>7. Append(rest, x)[Len(Append(rest, x))] = x /\ Append(rest, x) # <<>>
  BY <1>1, <1>2
<1>8. /\ Append(rest, x) \in Seq(Tids) /\ IsInjective(Append(rest, x))
      /\ Range(Append(rest, x)) = Tids
  <2>1. x \in Tids /\ x \notin Range(rest) /\ Range(rest) \cup {x} = Tids
    BY <1>6
  <2>2. rest \in Seq(Tids)
    BY <1>2
  <2>3. /\ Append(rest, x) \in Seq(Tids) /\ Range(Append(rest, x)) = Range(rest) \cup {x}
        /\ IsInjective(Append(rest, x))
    BY <1>5, <2>1, <2>2, AppendSeq
  <2> QED BY <2>1, <2>3
<1> QED BY <1>3, <1>7, <1>8

LEMMA ActiveFacts ==
  ASSUME Inv
  PROVE  /\ Active \subseteq Tids /\ Queued \subseteq Tids /\ Queued \subseteq Active /\ 0 \notin Tids
         /\ mode = "client" => Queued = Active
BY TidsType DEF Inv, TypeOK, RunqSound, Active, Queued, Range

-----------------------------------------------------------------------------
(* One lemma for each statement of the checker: it is a step a client may  *)
(* take, and what holds at the next label holds.                           *)

\* A call that panics ends everything.
LEMMA PanicStep ==
  ASSUME MInv, [Next]_vars, mode' = "panic", n_errors' = n_errors
  PROVE  MInv'
BY StepInv DEF MInv

\* set_scheduler_config, with a configuration of the checker.
LEMMA ConfigStep ==
  ASSUME Inv, NEW cf \in Configs, SetSchedulerConfig(cf)
  PROVE  /\ Next
         /\ \/ mode' = "panic"
            \/ /\ mode' = "client" /\ config' = cf
               /\ UNCHANGED <<threadVars, runq, runVars, flagVars>>
               /\ Tids' = Tids /\ Active' = Active
<1>1. Next
  BY DEF Next, Client
<1> QED BY <1>1 DEF SetSchedulerConfig, Panic, threadVars, runVars, Tids, Active, Queued

LEMMA StartStep ==
  ASSUME MInv, Start
  PROVE  [Next]_vars /\ MInv'
<1>1. Next /\ mode = "client" /\ at = "init" /\ at' = "fork" /\ n_errors' = n_errors
  BY DEF Start, EqxInit, Next, Client, callVars
<1>2. CASE mode' = "panic"
  BY <1>1, <1>2, PanicStep
<1>3. CASE mode' # "panic"
  <2>1. /\ UNCHANGED <<ntids, runq, cur, todo, opt, ths>> /\ mode' = mode
    BY <1>3 DEF Start, EqxInit, Panic, threadVars, runVars, callVars
  <2>2. Forked /\ PInit /\ todo = <<>>
    BY <1>1 DEF MInv, AtLabels
  <2>3. Forked' /\ Active' = {}
    BY <2>1, <2>2 DEF Forked, PInit, Active, Queued
  <2>4. PFork'
    <3>1. Inv
      BY DEF MInv
    <3>2. Len(ths) = 0 /\ opt.fns \in Seq(Routines) /\ opt.fns # <<>>
      BY <2>2, <3>1, ThsFacts, OptsAssumption DEF PInit
    <3>3. Len(opt.fns) > 0
      BY <3>2, EmptySeq
    <3> QED BY <2>1, <2>3, <3>2, <3>3 DEF PFork
  <2>5. AtLabels'
    BY <1>1, <2>1, <2>2, <2>4 DEF AtLabels, Labels
  <2> QED BY <1>1, <2>3, <2>5, StepInv DEF MInv
<1> QED BY <1>1, <1>2, <1>3

LEMMA SingleForkStep ==
  ASSUME MInv, SingleFork
  PROVE  [Next]_vars /\ MInv'
<1> DEFINE f == opt.fns[Len(ths) + 1]
<1>1. /\ at = "fork" /\ at' = "single" /\ mode = "client" /\ Inv
      /\ ths' = Append(ths, ntids) /\ reruns' = 0
      /\ UNCHANGED <<todo, opt, n_errors>>
      /\ Fork(f, 0) \/ ForkNostack(f, 0)
  BY DEF SingleFork, ForkWith, Fork, ForkNostack, ForkStack, MInv
<1> HIDE DEF f
<1>0. PICK base, nbytes : ForkStack(f, 0, base, nbytes)
  BY <1>1 DEF Fork, ForkNostack
<1>2. Forked /\ PFork /\ todo = <<>>
  BY <1>1 DEF MInv, AtLabels
<1>3. /\ ntids \in Nat \ {0} /\ Len(ths) = ntids - 1 /\ ths \in Seq(Tids)
      /\ \A i \in Tids : ths[i] = i
      /\ opt.fns \in Seq(Routines) /\ Tids = 1..(ntids - 1)
  BY <1>1, <1>2, ThsFacts DEF Tids
<1>4. Len(ths) + 1 \in 1..Len(opt.fns) /\ ntids <= Len(opt.fns)
  BY <1>2, <1>3 DEF PFork
<1>5. f \in Routines /\ 0 \in ExpectHashes
  BY <1>3, <1>4, ClientAssumption DEF f
<1>6. Next
  BY <1>1, <1>5 DEF Next, Client
<1>7. /\ ntids' = ntids + 1 /\ Tids' = Tids \cup {ntids} /\ mode' = "client"
      /\ Active' = {ntids}
  <2>1. ntids' = ntids + 1 /\ mode' = mode
    BY <1>0 DEF ForkStack
  <2>2. Tids' = Tids \cup {ntids} /\ Active' = Active \cup {ntids}
    BY <1>0, <1>1, ForkActive
  <2> QED BY <1>1, <1>2, <2>1, <2>2 DEF PFork
<1>8. Inv'
  BY <1>1, <1>6, StepInv
<1>9. Forked'
  <2>1. Append(ths, ntids) = [i \in 1..ntids |-> i]
    <3> DEFINE r == Append(ths, ntids)
    <3>1. r \in Seq(Nat) /\ Len(r) = ntids /\ \A i \in 1..ntids : r[i] = i
      BY <1>3
    <3>2. r = [i \in 1..Len(r) |-> r[i]]
      <4> HIDE DEF r
      <4> QED BY <3>1
    <3> HIDE DEF r
    <3>3. r = [i \in 1..ntids |-> i]
      BY <3>1, <3>2
    <3> QED BY <3>3 DEF r
  <2>2. ntids' - 1 = ntids
    BY <1>3, <1>7
  <2> QED BY <1>1, <1>2, <1>4, <2>1, <2>2 DEF Forked
<1>10. PSingle'
  <2>1. ntids' > 1 /\ Newest' = ntids
    <3>1. ntids' > 1
      BY <1>3, <1>7
    <3>2. Len(ths') = ntids /\ ths'[ntids] = ntids
      BY <1>1, <1>3
    <3> QED BY <3>1, <3>2 DEF Newest
  <2> QED BY <1>1, <1>7, <2>1 DEF PSingle, Single, Reruns
<1>11. AtLabels'
  BY <1>1, <1>2, <1>7, <1>10 DEF AtLabels, Labels
<1> QED BY <1>1, <1>6, <1>8, <1>9, <1>11 DEF MInv

LEMMA SingleRunStep ==
  ASSUME MInv, SingleRun
  PROVE  [Next]_vars /\ MInv'
<1>1. /\ at = "single" /\ at' = "single_check" /\ todo = <<>> /\ Inv
      /\ RunThreads \/ RunThreadsPanics
      /\ UNCHANGED <<todo, callVars>>
  BY DEF SingleRun, Run, MInv
<1>2. Next /\ \/ mode' = "panic"
              \/ /\ mode' = "user" /\ UNCHANGED <<th, ntids>> /\ Ran(Active)'
                 /\ Active' = Active
  BY <1>1, RunCall DEF Next
<1>3. CASE mode' = "panic"
  BY <1>1, <1>2, <1>3, PanicStep DEF callVars
<1>4. CASE mode' # "panic"
  <2>1. Forked /\ PSingle
    BY <1>1, <1>2 DEF MInv, AtLabels, RunThreads, RunThreadsPanics, Panic
  <2>2. Forked'
    BY <1>1, <1>2, <1>4, <2>1 DEF Forked, callVars
  <2>3. PSingleCheck'
    BY <1>1, <1>2, <1>4, <2>1 DEF PSingle, PSingleCheck, Single, Newest, callVars
  <2>4. AtLabels'
    BY <1>1, <1>4, <2>3 DEF AtLabels, Labels
  <2> QED BY <1>1, <1>2, <2>2, <2>4, StepInv DEF MInv, callVars
<1> QED BY <1>2, <1>3, <1>4

\* The rerun has the same hash: a thread that exits has the hash recorded at
\* its first exit, so the panic of run_single is out of reach.
LEMMA SingleCheckStep ==
  ASSUME MInv, SingleCheck
  PROVE  [Next]_vars /\ MInv'
<1>1. /\ at = "single_check" /\ mode = "client" /\ Inv /\ Forked /\ PSingleCheck
      /\ todo = <<>>
  BY DEF SingleCheck, InClient, MInv, AtLabels
<1>2. /\ ntids > 1 /\ Newest \in Tids /\ Len(ths) = ntids - 1
      /\ ths \in Seq(Tids) /\ IsInjective(ths) /\ Range(ths) = Tids
  BY <1>1, ThsFacts DEF PSingleCheck, Single
<1>3. th[Newest].reg_hash = th[Newest].expected_hash /\ Active = {}
  BY <1>1, RanDone DEF PSingleCheck, Ran
<1>4. reruns > 0 => th[Newest].reg_hash = solo_hash
  BY <1>1, <1>3 DEF PSingleCheck, Single
<1>5. /\ UNCHANGED vars /\ UNCHANGED <<reruns, opt, ths, n_errors>>
      /\ solo_hash' = th[Newest].expected_hash
      /\ \/ reruns < Reruns /\ at' = "single_refork" /\ UNCHANGED todo
         \/ reruns = Reruns /\ Len(ths) < Len(opt.fns) /\ at' = "fork" /\ UNCHANGED todo
         \/ reruns = Reruns /\ at' = "seq_refork" /\ todo' = ths
  BY <1>3, <1>4 DEF SingleCheck
<1>6. /\ UNCHANGED <<th, ntids, mode>> /\ Active' = {} /\ Tids' = Tids
  BY <1>3, <1>5 DEF vars, threadVars, runVars, Active, Queued, Tids
<1>7. Inv' /\ Forked'
  BY <1>1, <1>5, <1>6, StepInv DEF Forked
<1>8. CASE at' = "single_refork"
  <2>1. reruns \in 0..(Reruns - 1)
    BY <1>1, <1>5, <1>8 DEF PSingleCheck, Single, Reruns
  <2>2. PSingleRefork'
    BY <1>2, <1>5, <1>6, <2>1 DEF PSingleRefork, Newest
  <2>3. AtLabels'
    BY <1>1, <1>5, <1>6, <1>8, <2>2 DEF AtLabels, Labels
  <2> QED BY <1>5, <1>7, <2>3 DEF MInv
<1>9. CASE at' = "fork"
  <2>1. PFork'
    BY <1>5, <1>6, <1>9 DEF PFork
  <2>2. AtLabels'
    BY <1>1, <1>5, <1>6, <1>9, <2>1 DEF AtLabels, Labels
  <2> QED BY <1>5, <1>7, <2>2 DEF MInv
<1>10. CASE at' = "seq_refork"
  <2>1. Reforking'
    BY <1>2, <1>5, <1>6, <1>10 DEF Reforking, Recorded
  <2>2. AtLabels'
    BY <1>1, <1>6, <1>10, <2>1 DEF AtLabels, Labels
  <2> QED BY <1>5, <1>7, <2>2 DEF MInv
<1> QED BY <1>5, <1>8, <1>9, <1>10

LEMMA SingleReforkStep ==
  ASSUME MInv, SingleRefork
  PROVE  [Next]_vars /\ MInv'
<1>1. /\ at = "single_refork" /\ at' = "single" /\ Inv
      /\ ReforkCall(Newest) /\ reruns' = reruns + 1
      /\ UNCHANGED <<todo, opt, ths, solo_hash, n_errors>>
  BY DEF SingleRefork, MInv
<1>2. mode = "client"
  BY <1>1 DEF ReforkCall, Refork, ReforkAsserts
<1>3. Forked /\ PSingleRefork /\ todo = <<>>
  BY <1>1, <1>2 DEF MInv, AtLabels
<1>4. ntids > 1 /\ Newest \in Tids /\ Newest \notin Active
  BY <1>1, <1>3, ThsFacts DEF PSingleRefork
<1>5. Next /\ \/ mode' = "panic"
              \/ /\ mode' = "client" /\ ntids' = ntids
                 /\ Active' = Active \cup {Newest}
                 /\ th[Newest].expected_hash # 0
                 /\ th'[Newest].expected_hash = th[Newest].expected_hash
  BY <1>1, <1>4, ReforkStep DEF Next, ReforkCall
<1>6. CASE mode' = "panic"
  BY <1>1, <1>5, <1>6, PanicStep
<1>7. CASE mode' # "panic"
  <2>1. Forked'
    BY <1>1, <1>3, <1>5, <1>7 DEF Forked
  <2>2. PSingle'
    BY <1>1, <1>3, <1>4, <1>5, <1>7 DEF PSingleRefork, PSingle, Single, Newest, Reruns
  <2>3. AtLabels'
    BY <1>1, <1>3, <1>5, <1>7, <2>2 DEF AtLabels, Labels
  <2> QED BY <1>1, <1>5, <2>1, <2>3, StepInv DEF MInv
<1> QED BY <1>5, <1>6, <1>7

\* A step of either loop of reforks.
LEMMA ReforkTodoStep ==
  ASSUME MInv, ReforkTodo, UNCHANGED callVars
  PROVE  [Next]_vars /\ MInv'
<1> DEFINE t == Head(todo)
<1>1. /\ todo # <<>> /\ Inv /\ ReforkCall(t) /\ todo' = Tail(todo)
      /\ UNCHANGED <<at, inst, cuts, opt, ths, hash, x, n_errors>>
  BY DEF ReforkTodo, MInv, callVars
<1>2. mode = "client"
  BY <1>1 DEF ReforkCall, Refork, ReforkAsserts
<1>3. /\ Forked /\ at \in {"seq_refork", "x_refork"} /\ Reforking
      /\ at = "x_refork" => PXRefork
  BY <1>1, <1>2 DEF MInv, AtLabels, PXRefork
<1>4. /\ t \in Tids /\ t \in Range(todo) /\ t \notin Active
      /\ todo' \in Seq(Tids) /\ Range(todo') = Range(todo) \ {t} /\ IsInjective(todo')
  BY <1>1, <1>3, PopSeq DEF Reforking
<1> HIDE DEF t
<1>5. Next /\ \/ mode' = "panic"
              \/ /\ mode' = "client" /\ UNCHANGED <<ntids, config>> /\ Tids' = Tids
                 /\ Active' = Active \cup {t} /\ runq' # <<>> /\ Head(runq') = t
                 /\ th[t].expected_hash # 0
                 /\ \A s \in Tids : th'[s].expected_hash = th[s].expected_hash
                 /\ th'[t].cumulative_inst_cnt = 0
                 /\ ~complete_x_before_switch' /\ ~thread_x_has_yielded'
  BY <1>1, <1>4, ReforkStep DEF Next, ReforkCall
<1>6. CASE mode' = "panic"
  BY <1>1, <1>5, <1>6, PanicStep
<1>7. CASE mode' # "panic"
  <2>1. Forked'
    BY <1>1, <1>3, <1>5, <1>7 DEF Forked
  <2>2. Reforking'
    BY <1>1, <1>3, <1>4, <1>5, <1>7, ActiveFacts DEF Reforking, Recorded
  <2>3. ASSUME at = "x_refork" PROVE PXRefork'
    <3>1. WithX /\ Recorded(Tids) /\ PointInRange /\ (ntids > 2 => XIsNext)
      BY <1>3, <2>3 DEF PXRefork
    <3>2. WithX' /\ Recorded(Tids)' /\ PointInRange'
      <4>1. ExpectedSum(Tids)' = ExpectedSum(Tids)
        <5>1. [s \in Tids' |-> th'[s].expected_hash] = [s \in Tids |-> th[s].expected_hash]
          BY <1>5, <1>7
        <5> QED BY <5>1 DEF ExpectedSum
      <4> QED BY <1>1, <1>5, <1>7, <3>1, <4>1 DEF WithX, Recorded, PointInRange
    <3>3. ASSUME ntids > 2 PROVE XIsNext'
      <4>1. XIsNext
        BY <3>1, <3>3
      <4>2. cuts' = 1..(inst' - 1) /\ x' = x /\ todo[Len(todo)] = x
        BY <1>1, <4>1 DEF XIsNext
      <4>3. Len(todo) \in Nat \ {0} /\ Len(todo') = Len(todo) - 1 /\ t = todo[1]
            /\ \A i \in 1..(Len(todo) - 1) : todo'[i] = todo[i + 1]
        <5>1. todo \in Seq(Tids) /\ todo # <<>>
          BY <1>1, <1>3 DEF Reforking
        <5> QED BY <1>1, <5>1, EmptySeq DEF t
      <4>4. CASE todo' # <<>>
        <5>1. Len(todo') # 0
          BY <1>4, <4>4, EmptySeq
        <5>2. todo'[Len(todo')] = todo[Len(todo)]
          BY <4>3, <5>1
        <5> QED BY <4>2, <4>4, <5>2 DEF XIsNext
      <4>5. CASE todo' = <<>>
        <5>1. Len(todo') = 0
          BY <4>5
        <5>2. Len(todo) = 1
          BY <4>3, <5>1
        <5>3. t = x
          BY <4>2, <4>3, <5>2
        <5> QED BY <1>5, <1>7, <4>2, <4>5, <5>3 DEF XIsNext
      <4> QED BY <4>4, <4>5
    <3> QED BY <1>5, <1>7, <2>2, <3>2, <3>3 DEF PXRefork
  <2>4. AtLabels'
    BY <1>1, <1>3, <1>5, <1>7, <2>2, <2>3 DEF AtLabels, Labels
  <2> QED BY <1>1, <1>5, <2>1, <2>4, StepInv DEF MInv
<1> QED BY <1>5, <1>6, <1>7

\* When the loop is done every thread is queued.
LEMMA AllReforked ==
  ASSUME Inv, Reforking, todo = <<>>
  PROVE  ntids > 1 /\ Active = Tids /\ Recorded(Tids)
<1>1. Range(todo) = {}
  <2>1. DOMAIN todo = {}
    BY EmptySeq
  <2> QED BY <2>1 DEF Range
<1> QED BY <1>1 DEF Reforking

\* What no call but a run or a refork changes.
LEMMA WithXFrame ==
  ASSUME WithX, UNCHANGED <<th, ntids, x, hash>>
  PROVE  WithX'
BY DEF WithX, ExpectedSum, Tids

LEMMA SequentialConfigStep ==
  ASSUME MInv, SequentialConfig
  PROVE  [Next]_vars /\ MInv'
<1>1. PICK g \in Garbage :
        /\ SetSchedulerConfig(Sequentially(g)) /\ at = "seq_refork" /\ todo = <<>>
        /\ at' = "seq_run" /\ Inv /\ UNCHANGED <<todo, opt, ths, n_errors>>
  BY DEF SequentialConfig, MInv, callVars
<1>2. Sequentially(g) \in Configs
  BY ClientAssumption
<1>3. Next /\ \/ mode' = "panic"
              \/ /\ mode' = "client" /\ UNCHANGED <<th, ntids>>
                 /\ Tids' = Tids /\ Active' = Active
  BY <1>1, <1>2, ConfigStep DEF threadVars
<1>4. CASE mode' = "panic"
  BY <1>1, <1>3, <1>4, PanicStep
<1>5. CASE mode' # "panic"
  <2>1. Forked /\ Reforking
    BY <1>1 DEF MInv, AtLabels, SetSchedulerConfig
  <2>2. PSeqRun'
    BY <1>1, <1>3, <1>5, <2>1, AllReforked DEF PSeqRun, Recorded
  <2>3. AtLabels'
    BY <1>1, <1>3, <1>5, <2>2 DEF AtLabels, Labels
  <2>4. Forked'
    BY <1>1, <1>3, <1>5, <2>1 DEF Forked
  <2> QED BY <1>1, <1>3, <2>3, <2>4, StepInv DEF MInv
<1> QED BY <1>3, <1>4, <1>5

LEMMA SequentialRunStep ==
  ASSUME MInv, SequentialRun
  PROVE  [Next]_vars /\ MInv'
<1>1. /\ at = "seq_run" /\ at' = "seq_done" /\ todo = <<>> /\ Inv
      /\ RunThreads \/ RunThreadsPanics
      /\ UNCHANGED <<todo, callVars>>
  BY DEF SequentialRun, Run, MInv
<1>2. Next /\ \/ mode' = "panic"
              \/ /\ mode' = "user" /\ UNCHANGED <<th, ntids>> /\ Ran(Active)'
                 /\ Tids' = Tids /\ Active' = Active
  BY <1>1, RunCall DEF Next
<1>3. CASE mode' = "panic"
  BY <1>1, <1>2, <1>3, PanicStep DEF callVars
<1>4. CASE mode' # "panic"
  <2>1. Forked /\ PSeqRun
    BY <1>1 DEF MInv, AtLabels, RunThreads, RunThreadsPanics, Panic
  <2>2. Forked'
    BY <1>1, <1>2, <1>4, <2>1 DEF Forked, callVars
  <2>3. PSeqDone'
    BY <1>1, <1>2, <1>4, <2>1 DEF PSeqRun, PSeqDone, Recorded
  <2>4. AtLabels'
    BY <1>1, <1>4, <2>3 DEF AtLabels, Labels
  <2> QED BY <1>1, <1>2, <2>2, <2>4, StepInv DEF MInv, callVars
<1> QED BY <1>2, <1>3, <1>4

LEMMA SequentialDoneStep ==
  ASSUME MInv, XFirst, SequentialDone
  PROVE  [Next]_vars /\ MInv'
<1>1. /\ at = "seq_done" /\ mode = "client" /\ at' = "x_start" /\ hash' = exit_hash
      /\ UNCHANGED vars /\ UNCHANGED <<todo, opt, ths, x, n_errors>>
      /\ Inv /\ Forked /\ PSeqDone /\ todo = <<>> /\ x = 1
  BY DEF SequentialDone, InClient, MInv, AtLabels, XFirst, BeforeX
<1>2. exit_hash = ExpectedSum(Tids) % Word /\ Active = {} /\ Recorded(Tids) /\ 1 \in Tids
  <2>1. ntids > 1 /\ ntids \in Nat
    BY <1>1, ThsFacts DEF PSeqDone
  <2> QED BY <1>1, <2>1, RanDone DEF PSeqDone, Ran, Tids
<1>3. /\ UNCHANGED <<th, ntids, mode, runq, cur>> /\ Active' = Active /\ Tids' = Tids
      /\ ExpectedSum(Tids)' = ExpectedSum(Tids)
  BY <1>1 DEF vars, threadVars, runVars, Active, Queued, Tids, ExpectedSum
<1>4. PXStart'
  BY <1>1, <1>2, <1>3 DEF PXStart, PSeqDone, WithX, Recorded
<1>5. Forked' /\ AtLabels'
  BY <1>1, <1>3, <1>4 DEF Forked, AtLabels, Labels
<1> QED BY <1>1, <1>5, StepInv DEF MInv

-----------------------------------------------------------------------------
(* interleave_x_with_others.                                               *)

LEMMA InterleaveConfigAllowed ==
  ASSUME Inv, Forked, x \in Tids, NEW n \in Garbage \cup 1..(opt.max_num_inst + 1)
  PROVE  XConfig(n) \in Configs
<1>1. ths[x] = x /\ x \in 1..MaxThreads /\ opt \in Opts
  BY ThsFacts, TidsType DEF Inv
<1> QED BY <1>1, ClientAssumption DEF XConfig

LEMMA XStartStep ==
  ASSUME MInv, XStart
  PROVE  [Next]_vars /\ MInv'
<1>1. PICK g \in Garbage :
        /\ SetSchedulerConfig(XConfig(g)) /\ at = "x_start" /\ at' = "x_refork"
        /\ n_errors' = 0 /\ inst' = 1 /\ todo' = ReforkOrder /\ cuts' = {}
        /\ UNCHANGED <<opt, ths, hash, x>> /\ Inv /\ n_errors = 0
  BY DEF XStart, MInv
<1>2. mode = "client"
  BY <1>1 DEF SetSchedulerConfig, Panic
<1>3. Forked /\ PXStart
  BY <1>1, <1>2 DEF MInv, AtLabels
<1>4. Next /\ \/ mode' = "panic"
              \/ /\ mode' = "client" /\ UNCHANGED <<th, ntids>>
                 /\ Tids' = Tids /\ Active' = Active
  <2>1. XConfig(g) \in Configs
    BY <1>1, <1>3, InterleaveConfigAllowed DEF PXStart, WithX
  <2> QED BY <1>1, <2>1, ConfigStep DEF threadVars
<1>5. CASE mode' = "panic"
  BY <1>1, <1>4, <1>5, PanicStep
<1>6. CASE mode' # "panic"
  <2>1. Forked' /\ WithX'
    BY <1>1, <1>3, <1>4, <1>6, WithXFrame DEF Forked, PXStart
  <2>2. /\ todo' \in Seq(Tids) /\ todo' # <<>> /\ IsInjective(todo') /\ Range(todo') = Tids
        /\ todo'[Len(todo')] = x
    BY <1>1, <1>3, ReforkOrderFacts DEF PXStart, WithX
  <2>3. Reforking'
    BY <1>3, <1>4, <1>6, <2>2 DEF Reforking, PXStart, WithX, Recorded
  <2>4. XIsNext'
    <3>1. {} = 1..(1 - 1)
      OBVIOUS
    <3> QED BY <1>1, <2>2, <3>1 DEF XIsNext
  <2>5. PointInRange'
    <3>1. opt.max_num_inst \in Nat
      BY <1>1, <1>3, ThsFacts
    <3> QED BY <1>1, <3>1 DEF PointInRange
  <2>6. PXRefork'
    BY <1>3, <1>4, <1>6, <2>1, <2>3, <2>4, <2>5 DEF PXRefork, PXStart, Recorded
  <2>7. AtLabels'
    BY <1>1, <1>4, <1>6, <2>6 DEF AtLabels, Labels
  <2> QED BY <1>1, <1>4, <2>1, <2>7, StepInv DEF MInv
<1> QED BY <1>4, <1>5, <1>6

LEMMA XSwitchAtStep ==
  ASSUME MInv, XSwitchAt
  PROVE  [Next]_vars /\ MInv'
<1>1. /\ SetSchedulerConfig(XConfig(inst)) /\ at = "x_refork" /\ at' = "x_run"
      /\ todo = <<>> /\ UNCHANGED <<todo, inst, cuts, opt, ths, hash, x, n_errors>> /\ Inv
  BY DEF XSwitchAt, MInv, callVars
<1>2. mode = "client"
  BY <1>1 DEF SetSchedulerConfig, Panic
<1>3. Forked /\ PXRefork
  BY <1>1, <1>2 DEF MInv, AtLabels
<1>4. Next /\ \/ mode' = "panic"
              \/ /\ mode' = "client" /\ config' = XConfig(inst)
                 /\ UNCHANGED <<th, ntids, runq, flagVars>>
                 /\ Tids' = Tids /\ Active' = Active
  <2>1. XConfig(inst) \in Configs
    BY <1>1, <1>3, InterleaveConfigAllowed DEF PXRefork, WithX, PointInRange
  <2> QED BY <1>1, <2>1, ConfigStep DEF threadVars
<1>5. CASE mode' = "panic"
  BY <1>1, <1>4, <1>5, PanicStep
<1>6. CASE mode' # "panic"
  <2>1. Forked' /\ WithX'
    BY <1>1, <1>3, <1>4, <1>6, WithXFrame DEF Forked, PXRefork
  <2>2. Active' = Tids' /\ Recorded(Tids)' /\ PointInRange'
    BY <1>1, <1>3, <1>4, <1>6, AllReforked DEF PXRefork, Recorded, PointInRange
  <2>3. config' = XConfig(inst)'
    BY <1>1, <1>4, <1>6 DEF XConfig, InterleaveConfig
  <2>4. ntids' > 2 => XIsNext'
    BY <1>1, <1>3, <1>4, <1>6 DEF PXRefork, XIsNext, flagVars
  <2>5. PXRun'
    BY <2>1, <2>2, <2>3, <2>4 DEF PXRun
  <2>6. AtLabels'
    BY <1>1, <1>4, <1>6, <2>5 DEF AtLabels, Labels
  <2> QED BY <1>1, <1>4, <2>1, <2>6, StepInv DEF MInv
<1> QED BY <1>4, <1>5, <1>6

LEMMA XRunStep ==
  ASSUME MInv, XRun
  PROVE  [Next]_vars /\ MInv'
<1>1. /\ at = "x_run" /\ at' = "x_check" /\ todo = <<>> /\ Inv
      /\ RunThreads \/ RunThreadsPanics
      /\ UNCHANGED <<todo, inst, cuts, opt, ths, hash, x, n_errors>>
  BY DEF XRun, Run, MInv, callVars
<1>2. Next /\ \/ mode' = "panic"
              \/ /\ RunThreads /\ mode' = "user" /\ UNCHANGED <<th, ntids, config>>
                 /\ Tids' = Tids /\ Ran(Active)' /\ Active' = Active
  BY <1>1, RunCall DEF Next
<1>3. CASE mode' = "panic"
  BY <1>1, <1>2, <1>3, PanicStep
<1>4. CASE mode' # "panic"
  <2>1. Forked /\ PXRun /\ mode = "client"
    BY <1>1 DEF MInv, AtLabels, RunThreads, RunThreadsPanics, Panic
  <2>2. Forked' /\ WithX' /\ PointInRange'
    BY <1>1, <1>2, <1>4, <2>1, WithXFrame DEF Forked, PXRun, PointInRange
  <2>3. config' = XConfig(inst)' /\ Ran(Tids)' /\ Recorded(Tids)'
    BY <1>1, <1>2, <1>4, <2>1 DEF PXRun, XConfig, InterleaveConfig, Recorded
  <2>4. ASSUME ntids > 2 PROVE XKnown' /\ CutsSoFar'
    <3>1. XIsNext /\ Active = Tids /\ config = InterleaveConfig(opt, ths[x], inst)
      BY <2>1, <2>4 DEF PXRun, XConfig
    <3>2. x \in Tids /\ ths[x] = x /\ ntids \in Nat /\ inst \in Nat /\ inst # 0
      BY <1>1, <2>1, ThsFacts DEF PXRun, WithX, PointInRange
    <3>3. /\ config.enable_interleave /\ config.interleave_tid = x
          /\ config.switch_on_inst_n = inst
      BY <3>1, <3>2 DEF InterleaveConfig
    <3>4. /\ Head(runq) = x /\ runq # <<>> /\ XCount = 0
          /\ ~complete_x_before_switch /\ ~thread_x_has_yielded /\ cuts = 1..(inst - 1)
      BY <1>1, <3>1, <3>3 DEF XIsNext, XCount
    <3>5. Tail(runq) # <<>>
      <4>1. runq \in Seq(Tids) /\ IsInjective(runq) /\ Queued = Tids
        BY <1>1, <2>1, <3>1, ActiveFacts DEF Inv, TypeOK, RunqSound
      <4>2. Range(Tail(runq)) = Tids \ {x}
        BY <3>4, <4>1, PopSeq DEF Queued
      <4>3. \E t \in Tids : t # x
        <5>1. 1 \in Tids /\ 2 \in Tids
          BY <2>4, <3>2 DEF Tids
        <5> QED BY <5>1
      <4>4. Range(<<>>) = {}
        <5>1. DOMAIN <<>> = {}
          BY EmptySeq
        <5> QED BY <5>1 DEF Range
      <4> QED BY <4>2, <4>3, <4>4
    <3>6. XKnown'
      BY <1>1, <1>2, <1>4, <3>2, <3>3, <3>4, <3>5, XKnownStart
    <3>7. XCount' = 0
      BY <1>2, <1>4, <3>4 DEF XCount
    <3>8. 1..(inst - 1) = {i \in 1..inst : i < inst \/ i <= 0}
      BY <3>2
    <3> QED BY <1>1, <3>4, <3>6, <3>7, <3>8 DEF CutsSoFar
  <2>5. PXCheck'
    BY <1>2, <1>4, <2>2, <2>3, <2>4 DEF PXCheck
  <2>6. AtLabels'
    BY <1>1, <1>4, <2>5 DEF AtLabels, Labels
  <2> QED BY <1>1, <1>2, <2>2, <2>6, StepInv DEF MInv
<1> QED BY <1>2, <1>3, <1>4

\* When a run with X has returned, its result is that of the sequential run,
\* and X completed before the switch just when it was too short for it.
LEMMA XReturned ==
  ASSUME Inv, Forked, PXCheck, mode = "client"
  PROVE  /\ exit_hash = hash /\ Active = {}
         /\ ntids > 2 => /\ XCount \in Nat /\ config.interleave_tid = x
                         /\ config.switch_on_inst_n = inst
                         /\ complete_x_before_switch <=> XCount < inst
                         /\ CutsSoFar
<1>1. exit_hash = hash /\ Active = {}
  BY RanDone DEF PXCheck, WithX, Ran
<1>2. ASSUME ntids > 2
      PROVE  /\ XCount \in Nat /\ config.interleave_tid = x
             /\ config.switch_on_inst_n = inst
             /\ complete_x_before_switch <=> XCount < inst
             /\ CutsSoFar
  <2>1. x \in Tids /\ ths[x] = x
    BY ThsFacts DEF PXCheck, WithX
  <2>2. config.interleave_tid = x /\ config.switch_on_inst_n = inst
    BY <2>1 DEF PXCheck, XConfig, InterleaveConfig
  <2>3. XKnown /\ CutsSoFar
    BY <1>2 DEF PXCheck
  <2>4. XCount \in Nat
    BY <2>1, <2>2 DEF XCount, Inv, TypeOK, Thread
  <2> QED BY <1>1, <2>2, <2>3, <2>4 DEF XKnown
<1> QED BY <1>1, <1>2

LEMMA XCheckStep ==
  ASSUME MInv, XCheck
  PROVE  [Next]_vars /\ MInv'
<1>1. /\ at = "x_check" /\ mode = "client" /\ Inv /\ n_errors = 0 /\ todo = <<>>
      /\ Forked /\ PXCheck
  BY DEF XCheck, InClient, MInv, AtLabels
<1>2. /\ UNCHANGED vars /\ UNCHANGED <<cuts, opt, ths, hash>>
      /\ n_errors' = IF exit_hash # hash THEN n_errors + 1 ELSE n_errors
      /\ \/ /\ ~LastInst
            /\ inst' = inst + 1 /\ todo' = ReforkOrder /\ at' = "x_refork" /\ x' = x
         \/ /\ x < Len(ths) /\ x' = x + 1 /\ at' = "x_start"
            /\ UNCHANGED todo
         \/ /\ at' = "done" /\ UNCHANGED <<x, todo>>
  BY DEF XCheck
<1>3. UNCHANGED <<th, ntids, config, mode, runq, cur>> /\ Active' = Active /\ Tids' = Tids
  BY <1>2 DEF vars, threadVars, runVars, Active, Queued, Tids
<1>4. exit_hash = hash /\ Active = {} /\ n_errors' = 0
  BY <1>1, <1>2, XReturned
<1>5. WithX /\ Recorded(Tids) /\ PointInRange /\ x \in Tids
  BY <1>1 DEF PXCheck, WithX
<1>6. Inv' /\ Forked' /\ Recorded(Tids)'
  BY <1>1, <1>2, <1>3, <1>5, StepInv DEF Forked, Recorded
<1>7. CASE ~LastInst /\ inst' = inst + 1 /\ todo' = ReforkOrder /\ at' = "x_refork" /\ x' = x
  <2>1. /\ todo' \in Seq(Tids) /\ todo' # <<>> /\ IsInjective(todo') /\ Range(todo') = Tids
        /\ todo'[Len(todo')] = x
    BY <1>1, <1>5, <1>7, ReforkOrderFacts
  <2>2. WithX'
    BY <1>2, <1>3, <1>5, <1>7, WithXFrame
  <2>3. Reforking'
    BY <1>3, <1>4, <1>5, <2>1 DEF Reforking, Recorded, WithX
  <2>4. /\ opt.max_num_inst \in Nat /\ inst \in 1..(opt.max_num_inst + 1)
        /\ ~(inst >= opt.max_num_inst) /\ ~complete_x_before_switch
    BY <1>1, <1>5, <1>7, ThsFacts DEF LastInst, PointInRange
  <2>5. PointInRange'
    BY <1>2, <1>7, <2>4 DEF PointInRange
  <2>6. ASSUME ntids > 2 PROVE XIsNext'
    <3>1. XCount \in Nat /\ inst <= XCount
      BY <1>1, <2>4, <2>6, XReturned
    <3>2. cuts = {i \in 1..inst : i < inst \/ i <= XCount}
      BY <1>1, <2>6, XReturned DEF CutsSoFar
    <3>3. cuts = 1..inst /\ (inst + 1) - 1 = inst
      BY <2>4, <3>1, <3>2
    <3> QED BY <1>2, <1>7, <2>1, <3>3 DEF XIsNext
  <2>7. PXRefork'
    BY <1>3, <1>6, <2>2, <2>3, <2>5, <2>6 DEF PXRefork
  <2>8. AtLabels'
    BY <1>1, <1>3, <1>7, <2>7 DEF AtLabels, Labels
  <2> QED BY <1>2, <1>4, <1>6, <2>8 DEF MInv
<1>8. CASE x < Len(ths) /\ x' = x + 1 /\ at' = "x_start" /\ UNCHANGED todo
  <2>1. x' \in Tids'
    BY <1>1, <1>3, <1>5, <1>8, ThsFacts DEF Tids
  <2>2. ExpectedSum(Tids)' = ExpectedSum(Tids)
    BY <1>3 DEF ExpectedSum
  <2>3. PXStart'
    BY <1>2, <1>3, <1>4, <1>5, <1>6, <2>1, <2>2 DEF PXStart, WithX
  <2>4. AtLabels'
    BY <1>1, <1>3, <1>8, <2>3 DEF AtLabels, Labels
  <2> QED BY <1>2, <1>4, <1>6, <2>4 DEF MInv
<1>9. CASE at' = "done" /\ UNCHANGED <<x, todo>>
  <2>1. AtLabels'
    BY <1>1, <1>3, <1>9 DEF AtLabels, Labels
  <2> QED BY <1>2, <1>4, <1>6, <2>1 DEF MInv
<1> QED BY <1>2, <1>7, <1>8, <1>9

\* A step of the machine inside a run: the cut that is recorded is the count
\* of X when it is preempted.
LEMMA CutsStep ==
  ASSUME Inv, PXCheck, Forked, ntids > 2, RunStep
  PROVE  XKnown' /\ CutsSoFar'
<1>1. Machine /\ XKnown /\ CutsSoFar /\ PointInRange /\ inst' = inst
  BY DEF RunStep, PXCheck
<1>2. x \in Tids /\ ths[x] = x /\ opt.max_num_inst \in Nat
  BY ThsFacts DEF PXCheck, WithX
<1>3. config.interleave_tid = x /\ config.switch_on_inst_n = inst /\ config.enable_interleave
  BY <1>2 DEF PXCheck, XConfig, InterleaveConfig
<1>4. Tids' = Tids /\ config' = config
  BY <1>1, MachineFrame
<1>5. /\ XKnown' /\ XCount' >= XCount /\ XCount \in Nat /\ XCount' \in Nat
      /\ XPreempted => XCount' = inst
      /\ XCount < inst /\ XCount' >= inst => XPreempted
  BY <1>1, <1>3, XKnownStep
<1>6. cuts' = IF XPreempted THEN cuts \cup {XCount'} ELSE cuts
  <2>1. (\E t \in Tids : IsX(t) /\ Preempts(t)) <=> XPreempted
    BY <1>2, <1>3 DEF IsX, Preempts, XPreempted, Queued
  <2>2. XPreempted => th'[cur].cumulative_inst_cnt = XCount'
    BY <1>3, <1>4 DEF XPreempted, XCount
  <2> QED BY <2>1, <2>2 DEF RunStep
<1>7. inst \in Nat \ {0}
  BY <1>1, <1>2 DEF PointInRange
<1>8. cuts = {i \in 1..inst : i < inst \/ i <= XCount}
  BY <1>1 DEF CutsSoFar
<1>9. CASE XPreempted
  <2>1. cuts' = {i \in 1..inst : i < inst \/ i <= XCount'}
    BY <1>5, <1>6, <1>7, <1>8, <1>9
  <2> QED BY <1>1, <1>5, <2>1 DEF CutsSoFar
<1>10. CASE ~XPreempted
  <2>1. \A i \in 1..inst : (i < inst \/ i <= XCount) <=> (i < inst \/ i <= XCount')
    BY <1>5, <1>7, <1>10
  <2>2. cuts' = {i \in 1..inst : i < inst \/ i <= XCount'}
    BY <1>6, <1>8, <1>10, <2>1
  <2> QED BY <1>1, <1>5, <2>2 DEF CutsSoFar
<1> QED BY <1>9, <1>10

LEMMA RunStepStep ==
  ASSUME MInv, RunStep, UNCHANGED callVars
  PROVE  [Next]_vars /\ MInv'
<1>1. /\ Machine /\ Inv /\ mode \in {"user", "return"} /\ n_errors' = n_errors
      /\ UNCHANGED <<at, todo, inst, opt, ths, reruns, solo_hash, hash, x>>
  BY DEF MInv, RunStep, callVars, Machine, UserInst, SingleStep, SysPutc, SysExit, AtSwi,
     SyscallPanics, RunThreadsReturn
<1>2. Next
  BY <1>1 DEF Next
<1>3. Forked /\ AtLabels /\ at \in {"single_check", "seq_done", "x_check"} /\ todo = <<>>
  BY <1>1 DEF MInv, AtLabels, Labels
<1>4. /\ Tids' = Tids /\ ntids' = ntids /\ config' = config
      /\ \A t \in Tids : th[t].expected_hash # 0 => th'[t].expected_hash = th[t].expected_hash
  BY <1>1, MachineFrame
<1>5. Inv' /\ Forked'
  BY <1>1, <1>2, <1>3, <1>4, StepInv DEF Forked
<1>6. ASSUME NEW S, Ran(S) PROVE RunResult' /\ (Active \cup finished = S)' /\ (mode' = "client" => Active' = {})
  BY <1>1, <1>6, RanStep
<1>7. CASE at = "single_check"
  <2>1. Single(Reruns) /\ Ran({Newest}) /\ Newest' = Newest /\ Newest \in Tids
    BY <1>1, <1>3, <1>7, ThsFacts DEF AtLabels, PSingleCheck, Single, Newest
  <2>2. Ran({Newest})'
    BY <1>6, <2>1 DEF Ran
  <2>3. Single(Reruns)'
    BY <1>1, <1>4, <2>1 DEF Single, Reruns
  <2>4. AtLabels'
    BY <1>1, <1>3, <1>7, <2>2, <2>3 DEF AtLabels, Labels, PSingleCheck
  <2> QED BY <1>1, <1>2, <1>5, <2>4 DEF MInv
<1>8. ASSUME Recorded(Tids) PROVE Recorded(Tids)' /\ ExpectedSum(Tids)' = ExpectedSum(Tids)
  <2>1. \A t \in Tids : th'[t].expected_hash = th[t].expected_hash
    BY <1>4, <1>8 DEF Recorded
  <2>2. [s \in Tids' |-> th'[s].expected_hash] = [s \in Tids |-> th[s].expected_hash]
    BY <1>4, <2>1
  <2> QED BY <1>4, <1>8, <2>1, <2>2 DEF Recorded, ExpectedSum
<1>9. ASSUME Ran(Tids) PROVE Ran(Tids)'
  BY <1>4, <1>6, <1>9 DEF Ran
<1>10. CASE at = "seq_done"
  <2>1. PSeqDone
    BY <1>3, <1>10 DEF AtLabels
  <2>2. PSeqDone'
    BY <1>4, <1>8, <1>9, <2>1 DEF PSeqDone
  <2>3. AtLabels'
    BY <1>1, <1>3, <1>10, <2>2 DEF AtLabels, Labels
  <2> QED BY <1>1, <1>2, <1>5, <2>3 DEF MInv
<1>11. CASE at = "x_check"
  <2>1. PXCheck
    BY <1>3, <1>11 DEF AtLabels
  <2>2. WithX' /\ Ran(Tids)' /\ Recorded(Tids)' /\ PointInRange'
    BY <1>1, <1>4, <1>8, <1>9, <2>1 DEF PXCheck, WithX, PointInRange
  <2>3. config' = XConfig(inst)'
    BY <1>1, <1>4, <2>1 DEF PXCheck, XConfig, InterleaveConfig
  <2>4. ntids' > 2 => XKnown' /\ CutsSoFar'
    BY <1>1, <1>3, <1>4, <2>1, CutsStep
  <2>5. PXCheck'
    BY <2>2, <2>3, <2>4 DEF PXCheck
  <2>6. AtLabels'
    BY <1>1, <1>3, <1>11, <2>5 DEF AtLabels, Labels
  <2> QED BY <1>1, <1>2, <1>5, <2>6 DEF MInv
<1> QED BY <1>3, <1>7, <1>10, <1>11

-----------------------------------------------------------------------------
LEMMA MultipleInvInit == MultipleInit => MInv /\ XFirst
<1> SUFFICES ASSUME MultipleInit PROVE MInv /\ XFirst
  OBVIOUS
<1>1. Inv /\ Active = {} /\ ntids = 1
  BY InitInv, InitRefines DEF MultipleInit, HarnessInit, Init, B!BInit
<1>2. ths = [i \in 1..0 |-> i]
  <2>1. ths = <<>>
    BY DEF MultipleInit
  <2> QED BY <2>1
<1>3. Forked
  <2>1. opt \in Opts /\ opt.fns \in Seq(Routines)
    BY OptsAssumption DEF MultipleInit, MultipleOpt
  <2> QED BY <1>1, <1>2, <2>1 DEF Forked
<1>4. AtLabels
  BY <1>1 DEF MultipleInit, HarnessInit, Init, AtLabels, Labels, PInit
<1> QED BY <1>1, <1>3, <1>4 DEF MultipleInit, MInv, XFirst

LEMMA MultipleStep == MInv /\ XFirst /\ [MultipleNext]_mvars => [Next]_vars /\ MInv' /\ XFirst'
<1> SUFFICES ASSUME MInv, XFirst, [MultipleNext]_mvars PROVE [Next]_vars /\ MInv' /\ XFirst'
  OBVIOUS
<1>1. [Next]_vars /\ MInv'
  <2>1. CASE UNCHANGED mvars
    <3>1. UNCHANGED vars /\ UNCHANGED <<loopVars, callVars>>
      BY <2>1 DEF mvars
    <3>2. Inv'
      BY <3>1, StepInv DEF MInv
    <3>3. /\ UNCHANGED <<th, ntids, runq, cur, mode, config, flagVars, exit_hash, finished>>
          /\ Tids' = Tids /\ Active' = Active
      BY <3>1 DEF vars, threadVars, runVars, Tids, Active, Queued
    <3>4. Forked' = Forked /\ AtLabels' = AtLabels /\ n_errors' = n_errors
      BY <3>1, <3>3
      DEF loopVars, callVars, flagVars, Forked, AtLabels, PInit, PFork, PSingle, PSingleCheck,
          PSingleRefork, Reforking, PSeqRun, PSeqDone, PXStart, PXRefork, PXRun, PXCheck,
          Single, Newest, Recorded, Ran, RunResult, FinalHashes, WithX, ExpectedSum,
          PointInRange, XIsNext, XConfig, InterleaveConfig, XKnown, XCount, CutsSoFar
    <3> QED BY <3>1, <3>2, <3>3, <3>4 DEF MInv
  <2>2. CASE MultipleNext
    BY <2>2, StartStep, SingleForkStep, SingleRunStep, SingleCheckStep, SingleReforkStep,
       ReforkTodoStep, SequentialConfigStep, SequentialRunStep, SequentialDoneStep,
       XStartStep, XSwitchAtStep, XRunStep, XCheckStep, RunStepStep DEF MultipleNext
  <2> QED BY <2>1, <2>2
<1>2. XFirst'
  <2>1. x' = x \/ at = "x_check"
    BY DEF mvars, MultipleNext, Start, SingleFork, SingleRun, SingleCheck, SingleRefork,
       SequentialConfig, SequentialRun, SequentialDone, XStart, XSwitchAt, XRun, XCheck, callVars
  <2>2. at' \in BeforeX => at \in BeforeX
    BY DEF mvars, loopVars, MultipleNext, Start, SingleFork, SingleRun, SingleCheck, SingleRefork,
       SequentialConfig, SequentialRun, SequentialDone, XStart, XSwitchAt, XRun, XCheck,
       Run, ReforkTodo, RunStep, BeforeX
  <2> QED BY <2>1, <2>2 DEF XFirst, BeforeX
<1> QED BY <1>1, <1>2

\* interleave_multiple calls eqx-threads.c only as a client may: above all it
\* reforks no thread that is queued (interleave-checker.c:69-77, 169-175, 230-232).
THEOREM MultipleKeepsContract == MultipleSpec => KeepsContract
<1>1. MultipleInit => Init
  BY DEF MultipleInit, HarnessInit
<1> QED BY <1>1, MultipleInvInit, MultipleStep, PTL DEF MultipleSpec, KeepsContract, Spec

\* The checker itself never finds a hash or a sum of hashes wrong: a thread whose
\* hash differs stops the machine when it exits
\* (eqx-threads.c:489-506, interleave-checker.c:122-137, 185-190).
THEOREM NoErrorsCounted == MultipleSpec => []ErrorsNeverCounted
<1> DEFINE All == MInv /\ XFirst /\ ErrorsNeverCounted
<1>1. MultipleInit => All
  BY MultipleInvInit DEF MultipleInit, HarnessInit, Init, ErrorsNeverCounted
<1>2. ASSUME All, [MultipleNext]_mvars PROVE All'
  <2>1. MInv' /\ XFirst' /\ [Next]_vars
    BY <1>2, MultipleStep
  <2>2. n_errors' = 0
    BY <2>1 DEF MInv
  <2>3. CASE Next
    <3>1. AnyClient \/ Machine
      BY <1>2, <2>3, ClientInv DEF Next, MInv
    <3>2. why' # "eqx did not catch mismatch hash"
      BY <1>2, <3>1, ReasonFrame DEF ErrorsNeverCounted
    <3> QED BY <2>1, <2>2, <3>2 DEF ErrorsNeverCounted
  <2>4. CASE UNCHANGED vars
    BY <1>2, <2>1, <2>2, <2>4 DEF ErrorsNeverCounted, vars
  <2> QED BY <2>1, <2>3, <2>4
<1>3. All => ErrorsNeverCounted
  OBVIOUS
<1> QED BY <1>1, <1>2, <1>3, PTL DEF MultipleSpec

\* No switch point of X is skipped: after the run for inst, X has been preempted
\* at every one of its first inst instructions and nowhere else, and the loop
\* ends only when X has no further instruction or the bound is reached
\* (interleave-checker.c:168-208).
THEOREM MultipleTriesEveryCut == MultipleSpec => []CutsTried
<1>1. ASSUME MInv PROVE CutsTried
  <2> SUFFICES ASSUME at = "x_check", InClient, ntids > 2
               PROVE  LET K == th[config.interleave_tid].cumulative_inst_cnt
                      IN  /\ cuts = {i \in 1..inst : i < inst \/ i <= K}
                          /\ complete_x_before_switch <=> inst > K
    BY DEF CutsTried, EveryCutTried
  <2>1. Inv /\ Forked /\ PXCheck /\ mode = "client"
    BY <1>1 DEF MInv, AtLabels, InClient
  <2>2. /\ XCount \in Nat
        /\ complete_x_before_switch <=> XCount < inst
        /\ cuts = {i \in 1..inst : i < inst \/ i <= XCount}
    BY <2>1, XReturned DEF CutsSoFar
  <2>3. inst \in Nat
    BY <2>1, ThsFacts DEF PXCheck, PointInRange
  <2> QED BY <2>2, <2>3 DEF XCount
<1> QED BY <1>1, MultipleInvInit, MultipleStep, PTL DEF MultipleSpec

\* The sequential run and the runs with X compare the hash of every thread: none
\* goes unchecked because its hash counts as missing, and eqx_refork refuses a
\* thread only when its last run ended with hash 0
\* (interleave-checker.c:122-137, 167-175, 230-232, eqx-threads.c:201-203, 486-502).
THEOREM MultipleComparesExits == MultipleSpec => []ExitsCompared
<1> DEFINE All == MInv /\ XFirst /\ IdleInv
<1>1. MultipleInit => All
  BY MultipleInvInit, IdleInit DEF MultipleInit, HarnessInit
<1>2. All /\ [MultipleNext]_mvars => All'
  BY MultipleStep, NextIsAny, IdleStep DEF MInv
<1>3. ASSUME All PROVE ExitsCompared
  <2>1. ASSUME at \in {"seq_done", "x_check"}, InClient PROVE Recorded(Tids)
    BY <1>3, <2>1 DEF MInv, AtLabels, InClient, PSeqDone, PXCheck
  <2>2. Refused => \E t \in Tids \ Active : th[t].reg_hash = 0
    BY <1>3 DEF IdleInv
  <2> QED BY <2>1, <2>2 DEF ExitsCompared, EveryExitCompared, Recorded, Refused
<1> QED BY <1>1, <1>2, <1>3, PTL DEF MultipleSpec
-----------------------------------------------------------------------------
(* Routines that do not disturb each other.                                *)

\* run_single forks without an expected hash, and nobody else forks.
LEMMA ForksHonestly ==
  ASSUME Inv, [MultipleNext]_mvars
  PROVE  HonestFork
<1>1. ntids \in Nat \ {0}
  BY BoundsAssumption DEF Inv, TypeOK
<1>2. CASE SingleFork
  <2>1. PICK f, base, nbytes : ForkStack(f, 0, base, nbytes)
    BY <1>2 DEF SingleFork, ForkWith, Fork, ForkNostack
  <2>2. th'[ntids].expected_hash = 0
    BY <1>1, <2>1 DEF ForkStack, NewThread
  <2> QED BY <2>2 DEF HonestFork
<1>3. CASE ~SingleFork
  <2>1. ntids' = ntids
    BY <1>3 DEF mvars, MultipleNext, Start, SingleRun, SingleCheck, SingleRefork, ReforkTodo,
       SequentialConfig, SequentialRun, SequentialDone, XStart, XSwitchAt, XRun, XCheck,
       RunStep, Run, ReforkCall, EqxInit, Refork, ReforkAsserts, SetSchedulerConfig, RunThreads,
       RunThreadsPanics, Panic, vars, threadVars, Machine, UserInst, SingleStep, SysPutc,
       SysExit, SyscallPanics, RunThreadsReturn, Schedule, AddHash
  <2> QED BY <2>1 DEF HonestFork
<1> QED BY <1>2, <1>3

\* interleave_multiple accuses no routines that do not disturb each other: it
\* does not panic on a mismatch, whatever the scheduler type, the stacks, the
\* number of routines and the bound on switch points
\* (interleave-checker.c:117-238, eqx-threads.c:486-502).
THEOREM MultipleAccusesNobody == Undisturbed => (MultipleSpec => []NoFalseAlarm)
<1> SUFFICES ASSUME Undisturbed PROVE MultipleSpec => []NoFalseAlarm
  OBVIOUS
<1>1. MultipleInit => MInv /\ XFirst /\ LocalInv
  BY MultipleInvInit, LocalInit DEF MultipleInit, HarnessInit
<1>2. MInv /\ XFirst /\ LocalInv /\ [MultipleNext]_mvars => (MInv /\ XFirst /\ LocalInv)'
  <2> SUFFICES ASSUME MInv, XFirst, LocalInv, [MultipleNext]_mvars
               PROVE  (MInv /\ XFirst /\ LocalInv)'
    OBVIOUS
  <2>1. [Next]_vars /\ MInv' /\ XFirst' /\ HonestFork
    BY MultipleStep, ForksHonestly DEF MInv
  <2>2. LocalInv'
    BY <2>1, LocalStep DEF LocalNext
  <2> QED BY <2>1, <2>2
<1>3. LocalInv => NoFalseAlarm
  BY DEF LocalInv
<1> QED BY <1>1, <1>2, <1>3, PTL DEF MultipleSpec
-----------------------------------------------------------------------------
(* A run with X preempted is the run in turn.                              *)

\* The list without its i-th member, which goes to the end or to the front.
LEMMA WithoutOne ==
  ASSUME NEW S, NEW q \in Seq(S), NEW i \in 1..Len(q)
  PROVE  RemoveAt(q, i) \in Seq(S) /\ Len(RemoveAt(q, i)) = Len(q) - 1
<1> DEFINE n == Len(q)
           a == SubSeq(q, 1, i - 1)
           b == SubSeq(q, i + 1, n)
<1>1. n \in Nat /\ i \in 1..n
  OBVIOUS
<1>2. a \in Seq(S) /\ Len(a) = i - 1
  BY <1>1
<1>3. b \in Seq(S) /\ Len(b) = n - i
  BY <1>1
<1>4. RemoveAt(q, i) = a \o b
  BY DEF RemoveAt
<1> HIDE DEF a, b, n
<1>5. a \o b \in Seq(S) /\ Len(a \o b) = (i - 1) + (n - i)
  BY <1>1, <1>2, <1>3
<1> QED BY <1>1, <1>4, <1>5 DEF n

LEMMA XFirstFacts ==
  ASSUME NEW S, NEW q \in Seq(S), NEW i \in 1..Len(q)
  PROVE  /\ Append(RemoveAt(q, i), q[i]) \in Seq(S) /\ XFirstOf(q, i) \in Seq(S)
         /\ Len(Append(RemoveAt(q, i), q[i])) = Len(q) /\ Len(XFirstOf(q, i)) = Len(q)
         /\ XFirstOf(q, i) # <<>> /\ Head(XFirstOf(q, i)) = q[i]
         /\ \A k \in 1..Len(q) :
              XFirstOf(q, i)[k] = Append(RemoveAt(q, i), q[i])[Len(q) + 1 - k]
<1>1. q[i] \in S /\ Len(q) \in Nat /\ (Len(q) - 1) + 1 = Len(q)
  OBVIOUS
<1>2. RemoveAt(q, i) \in Seq(S) /\ Len(RemoveAt(q, i)) = Len(q) - 1
  BY WithoutOne
<1>3. XFirstOf(q, i) = <<q[i]>> \o Reverse(RemoveAt(q, i))
  BY DEF XFirstOf
<1> DEFINE r == RemoveAt(q, i)
           e == q[i]
<1> HIDE DEF r, e
<1>4. /\ <<e>> \o Reverse(r) \in Seq(S) /\ Append(r, e) \in Seq(S)
      /\ Len(<<e>> \o Reverse(r)) = Len(r) + 1 /\ Len(Append(r, e)) = Len(r) + 1
      /\ <<e>> \o Reverse(r) # <<>> /\ Head(<<e>> \o Reverse(r)) = e
      /\ \A k \in 1..(Len(r) + 1) :
           (<<e>> \o Reverse(r))[k] = Append(r, e)[(Len(r) + 1) + 1 - k]
  <2>1. r \in Seq(S) /\ e \in S
    BY <1>1, <1>2 DEF r, e
  <2> QED BY <2>1, LastFirst
<1>5. Len(r) + 1 = Len(q)
  BY <1>1, <1>2 DEF r
<1> QED BY <1>3, <1>4, <1>5 DEF r, e

\* After the loop of reforks the queue is X, then the others.
LEMMA QueueIsXFirst ==
  ASSUME Inv, Forked, x \in Tids, todo = <<>>, QueuedSoFar(Tids, ReforkOrder, todo, runq)
  PROVE  runq = XFirstOf(ths, x)
<1>1. ths \in Seq(Tids) /\ x \in 1..Len(ths) /\ ths[x] \in Tids
  BY ThsFacts
<1>2. RemoveAt(ths, x) \in Seq(Tids)
  BY <1>1, WithoutOne
<1>3. QueuedSoFar(Tids, Append(RemoveAt(ths, x), ths[x]), <<>>, runq)
  BY DEF ReforkOrder
<1> QED BY <1>1, <1>2, <1>3, QueuedInReverse DEF XFirstOf

\* How far the loop over X is: the queue that it builds, and the run of it.
InTurn == Along(XFirstOf(ths, x), JobsOf(XFirstOf(ths, x)), inst, mem0)

XToCome == ~thread_x_has_yielded /\ ~complete_x_before_switch

SerialLabels ==
    /\ at = "x_refork" => /\ QueuedSoFar(Tids, ReforkOrder, todo, runq)
                          /\ runq # <<>> => XToCome
    /\ at = "x_run" => runq = XFirstOf(ths, x) /\ XToCome
    /\ at = "x_check" /\ Serial => InTurn

SerialInv ==
    MInv /\ XFirst /\ TurnInv /\ StepInvariant /\ (mode # "panic" => SerialLabels)

LEMMA SerialXStart ==
  ASSUME SerialInv, XStart, mode' # "panic"
  PROVE  SerialLabels'
<1>1. /\ at = "x_start" /\ mode = "client" /\ at' = "x_refork" /\ todo' = ReforkOrder
      /\ UNCHANGED <<ntids, runq, ths, x>> /\ MInv /\ Inv
  BY DEF XStart, SetSchedulerConfig, Panic, SerialInv, MInv, threadVars
<1>2. Forked /\ x \in Tids /\ Active = {}
  BY <1>1 DEF MInv, AtLabels, PXStart, WithX
<1>3. runq = <<>> /\ ReforkOrder \in Seq(Tids)
  BY <1>1, <1>2, NoneQueued, ReforkOrderFacts
<1>4. QueuedSoFar(Tids, ReforkOrder, todo', runq)
  BY <1>1, <1>3, QueuedNone
<1>5. Tids' = Tids /\ ReforkOrder' = ReforkOrder
  BY <1>1 DEF Tids, ReforkOrder
<1> QED BY <1>1, <1>3, <1>4, <1>5 DEF SerialLabels

LEMMA SerialReforkTodo ==
  ASSUME SerialInv, ReforkTodo, UNCHANGED callVars, mode' # "panic"
  PROVE  SerialLabels'
<1> DEFINE t == Head(todo)
<1>1. /\ todo # <<>> /\ ReforkCall(t) /\ todo' = Tail(todo) /\ at' = at
      /\ UNCHANGED <<ths, x>> /\ MInv /\ Inv /\ mode = "client"
  BY DEF ReforkTodo, SerialInv, MInv, callVars, ReforkCall, Refork, ReforkAsserts
<1>2. at \in {"seq_refork", "x_refork"} /\ Reforking
  BY <1>1 DEF MInv, AtLabels, PXRefork
<1>3. t \in Tids /\ t \in Range(todo) /\ t \notin Active
  BY <1>1, <1>2, PopSeq DEF Reforking
<1> HIDE DEF t
<1>4. /\ Tids' = Tids /\ ~complete_x_before_switch' /\ ~thread_x_has_yielded'
      /\ Refork(t)
  BY <1>1, <1>3, ReforkStep DEF ReforkCall
<1>5. runq' = <<t>> \o runq
  BY <1>4 DEF Refork
<1>6. CASE at = "x_refork"
  <2>1. QueuedSoFar(Tids, ReforkOrder, todo, runq)
    BY <1>1, <1>6 DEF SerialInv, SerialLabels
  <2>2. QueuedSoFar(Tids, ReforkOrder, todo', runq')
    BY <1>1, <1>5, <2>1, QueuedOneMore DEF t
  <2>3. ReforkOrder' = ReforkOrder
    BY <1>1 DEF ReforkOrder
  <2> QED BY <1>1, <1>4, <1>6, <2>2, <2>3 DEF SerialLabels, XToCome
<1> QED BY <1>1, <1>2, <1>6 DEF SerialLabels

LEMMA SerialXSwitchAt ==
  ASSUME SerialInv, XSwitchAt, mode' # "panic"
  PROVE  SerialLabels'
<1>1. /\ at = "x_refork" /\ todo = <<>> /\ at' = "x_run" /\ mode = "client"
      /\ UNCHANGED <<runq, flagVars, ths, x>> /\ MInv /\ Inv
  BY DEF XSwitchAt, SetSchedulerConfig, Panic, SerialInv, MInv, callVars
<1>2. Forked /\ x \in Tids
  BY <1>1 DEF MInv, AtLabels, PXRefork, WithX
<1>3. QueuedSoFar(Tids, ReforkOrder, todo, runq) /\ (runq # <<>> => XToCome)
  BY <1>1 DEF SerialInv, SerialLabels
<1>4. runq = XFirstOf(ths, x)
  BY <1>1, <1>2, <1>3, QueueIsXFirst
<1>5. XFirstOf(ths, x) # <<>>
  BY <1>1, <1>2, ThsFacts, XFirstFacts
<1> QED BY <1>1, <1>3, <1>4, <1>5 DEF SerialLabels, XToCome, flagVars

LEMMA SerialXRun ==
  ASSUME SerialInv, XRun, mode' # "panic"
  PROVE  SerialLabels'
<1>1. /\ at = "x_run" /\ at' = "x_check" /\ mode = "client" /\ RunThreads
      /\ UNCHANGED <<inst, opt, ths, x>> /\ mem0' = mem
      /\ MInv /\ Inv /\ Fresh
  BY DEF XRun, Run, RunThreads, RunThreadsPanics, Panic, SerialInv, MInv, TurnInv, callVars
<1>2. Forked /\ x \in Tids /\ PointInRange /\ config = XConfig(inst)
  BY <1>1 DEF MInv, AtLabels, PXRun, WithX
<1>3. runq = XFirstOf(ths, x) /\ XToCome
  BY <1>1 DEF SerialInv, SerialLabels
<1>4. Head(runq) = x /\ inst \in Nat \ {0}
  <2>1. ths \in Seq(Tids) /\ x \in 1..Len(ths) /\ ths[x] = x /\ opt.max_num_inst \in Nat
    BY <1>1, <1>2, ThsFacts
  <2>2. Head(XFirstOf(ths, x)) = x
    BY <2>1, XFirstFacts
  <2> QED BY <1>2, <1>3, <2>1, <2>2 DEF PointInRange
<1>5. /\ config.enable_interleave /\ config.interleave_tid = Head(runq)
      /\ config.switch_on_inst_n = inst /\ config.type = opt.non_interleave_type
  BY <1>1, <1>2, <1>4, ThsFacts DEF XConfig, InterleaveConfig
<1>6. ASSUME Serial' PROVE InTurn'
  <2>1. config.type \in {"SEQUENTIAL", "ALL_PATHS"}
    BY <1>1, <1>5, <1>6 DEF Serial
  <2>2. PICK q, m, n : q = runq /\ m = mem /\ n = inst
    OBVIOUS
  <2>3. Along(q, JobsOf(q), n, m)' /\ JobsOf(q)' = JobsOf(q)
    BY <1>1, <1>3, <1>4, <1>5, <2>1, <2>2, AlongStartX DEF XToCome
  <2>4. q = XFirstOf(ths, x)' /\ n = inst' /\ m = mem0'
    BY <1>1, <1>3, <2>2
  <2>5. JobsOf(XFirstOf(ths, x))' = JobsOf(q)'
    BY <2>4 DEF JobsOf
  <2> QED BY <2>3, <2>4, <2>5 DEF InTurn
<1> QED BY <1>1, <1>6 DEF SerialLabels

LEMMA SerialRunStep ==
  ASSUME NoSelfBranch, SerialInv, RunStep, UNCHANGED callVars, mode' # "panic"
  PROVE  SerialLabels'
<1>1. /\ Machine /\ mode \in {"user", "return"} /\ MInv /\ Inv /\ StepsFromSaved
      /\ UNCHANGED <<at, inst, mem0, opt, ths, x>>
  BY DEF SerialInv, MInv, StepInvariant, RunStep, callVars, Machine, UserInst, SingleStep,
     SysPutc, SysExit, AtSwi, SyscallPanics, RunThreadsReturn
<1>2. at \in {"single_check", "seq_done", "x_check"}
  BY <1>1 DEF MInv, AtLabels, Labels
<1>3. ASSUME at = "x_check", Serial PROVE InTurn'
  <2>1. PICK q, m, n, J : q = XFirstOf(ths, x) /\ m = mem0 /\ n = inst /\ J = JobsOf(q)
    OBVIOUS
  <2>2. Along(q, J, n, m)
    BY <1>1, <1>3, <2>1 DEF SerialInv, SerialLabels, InTurn
  <2>3. Along(q, J, n, m)'
    BY <1>1, <2>2, AlongMachine
  <2>4. J = JobsOf(q)'
    BY <2>3 DEF Along, SetUp
  <2>5. q = XFirstOf(ths, x)' /\ n = inst' /\ m = mem0'
    BY <1>1, <2>1
  <2>6. JobsOf(XFirstOf(ths, x))' = JobsOf(q)'
    BY <2>5 DEF JobsOf
  <2> QED BY <2>3, <2>4, <2>5, <2>6 DEF InTurn
<1> QED BY <1>1, <1>2, <1>3 DEF SerialLabels, Serial

LEMMA SerialXCheck ==
  ASSUME SerialInv, XCheck
  PROVE  SerialLabels'
<1>1. /\ at = "x_check" /\ mode = "client" /\ MInv /\ Inv /\ UNCHANGED vars
      /\ UNCHANGED <<opt, ths>>
      /\ \/ todo' = ReforkOrder /\ at' = "x_refork" /\ x' = x
         \/ at' \in {"x_start", "done"}
  BY DEF XCheck, InClient, SerialInv, MInv
<1>2. Forked /\ PXCheck /\ x \in Tids
  BY <1>1 DEF MInv, AtLabels, PXCheck, WithX
<1>3. runq = <<>> /\ ReforkOrder \in Seq(Tids)
  BY <1>1, <1>2, XReturned, NoneQueued, ReforkOrderFacts
<1>4. CASE todo' = ReforkOrder /\ at' = "x_refork" /\ x' = x
  <2>1. QueuedSoFar(Tids, ReforkOrder, todo', runq)
    BY <1>3, <1>4, QueuedNone
  <2>2. Tids' = Tids /\ ReforkOrder' = ReforkOrder /\ runq' = runq
    BY <1>1, <1>4 DEF Tids, ReforkOrder, vars, threadVars
  <2> QED BY <1>3, <1>4, <2>1, <2>2 DEF SerialLabels
<1>5. CASE at' \in {"x_start", "done"}
  BY <1>5 DEF SerialLabels
<1> QED BY <1>1, <1>4, <1>5

LEMMA SerialInit == MultipleInit => SerialInv
<1> SUFFICES ASSUME MultipleInit PROVE SerialInv
  OBVIOUS
<1>1. MInv /\ XFirst /\ TurnInv /\ StepInvariant
  BY MultipleInvInit, TurnInit, StepInvariantInit DEF MultipleInit, HarnessInit
<1>2. SerialLabels
  BY DEF MultipleInit, HarnessInit, SerialLabels
<1> QED BY <1>1, <1>2 DEF SerialInv

LEMMA SerialStep == NoSelfBranch /\ SerialInv /\ [MultipleNext]_mvars => SerialInv'
<1> SUFFICES ASSUME NoSelfBranch, SerialInv, [MultipleNext]_mvars PROVE SerialInv'
  OBVIOUS
<1>1. [Next]_vars /\ MInv' /\ XFirst'
  BY MultipleStep DEF SerialInv
<1>2. TurnInv' /\ StepInvariant'
  BY <1>1, TurnStep, StepInvariantStep DEF SerialInv
<1>3. ASSUME mode' # "panic" PROVE SerialLabels'
  <2>1. CASE UNCHANGED mvars
    <3>1. /\ UNCHANGED <<vars, loopVars, callVars>>
          /\ UNCHANGED <<th, ntids, runq, cur, mode, config, flagVars, mem, ureg, mismatch>>
      BY <2>1 DEF mvars, vars, threadVars, runVars, cpuVars
    <3>2. mode # "panic"
      BY <1>3, <3>1
    <3>3. InTurn' = InTurn
      <4>1. JobsOf(XFirstOf(ths, x))' = JobsOf(XFirstOf(ths, x))
        BY <3>1 DEF JobsOf, callVars
      <4>2. PICK q, m, n, J : q = XFirstOf(ths, x) /\ m = mem0 /\ n = inst /\ J = JobsOf(q)
        OBVIOUS
      <4>3. q = XFirstOf(ths, x)' /\ m = mem0' /\ n = inst' /\ J = JobsOf(XFirstOf(ths, x))'
        BY <3>1, <4>1, <4>2 DEF loopVars, callVars
      <4>4. Along(q, J, n, m)' = Along(q, J, n, m)
        BY <3>1, AlongFrame
      <4> QED BY <4>2, <4>3, <4>4 DEF InTurn
    <3> QED BY <3>1, <3>2, <3>3
         DEF SerialInv, SerialLabels, loopVars, callVars, flagVars, XToCome, Serial,
             ReforkOrder, Tids
  <2>2. CASE RunStep /\ UNCHANGED callVars
    BY <1>3, <2>2, SerialRunStep
  <2>3. CASE \/ Start \/ SingleFork \/ SingleRun \/ SingleCheck \/ SingleRefork
             \/ SequentialConfig \/ SequentialRun \/ SequentialDone
    <3>1. at' \notin {"x_refork", "x_run", "x_check"}
      BY <1>3, <2>3
         DEF Start, SingleFork, SingleRun, SingleCheck, SingleRefork, SequentialConfig,
             SequentialRun, SequentialDone, Run, Panic
    <3> QED BY <3>1 DEF SerialLabels
  <2> QED BY <1>3, <2>1, <2>2, <2>3, SerialXStart, SerialReforkTodo, SerialXSwitchAt,
             SerialXRun, SerialXCheck DEF MultipleNext
<1> QED BY <1>1, <1>2, <1>3 DEF SerialInv

\* With SEQUENTIAL or ALL_PATHS, a run with X preempted after inst instructions computes
\* what X's first inst instructions, the others one after the other, and the
\* rest of X compute, for every thread's hash and for the memory: single-
\* stepping, context switches and faults in between leave no trace
\* (eqx-threads.c:266-325, 474-515, interleave-checker.c:168-183).
THEOREM MultipleRunsAreSerial == NoSelfBranch => (MultipleSpec => []CutRunsAreSerial)
<1> SUFFICES ASSUME NoSelfBranch PROVE MultipleSpec => []CutRunsAreSerial
  OBVIOUS
<1>1. SerialInv => CutRunsAreSerial
  <2> SUFFICES ASSUME SerialInv, at = "x_check", InClient, Serial
               PROVE  LeftBy(XFirstOf(ths, x)) =
                        CutRun(JobsOf(XFirstOf(ths, x)), inst, mem0)
    BY DEF CutRunsAreSerial
  <2>1. InTurn /\ mode # "user"
    BY DEF SerialInv, SerialLabels, InClient
  <2> QED BY <2>1 DEF InTurn, Along, Over
<1>2. SerialInv /\ [MultipleNext]_mvars => SerialInv'
  BY SerialStep
<1> QED BY <1>1, <1>2, SerialInit, PTL DEF MultipleSpec
-----------------------------------------------------------------------------
(* The verdict.  Every thread runs with the memory as it was at boot, so   *)
(* the hash that is expected of it is the one it has alone.                *)

\* What a routine of the call computes alone.
HashAlone(t) == Alone(JobsFor[t].fn, JobsFor[t].sp, InitMem).hash

\* The threads are those of the call, and what they are expected to compute.
RightThreads ==
    \A t \in Tids : /\ Job(th[t].fn, th[t].stack_end) = JobsFor[t]
                    /\ th[t].expected_hash \in {0, HashAlone(t)}

\* Every run starts with the memory as it was at boot, the ones before the loop
\* over X without an X.
InRow == \E q, J : Along(q, J, Never, InitMem)

RightRun ==
    /\ mode = "client" => mem = InitMem
    /\ at \in BeforeX => ~config.enable_interleave
    /\ at = "seq_run" => config.type = "SEQUENTIAL"
    /\ at \in {"single_check", "seq_done"} => InRow
    /\ at = "x_check" => mem0 = InitMem

LoopLabels == {"x_start", "x_refork", "x_run", "x_check"}

\* The n-th cut of routine i changes no hash.
Agrees(i, n) ==
    CutRun(XFirstOf(JobsFor, i), n, InitMem).hashes = HashesAlone(XFirstOf(JobsFor, i), InitMem)

\* All cuts so far have changed no hash.
Agreed ==
    /\ at \in LoopLabels \cup {"seq_refork", "seq_run", "seq_done"} => ntids - 1 = Len(opt.fns)
    /\ at \in LoopLabels => \A i \in 1..(x - 1), n \in SwitchPoints : Agrees(i, n)
    /\ at \in LoopLabels \ {"x_start"} =>
         inst \in SwitchPoints /\ \A n \in 1..(inst - 1) : Agrees(x, n)
    /\ at = "done" => ~Racy

Promise == Serial /\ Restores

Right == RightThreads /\ RightRun /\ Agreed

VerdictInv ==
    /\ SerialInv
    /\ why = "mismatch" => mode = "panic"
    /\ at = "done" => mode # "panic"
    /\ Promise /\ mode # "panic" => Right
    /\ Promise /\ why = "mismatch" => Racy

-----------------------------------------------------------------------------
\* Nothing of the call changes.
LEMMA CallFrame ==
  ASSUME opt' = opt
  PROVE  /\ JobsFor' = JobsFor /\ SwitchPoints' = SwitchPoints
         /\ Promise' <=> Promise
         /\ Racy' <=> Racy
         /\ \A i, n : Agrees(i, n)' <=> Agrees(i, n)
         /\ \A t : HashAlone(t)' = HashAlone(t)
<1>1. JobsFor' = JobsFor /\ SwitchPoints' = SwitchPoints
  BY DEF JobsFor, StackOf, SwitchPoints
<1>2. Restores' = Restores /\ Racy' = Racy /\ Serial' = Serial
  BY <1>1 DEF Restores, Racy, Serial
<1> QED BY <1>1, <1>2 DEF Promise, Agrees, HashAlone

LEMMA RightFrame ==
  ASSUME RightThreads, Tids' = Tids, opt' = opt,
         \A t \in Tids : /\ th'[t].fn = th[t].fn /\ th'[t].stack_end = th[t].stack_end
                         /\ th'[t].expected_hash = th[t].expected_hash
  PROVE  RightThreads'
<1>1. JobsFor' = JobsFor /\ \A t : HashAlone(t)' = HashAlone(t)
  BY CallFrame
<1> QED BY <1>1 DEF RightThreads

LEMMA JobsForFacts ==
  ASSUME Inv, Forked
  PROVE  /\ Len(opt.fns) \in Nat /\ Len(JobsFor) = Len(opt.fns)
         /\ JobsFor \in Seq({Job(f, s) : f \in Routines, s \in Nat})
         /\ Tids \subseteq 1..Len(opt.fns)
<1>1. opt.fns \in Seq(Routines) /\ ntids \in Nat /\ ntids - 1 <= Len(opt.fns)
  BY ThsFacts DEF Forked
<1>2. \A i \in 1..Len(opt.fns) : StackOf(i) \in Nat
  BY BoundsAssumption DEF StackOf
<1>3. Len(opt.fns) \in Nat /\ \A i \in 1..Len(opt.fns) : opt.fns[i] \in Routines
  BY <1>1
<1> DEFINE S == {Job(f, s) : f \in Routines, s \in Nat}
<1>4. JobsFor \in [1..Len(opt.fns) -> S]
  BY <1>2, <1>3 DEF JobsFor
<1> HIDE DEF S
<1>5. JobsFor \in Seq(S) /\ Len(JobsFor) = Len(opt.fns)
  BY <1>3, <1>4
<1>6. Tids \subseteq 1..Len(opt.fns)
  BY <1>1, <1>3 DEF Tids
<1> QED BY <1>3, <1>5, <1>6 DEF S

\* The k-th member of the list that starts with the i-th one.
LEMMA XFirstIndex ==
  ASSUME NEW S, NEW q \in Seq(S), NEW i \in 1..Len(q), NEW k \in 1..Len(q)
  PROVE  XFirstOf(q, i)[k] =
           q[IF k = 1 THEN i
             ELSE IF Len(q) + 1 - k < i THEN Len(q) + 1 - k ELSE (Len(q) + 1 - k) + 1]
<1> DEFINE n == Len(q)
           a == SubSeq(q, 1, i - 1)
           b == SubSeq(q, i + 1, n)
           r == RemoveAt(q, i)
           j == n + 1 - k
<1>1. n \in Nat /\ i \in 1..n /\ k \in 1..n /\ j \in 1..n
  OBVIOUS
<1>2. a \in Seq(S) /\ Len(a) = i - 1 /\ \A l \in 1..(i - 1) : a[l] = q[l]
  BY <1>1
<1>3. b \in Seq(S) /\ Len(b) = n - i /\ \A l \in 1..(n - i) : b[l] = q[l + i]
  BY <1>1
<1>4. r = a \o b
  BY DEF RemoveAt
<1>5. XFirstOf(q, i)[k] = Append(r, q[i])[j]
  BY XFirstFacts
<1> HIDE DEF a, b, r, n, j
<1>6. r \in Seq(S) /\ Len(r) = n - 1
  BY WithoutOne DEF r, n
<1>7. CASE k = 1
  <2>1. j = Len(r) + 1
    BY <1>1, <1>6, <1>7 DEF j
  <2>2. Append(r, q[i])[j] = q[i]
    BY <1>6, <2>1
  <2> QED BY <1>5, <1>7, <2>2
<1>8. CASE k # 1
  <2>1. j \in 1..Len(r) /\ j \in 1..(n - 1)
    BY <1>1, <1>6, <1>8 DEF j
  <2>2. Append(r, q[i])[j] = r[j]
    BY <1>6, <2>1
  <2>3. CASE j < i
    <3>1. j \in 1..(i - 1) /\ j \in 1..Len(a)
      BY <1>1, <1>2, <2>1, <2>3
    <3>2. r[j] = a[j]
      BY <1>2, <1>3, <1>4, <3>1
    <3> QED BY <1>2, <1>5, <1>8, <2>2, <2>3, <3>1, <3>2 DEF j, n
  <2>4. CASE ~(j < i)
    <3>1. /\ j - (i - 1) \in 1..(n - i) /\ (j - (i - 1)) + i = j + 1
          /\ j \in 1..(Len(a) + Len(b)) /\ ~(j <= Len(a)) /\ j - Len(a) = j - (i - 1)
      BY <1>1, <1>2, <1>3, <2>1, <2>4
    <3>2. r[j] = b[j - Len(a)]
      BY <1>2, <1>3, <1>4, <3>1, ConcatProperties
    <3>3. r[j] = q[j + 1]
      BY <1>3, <3>1, <3>2
    <3> QED BY <1>5, <1>8, <2>2, <2>4, <3>3 DEF j, n
  <2> QED BY <2>3, <2>4
<1> QED BY <1>7, <1>8

\* The jobs of the queue are those of the call, in the same order.
LEMMA XFirstJobs ==
  ASSUME Inv, Forked, x \in Tids, ntids - 1 = Len(opt.fns), RightThreads
  PROVE  /\ JobsOf(XFirstOf(ths, x)) = XFirstOf(JobsFor, x)
         /\ XFirstOf(ths, x) \in Seq(Tids) /\ Len(XFirstOf(ths, x)) = Len(opt.fns)
         /\ Len(opt.fns) \in Nat \ {0} /\ x \in 1..Len(opt.fns)
         /\ Len(XFirstOf(JobsFor, x)) = Len(opt.fns)
<1> DEFINE n == Len(opt.fns)
           o == XFirstOf(ths, x)
           v == XFirstOf(JobsFor, x)
           S == {Job(f, s) : f \in Routines, s \in Nat}
<1>1. /\ ths \in Seq(Tids) /\ Len(ths) = n /\ n \in Nat /\ x \in 1..n /\ Tids = 1..n
      /\ \A t \in Tids : ths[t] = t
  BY ThsFacts DEF Tids
<1>2. JobsFor \in Seq(S) /\ Len(JobsFor) = n
  BY JobsForFacts
<1>3. o \in Seq(Tids) /\ Len(o) = n
  BY <1>1, XFirstFacts
<1>4. v \in Seq(S) /\ Len(v) = n
  BY <1>1, <1>2, XFirstFacts
<1> HIDE DEF S, n
<1>5. ASSUME NEW k \in 1..n PROVE JobsFor[o[k]] = v[k]
  <2> DEFINE p == IF k = 1 THEN x ELSE IF n + 1 - k < x THEN n + 1 - k ELSE (n + 1 - k) + 1
  <2>1. p \in 1..n
    <3>1. k # 1 => n + 1 - k \in 1..(n - 1)
      BY <1>1
    <3> QED BY <1>1, <3>1
  <2>2. o[k] = ths[p]
    <3>1. k \in 1..Len(ths) /\ x \in 1..Len(ths)
      BY <1>1
    <3>2. o[k] = ths[IF k = 1 THEN x
                     ELSE IF Len(ths) + 1 - k < x THEN Len(ths) + 1 - k
                     ELSE (Len(ths) + 1 - k) + 1]
      BY <1>1, <3>1, XFirstIndex
    <3> QED BY <1>1, <3>2
  <2>3. v[k] = JobsFor[p]
    <3>1. k \in 1..Len(JobsFor) /\ x \in 1..Len(JobsFor)
      BY <1>1, <1>2
    <3>2. v[k] = JobsFor[IF k = 1 THEN x
                         ELSE IF Len(JobsFor) + 1 - k < x THEN Len(JobsFor) + 1 - k
                         ELSE (Len(JobsFor) + 1 - k) + 1]
      BY <1>2, <3>1, XFirstIndex
    <3> QED BY <1>2, <3>2
  <2> HIDE DEF p, o, v
  <2> QED BY <1>1, <2>1, <2>2, <2>3
<1> HIDE DEF o, v
<1>6. JobsOf(o) = [k \in 1..n |-> v[k]]
  <2>1. ASSUME NEW k \in 1..n PROVE Job(th[o[k]].fn, th[o[k]].stack_end) = v[k]
    <3>1. o[k] \in Tids
      BY <1>3
    <3> QED BY <1>5, <3>1 DEF RightThreads
  <2> QED BY <1>3, <2>1 DEF JobsOf
<1>7. v = [k \in 1..n |-> v[k]]
  BY <1>4
<1> QED BY <1>1, <1>3, <1>4, <1>6, <1>7 DEF o, v, n

\* The queue of any run, and what its routines compute alone.
LEMMA RightJobs ==
  ASSUME Inv, Forked, RightThreads, NEW q \in Seq(Tids)
  PROVE  /\ Len(JobsOf(q)) = Len(q)
         /\ \A k \in 1..Len(q) : q[k] \in Tids /\ JobsOf(q)[k] = JobsFor[q[k]]
         /\ Restores => Restoring(JobsOf(q), InitMem)
<1>1. Len(q) \in Nat /\ \A k \in 1..Len(q) : q[k] \in Tids /\ q[k] \in 1..Len(opt.fns)
  BY JobsForFacts
<1>2. Len(JobsOf(q)) = Len(q) /\ \A k \in 1..Len(q) : JobsOf(q)[k] = JobsFor[q[k]]
  BY <1>1 DEF JobsOf, RightThreads
<1>3. Restores => Restoring(JobsOf(q), InitMem)
  BY <1>1, <1>2 DEF Restores, Restoring
<1> QED BY <1>1, <1>2, <1>3

-----------------------------------------------------------------------------
(* One lemma for each statement of the checker.                            *)

VerdictHere == VerdictInv /\ Promise /\ mode' # "panic"

LEMMA HereFacts ==
  ASSUME VerdictHere
  PROVE  /\ mode # "panic" => /\ Right /\ RightThreads /\ RightRun /\ Agreed
                             /\ Forked /\ AtLabels
         /\ SerialInv /\ MInv /\ Inv /\ Fresh /\ XFirst /\ Serial /\ Restores
BY DEF VerdictHere, VerdictInv, SerialInv, MInv, TurnInv, Right, Promise

\* The calls that leave the threads and the memory alone.
LEMMA VerdictClient ==
  ASSUME VerdictHere,
         \/ Start \/ SingleCheck \/ SingleRefork \/ SequentialConfig \/ SequentialDone
         \/ ReforkTodo /\ UNCHANGED callVars
         \/ XStart \/ XSwitchAt
  PROVE  RightThreads' /\ mem' = mem /\ opt' = opt /\ ntids' = ntids /\ mode = "client"
         /\ RightRun /\ Agreed /\ Forked /\ AtLabels
<1>1. /\ mode = "client" /\ opt' = opt /\ mem' = mem /\ ntids' = ntids
      /\ \/ th' = th
         \/ th[Newest].expected_hash # 0 /\ th' = Restarted(Newest)
         \/ th[Head(todo)].expected_hash # 0 /\ th' = Restarted(Head(todo))
  BY DEF VerdictHere, Start, EqxInit, SingleCheck, SingleRefork, SequentialConfig,
     SequentialDone, ReforkTodo, XStart, XSwitchAt, SetSchedulerConfig, InClient,
     ReforkCall, Refork, ReforkAsserts, Panic, callVars, vars, threadVars, cpuVars
<1>2. Inv /\ RightThreads /\ RightRun /\ Agreed /\ Forked /\ AtLabels
  BY <1>1, HereFacts
<1>3. th \in [Tids -> Thread] /\ Tids' = Tids
  BY <1>1, <1>2 DEF Inv, TypeOK, Tids
<1>4. \A t \in Tids : /\ th'[t].fn = th[t].fn /\ th'[t].stack_end = th[t].stack_end
                      /\ th'[t].expected_hash = th[t].expected_hash
  BY <1>1, <1>3 DEF Restarted, Thread
<1> QED BY <1>1, <1>2, <1>3, <1>4, RightFrame

LEMMA VerdictBefore ==
  ASSUME VerdictHere,
         \/ Start \/ SingleCheck \/ SingleRefork \/ SequentialConfig \/ SequentialDone
         \/ ReforkTodo /\ UNCHANGED callVars /\ at = "seq_refork"
  PROVE  Right'
<1>1. /\ RightThreads' /\ mem' = mem /\ opt' = opt /\ ntids' = ntids /\ mode = "client"
      /\ RightRun /\ Agreed /\ Forked /\ AtLabels
  BY VerdictClient
<1>2. Inv /\ XFirst
  BY HereFacts
<1>3. /\ at \in BeforeX
      /\ config' = config \/ ~config'.enable_interleave
      /\ at' = "seq_run" => config'.type = "SEQUENTIAL"
      /\ at' \in {"fork", "single_refork", "single", "seq_refork", "seq_run", "x_start"}
      /\ at' = "seq_refork" => at = "seq_refork" \/ Len(ths) = Len(opt.fns)
      /\ at' = "seq_run" => at = "seq_refork"
      /\ at' = "x_start" => at = "seq_done" /\ x' = x
  <2>1. CASE Start \/ SequentialDone
    BY <2>1 DEF VerdictHere, Start, EqxInit, SequentialDone, Panic, callVars, vars, BeforeX
  <2>2. CASE SingleCheck
    BY <2>2 DEF VerdictHere, SingleCheck, Panic, vars, BeforeX
  <2>3. CASE SingleRefork
    BY <2>3 DEF VerdictHere, SingleRefork, ReforkCall, Refork, ReforkAsserts, Panic, BeforeX
  <2>4. CASE SequentialConfig
    BY <2>4 DEF VerdictHere, SequentialConfig, SetSchedulerConfig, Sequentially, Panic, BeforeX
  <2>5. CASE ReforkTodo /\ UNCHANGED callVars /\ at = "seq_refork"
    BY <2>5 DEF VerdictHere, ReforkTodo, ReforkCall, Refork, ReforkAsserts, Panic, BeforeX
  <2> QED BY <2>1, <2>2, <2>3, <2>4, <2>5
<1>4. RightRun'
  BY <1>1, <1>3 DEF RightRun, BeforeX
<1>5. Len(ths) = ntids - 1
  BY <1>1, <1>2, ThsFacts
<1>6. at' \in LoopLabels \cup {"seq_refork", "seq_run", "seq_done"} => ntids - 1 = Len(opt.fns)
  BY <1>1, <1>3, <1>5 DEF Agreed, LoopLabels
<1>7. at' = "x_start" => x' = 1
  BY <1>2, <1>3 DEF XFirst, BeforeX
<1>8. 1..(1 - 1) = {}
  OBVIOUS
<1>9. at' \in LoopLabels => \A i \in 1..(x' - 1), n \in SwitchPoints' : Agrees(i, n)'
  BY <1>3, <1>7, <1>8 DEF LoopLabels
<1>10. Agreed'
  BY <1>1, <1>3, <1>6, <1>9 DEF Agreed, LoopLabels
<1> QED BY <1>1, <1>4, <1>10 DEF Right

\* The loop over X, up to the run.
LEMMA VerdictLoop ==
  ASSUME VerdictHere,
         \/ XStart \/ XSwitchAt
         \/ ReforkTodo /\ UNCHANGED callVars /\ at = "x_refork"
  PROVE  Right'
<1>1. /\ RightThreads' /\ mem' = mem /\ opt' = opt /\ ntids' = ntids /\ mode = "client"
      /\ RightRun /\ Agreed /\ Forked /\ AtLabels
  BY VerdictClient
<1>2. /\ at \in {"x_start", "x_refork"} /\ at' \in {"x_refork", "x_run"} /\ x' = x
      /\ \/ inst' = inst /\ at = "x_refork"
         \/ inst' = 1
  BY DEF XStart, XSwitchAt, ReforkTodo, callVars
<1>3. Inv
  BY HereFacts
<1>4. /\ SwitchPoints' = SwitchPoints
      /\ \A i, n : Agrees(i, n)' <=> Agrees(i, n)
  BY <1>1, CallFrame
<1>5. 1 \in SwitchPoints /\ 1..(1 - 1) = {}
  BY <1>1, <1>3, ThsFacts DEF SwitchPoints
<1>6. inst' \in SwitchPoints /\ \A n \in 1..(inst' - 1) : Agrees(x, n)
  BY <1>1, <1>2, <1>5 DEF Agreed, LoopLabels
<1>7. Agreed'
  <2>1. ntids - 1 = Len(opt.fns) /\ \A i \in 1..(x - 1), n \in SwitchPoints : Agrees(i, n)
    BY <1>1, <1>2 DEF Agreed, LoopLabels
  <2> QED BY <1>1, <1>2, <1>4, <1>6, <2>1 DEF Agreed, LoopLabels
<1>8. RightRun'
  BY <1>1, <1>2 DEF RightRun, BeforeX
<1> QED BY <1>1, <1>7, <1>8 DEF Right

LEMMA VerdictFork ==
  ASSUME VerdictHere, SingleFork
  PROVE  Right'
<1> DEFINE f == opt.fns[Len(ths) + 1]
<1>1. /\ at = "fork" /\ at' = "single" /\ mode = "client" /\ UNCHANGED <<opt, config, mem>>
      /\ (opt.enable_stack /\ Fork(f, 0)) \/ (~opt.enable_stack /\ ForkNostack(f, 0))
  BY DEF SingleFork, ForkWith, Fork, ForkNostack, ForkStack, cpuVars
<1>2. Inv /\ RightThreads /\ RightRun /\ Forked
  BY <1>1, HereFacts
<1>3. ntids \in Nat \ {0} /\ Len(ths) + 1 = ntids /\ Tids = 1..(ntids - 1)
      /\ th \in [Tids -> Thread]
  <2>1. ntids \in Nat \ {0} /\ Len(ths) = ntids - 1
    BY <1>2, ThsFacts
  <2> QED BY <1>2, <2>1 DEF Tids, Inv, TypeOK
<1>4. PICK base \in Nat, nbytes \in Nat :
        /\ ForkStack(f, 0, base, nbytes) /\ base + nbytes = StackOf(ntids)
  BY <1>1, <1>3, BoundsAssumption DEF Fork, ForkNostack, StackOf
<1> HIDE DEF f
<1>5. /\ ntids' = ntids + 1
      /\ th' = [t \in 1..ntids |-> IF t = ntids THEN NewThread(f, 0, base, nbytes) ELSE th[t]]
  BY <1>4 DEF ForkStack
<1>6. Tids' = Tids \cup {ntids}
  BY <1>3, <1>5 DEF Tids
<1>7. ntids \in 1..Len(opt.fns)
  <2>1. AtLabels /\ PFork
    BY <1>1, HereFacts DEF AtLabels
  <2>2. opt.fns \in Seq(Routines)
    BY <1>2, ThsFacts
  <2> QED BY <1>3, <2>1, <2>2 DEF PFork
<1>8. JobsFor[ntids] = Job(f, base + nbytes)
  BY <1>3, <1>4, <1>7 DEF JobsFor, f
<1>9. RightThreads'
  <2>1. JobsFor' = JobsFor /\ \A t : HashAlone(t)' = HashAlone(t)
    BY <1>1, CallFrame
  <2>2. ASSUME NEW t \in Tids
        PROVE  /\ Job(th'[t].fn, th'[t].stack_end) = JobsFor[t]
               /\ th'[t].expected_hash \in {0, HashAlone(t)}
    <3>1. th'[t] = th[t]
      BY <1>3, <1>5
    <3> QED BY <1>2, <3>1 DEF RightThreads
  <2>3. /\ Job(th'[ntids].fn, th'[ntids].stack_end) = JobsFor[ntids]
        /\ th'[ntids].expected_hash = 0
    <3>1. th'[ntids] = NewThread(f, 0, base, nbytes)
      BY <1>3, <1>5
    <3> QED BY <1>8, <3>1 DEF NewThread
  <2> QED BY <1>6, <2>1, <2>2, <2>3 DEF RightThreads
<1>10. RightRun' /\ Agreed'
  BY <1>1, <1>2 DEF RightRun, BeforeX, Agreed, LoopLabels
<1> QED BY <1>9, <1>10 DEF Right

\* A run starts.
LEMMA VerdictRun ==
  ASSUME VerdictHere, SingleRun \/ SequentialRun \/ XRun
  PROVE  Right'
<1>1. /\ RunThreads /\ mode = "client" /\ mode' = "user" /\ mem0' = mem
      /\ UNCHANGED <<th, ntids, config, mem, opt, ths, x, inst>>
      /\ at \in {"single", "seq_run", "x_run"}
      /\ at' = IF at = "single" THEN "single_check"
               ELSE IF at = "seq_run" THEN "seq_done" ELSE "x_check"
  BY DEF VerdictHere, SingleRun, SequentialRun, XRun, Run, RunThreads, RunThreadsPanics,
     RunOneInst, Panic, threadVars, callVars
<1>2. /\ Inv /\ Fresh /\ Serial /\ RightThreads /\ RightRun /\ Agreed /\ Forked /\ AtLabels
      /\ mem = InitMem
  BY <1>1, HereFacts DEF RightRun
<1>3. RightThreads'
  BY <1>1, <1>2, RightFrame DEF Tids
<1>4. ASSUME at \in {"single", "seq_run"} PROVE InRow'
  <2>1. ~config.enable_interleave
    BY <1>2, <1>4 DEF RightRun, BeforeX
  <2>2. at = "seq_run" => config.type = "SEQUENTIAL"
    BY <1>2 DEF RightRun
  <2>3. at = "single" => Len(runq) <= 1
    <3> SUFFICES ASSUME at = "single" PROVE Len(runq) <= 1
      OBVIOUS
    <3>1. Queued = {Newest} /\ runq \in Seq(Tids) /\ IsInjective(runq)
      BY <1>1, <1>2, ActiveFacts DEF AtLabels, PSingle, Inv, TypeOK, RunqSound
    <3>2. ASSUME Len(runq) > 1 PROVE FALSE
      <4>1. 1 \in DOMAIN runq /\ 2 \in DOMAIN runq /\ 1 # 2
        BY <3>1, <3>2
      <4>2. runq[1] \in Queued /\ runq[2] \in Queued
        BY <4>1 DEF Queued, Range
      <4> QED BY <3>1, <4>1, <4>2 DEF IsInjective
    <3> QED BY <3>1, <3>2
  <2>4. Len(runq) > 1 => config.type \in {"SEQUENTIAL", "ALL_PATHS"}
    <3>1. Len(runq) \in Nat
      BY <1>2 DEF Inv, TypeOK
    <3> QED BY <1>4, <2>2, <2>3, <3>1
  <2>5. PICK q, m : q = runq /\ m = mem
    OBVIOUS
  <2>6. Along(q, JobsOf(q), Never, m)' /\ JobsOf(q)' = JobsOf(q)
    BY <1>1, <1>2, <2>1, <2>4, <2>5, AlongStartAll
  <2>7. PICK J : J = JobsOf(q)
    OBVIOUS
  <2>8. m = InitMem
    BY <1>2, <2>5
  <2>9. Along(q, J, Never, InitMem)'
    BY <2>6, <2>7, <2>8
  <2> QED BY <2>9 DEF InRow
<1>5. RightRun'
  BY <1>1, <1>2, <1>4 DEF RightRun, BeforeX
<1>6. Agreed'
  <2>1. /\ SwitchPoints' = SwitchPoints
        /\ \A i, n : Agrees(i, n)' <=> Agrees(i, n)
    BY <1>1, CallFrame
  <2> QED BY <1>1, <1>2, <2>1 DEF Agreed, LoopLabels
<1> QED BY <1>3, <1>5, <1>6 DEF Right

\* What the run of x_check is, in terms of the call.
LEMMA XTurn ==
  ASSUME Inv, Forked, AtLabels, RightThreads, RightRun, Agreed, InTurn, at = "x_check"
  PROVE  /\ XFirstOf(ths, x) \in Seq(Tids) /\ Len(XFirstOf(ths, x)) = Len(opt.fns)
         /\ Along(XFirstOf(ths, x), XFirstOf(JobsFor, x), inst, InitMem)
         /\ JobsOf(XFirstOf(ths, x)) = XFirstOf(JobsFor, x)
         /\ Len(XFirstOf(JobsFor, x)) = Len(opt.fns) /\ Len(opt.fns) \in Nat \ {0}
         /\ x \in 1..Len(opt.fns) /\ inst \in SwitchPoints /\ inst \in Nat \ {0}
         /\ Recorded(Tids)
<1>1. x \in Tids /\ ntids - 1 = Len(opt.fns) /\ mem0 = InitMem /\ inst \in SwitchPoints
      /\ Recorded(Tids)
  BY DEF AtLabels, PXCheck, WithX, Agreed, LoopLabels, RightRun
<1>2. inst \in Nat \ {0}
  BY <1>1, ThsFacts DEF SwitchPoints
<1> QED BY <1>1, <1>2, XFirstJobs DEF InTurn

\* A step inside a run.
LEMMA VerdictRunStep ==
  ASSUME NoSelfBranch, VerdictHere, RunStep, UNCHANGED callVars
  PROVE  Right'
<1>0. Machine
  BY DEF RunStep
<1>1. /\ Machine /\ mode \in {"user", "return"} /\ UNCHANGED <<at, inst, mem0, opt, ths, x>>
      /\ mode' = "client" => mode = "return" /\ mem' = mem
  <2>1. UNCHANGED <<at, inst, mem0, opt, ths, x>>
    BY DEF RunStep, callVars
  <2>2. CASE RunThreadsReturn
    BY <1>0, <2>1, <2>2 DEF RunThreadsReturn
  <2>3. CASE UserInst \/ SysExit
    BY <1>0, <2>1, <2>3 DEF UserInst, SysExit, AtSwi, RunOneInst
  <2>4. CASE SingleStep \/ SysPutc
    BY <1>0, <2>1, <2>4 DEF SingleStep, SysPutc, AtSwi, Schedule, RunOneInst
  <2>5. CASE SyscallPanics
    BY <2>5 DEF SyscallPanics, Panic, VerdictHere
  <2> QED BY <1>0, <2>2, <2>3, <2>4, <2>5 DEF Machine
<1>2. /\ Inv /\ StepsFromSaved /\ Serial /\ Restores /\ Forked /\ AtLabels
      /\ RightThreads /\ RightRun /\ Agreed /\ (at = "x_check" => InTurn)
  BY <1>1, HereFacts DEF SerialInv, SerialLabels, StepInvariant
<1>3. at \in {"single_check", "seq_done", "x_check"}
  BY <1>1, <1>2 DEF AtLabels, Labels
<1>4. /\ Tids' = Tids /\ ntids' = ntids /\ config' = config
      /\ \A t \in Tids : th'[t].fn = th[t].fn /\ th'[t].stack_end = th[t].stack_end
  BY <1>1, <1>2, MachineFrame
<1>5. ASSUME at # "x_check"
      PROVE  /\ InRow' /\ (mode' = "client" => mem' = InitMem)
             /\ AtSwi("exit") => cur \in Tids /\ th[cur].reg_hash = HashAlone(cur)
  <2>1. PICK q, J : Along(q, J, Never, InitMem)
    BY <1>2, <1>3, <1>5 DEF RightRun, InRow
  <2>2. Along(q, J, Never, InitMem)'
    BY <1>1, <1>2, <2>1, AlongMachine DEF VerdictHere
  <2>3. q \in Seq(Tids) /\ J = JobsOf(q)
    BY <2>1 DEF Along, SetUp
  <2>4. Restoring(J, InitMem) /\ \A k \in 1..Len(q) : q[k] \in Tids /\ J[k] = JobsFor[q[k]]
    BY <1>2, <2>3, RightJobs
  <2>5. ASSUME mode' = "client" PROVE mem' = InitMem
    <3>1. mode # "user"
      BY <1>1, <2>5
    <3> QED BY <1>1, <1>2, <2>1, <2>4, <2>5, <3>1, OverAlone
  <2>6. ASSUME AtSwi("exit") PROVE cur \in Tids /\ th[cur].reg_hash = HashAlone(cur)
    <3>1. PICK k \in 1..Len(q) :
            cur = q[k] /\ th[cur].reg_hash = Alone(J[k].fn, J[k].sp, InitMem).hash
      BY <1>2, <2>1, <2>4, <2>6, ExitsAlone
    <3> QED BY <2>4, <3>1 DEF HashAlone
  <2> QED BY <2>2, <2>5, <2>6 DEF InRow
<1>6. ASSUME NEW t \in Tids PROVE th'[t].expected_hash \in {0, HashAlone(t)}
  <2>1. th[t].expected_hash \in {0, HashAlone(t)}
    BY <1>2 DEF RightThreads
  <2>2. CASE th'[t].expected_hash = th[t].expected_hash
    BY <2>1, <2>2
  <2>3. CASE /\ SysExit /\ t = cur /\ th[t].expected_hash = 0
             /\ th'[t].expected_hash = th[t].reg_hash
    <3>1. at # "x_check"
      BY <2>3, <1>2 DEF AtLabels, PXCheck, Recorded
    <3>2. AtSwi("exit")
      BY <2>3 DEF SysExit
    <3> QED BY <1>5, <2>3, <3>1, <3>2
  <2> QED BY <1>1, <1>2, <2>2, <2>3, ExpectedRecorded
<1>7. RightThreads'
  <2>1. JobsFor' = JobsFor /\ \A t : HashAlone(t)' = HashAlone(t)
    BY <1>1, CallFrame
  <2> QED BY <1>2, <1>4, <1>6, <2>1 DEF RightThreads
<1>8. ASSUME at = "x_check", mode' = "client" PROVE mem' = InitMem
  <2>1. /\ Along(XFirstOf(ths, x), XFirstOf(JobsFor, x), inst, InitMem)
        /\ x \in 1..Len(opt.fns) /\ inst \in SwitchPoints
    BY <1>2, <1>8, XTurn
  <2>2. LeftBy(XFirstOf(ths, x)) = CutRun(XFirstOf(JobsFor, x), inst, InitMem)
    BY <1>1, <1>8, <2>1 DEF Along, Over
  <2>3. mem = CutRun(XFirstOf(JobsFor, x), inst, InitMem).mem
    BY <2>2 DEF LeftBy
  <2> QED BY <1>1, <1>2, <1>8, <2>1, <2>3 DEF Restores
<1>9. RightRun'
  <2>1. mode' = "client" => mem' = InitMem
    BY <1>5, <1>8
  <2>2. at' \in {"single_check", "seq_done"} => InRow'
    BY <1>1, <1>5
  <2> QED BY <1>1, <1>2, <1>3, <1>4, <2>1, <2>2 DEF RightRun
<1>10. Agreed'
  <2>1. /\ SwitchPoints' = SwitchPoints
        /\ \A i, n : Agrees(i, n)' <=> Agrees(i, n)
    BY <1>1, CallFrame
  <2> QED BY <1>1, <1>2, <1>3, <1>4, <2>1 DEF Agreed, LoopLabels
<1> QED BY <1>7, <1>9, <1>10 DEF Right

\* After a run with X: it has changed no hash, nor would a later cut when X is
\* too short for one.
LEMMA RunAgrees ==
  ASSUME Inv, Forked, AtLabels, RightThreads, RightRun, Agreed, InTurn, at = "x_check",
         mode = "client"
  PROVE  /\ Agrees(x, inst)
         /\ complete_x_before_switch => \A n \in Nat : n > inst => Agrees(x, n)
<1> DEFINE q == XFirstOf(ths, x)
           J == XFirstOf(JobsFor, x)
<1>1. /\ q \in Seq(Tids) /\ Len(q) = Len(opt.fns) /\ Len(J) = Len(opt.fns)
      /\ Along(q, J, inst, InitMem) /\ JobsOf(q) = J
      /\ Len(opt.fns) \in Nat \ {0} /\ inst \in Nat \ {0} /\ Recorded(Tids)
  BY XTurn
<1> HIDE DEF q, J
<1>2. LeftBy(q) = CutRun(J, inst, InitMem)
      /\ (complete_x_before_switch => Short(J, inst, InitMem))
  BY <1>1 DEF Along, Over
<1>3. \A t \in Tids : th[t].reg_hash = HashAlone(t)
  <2>1. Ran(Tids)
    BY DEF AtLabels, PXCheck
  <2>2. \A t \in Tids : th[t].reg_hash = th[t].expected_hash
    BY <2>1, RanDone
  <2> QED BY <1>1, <2>2 DEF Recorded, RightThreads
<1>4. \A k \in 1..Len(q) : q[k] \in Tids /\ J[k] = JobsFor[q[k]]
  BY <1>1, RightJobs
<1>5. LeftBy(q).hashes = HashesAlone(J, InitMem)
  <2>1. \A k \in 1..Len(q) : th[q[k]].reg_hash = Alone(J[k].fn, J[k].sp, InitMem).hash
    BY <1>3, <1>4 DEF HashAlone
  <2> QED BY <1>1, <2>1 DEF LeftBy, HashesAlone
<1>6. CutRun(J, inst, InitMem).hashes = HashesAlone(J, InitMem)
  BY <1>2, <1>5
<1>7. ASSUME complete_x_before_switch, NEW n \in Nat, n > inst
      PROVE  CutRun(J, n, InitMem).hashes = HashesAlone(J, InitMem)
  <2>1. n \in After(inst)
    BY <1>1, <1>7 DEF After, Never
  <2>2. CutRun(J, n, InitMem) = CutRun(J, inst, InitMem)
    BY <1>1, <1>2, <1>7, <2>1, ShortCutRun
  <2> QED BY <1>6, <2>2
<1> QED BY <1>6, <1>7 DEF Agrees, J

LEMMA VerdictXCheck ==
  ASSUME VerdictHere, XCheck
  PROVE  Right'
<1>1. /\ at = "x_check" /\ mode = "client"
      /\ UNCHANGED <<th, ntids, config, mode, mem, opt, ths>>
      /\ \/ ~LastInst /\ inst' = inst + 1 /\ at' = "x_refork" /\ x' = x
         \/ LastInst /\ x < Len(ths) /\ x' = x + 1 /\ at' = "x_start" /\ inst' = inst
         \/ LastInst /\ x = Len(ths) /\ at' = "done"
  BY DEF XCheck, InClient, vars, threadVars, cpuVars
<1>2. /\ Inv /\ Forked /\ AtLabels /\ RightThreads /\ RightRun /\ Agreed /\ InTurn
  BY <1>1, HereFacts DEF SerialInv, SerialLabels
<1>3. /\ Agrees(x, inst) /\ inst \in SwitchPoints /\ x \in 1..Len(opt.fns)
      /\ Len(opt.fns) \in Nat \ {0} /\ inst \in Nat \ {0}
      /\ complete_x_before_switch => \A n \in Nat : n > inst => Agrees(x, n)
  BY <1>1, <1>2, RunAgrees, XTurn
<1>4. /\ ntids - 1 = Len(opt.fns) /\ Len(ths) = Len(opt.fns) /\ opt.max_num_inst \in Nat
      /\ \A i \in 1..(x - 1), n \in SwitchPoints : Agrees(i, n)
      /\ \A n \in 1..(inst - 1) : Agrees(x, n)
  BY <1>1, <1>2, ThsFacts DEF Agreed, LoopLabels
<1>5. \A n \in 1..inst : Agrees(x, n)
  <2>1. \A n \in 1..inst : n \in 1..(inst - 1) \/ n = inst
    BY <1>3
  <2> QED BY <1>3, <1>4, <2>1
<1>6. ASSUME LastInst PROVE \A i \in 1..x, n \in SwitchPoints : Agrees(i, n)
  <2>1. ASSUME NEW n \in SwitchPoints PROVE Agrees(x, n)
    <3>1. n \in Nat \ {0}
      BY <1>4 DEF SwitchPoints
    <3>2. CASE n <= inst
      <4>1. n \in 1..inst
        BY <1>3, <3>1, <3>2
      <4> QED BY <1>5, <4>1
    <3>3. CASE ~(n <= inst)
      <4>1. n > inst
        BY <1>3, <3>1, <3>3
      <4>2. ~(inst >= opt.max_num_inst)
        BY <1>3, <1>4, <4>1 DEF SwitchPoints
      <4> QED BY <1>3, <1>6, <3>1, <4>1, <4>2 DEF LastInst
    <3> QED BY <3>2, <3>3
  <2>2. \A i \in 1..x : i \in 1..(x - 1) \/ i = x
    BY <1>3
  <2> QED BY <1>4, <2>1, <2>2
<1>7. RightThreads' /\ RightRun'
  <2>1. RightThreads'
    BY <1>1, <1>2, RightFrame DEF Tids
  <2> QED BY <1>1, <1>2, <2>1 DEF RightRun, BeforeX
<1>8. /\ SwitchPoints' = SwitchPoints /\ (Racy' <=> Racy)
      /\ \A i, n : Agrees(i, n)' <=> Agrees(i, n)
  BY <1>1, CallFrame
<1>9. CASE ~LastInst /\ inst' = inst + 1 /\ at' = "x_refork" /\ x' = x
  <2>1. inst + 1 \in SwitchPoints /\ (inst + 1) - 1 = inst
    BY <1>3, <1>4, <1>9 DEF LastInst, SwitchPoints
  <2> QED BY <1>1, <1>4, <1>5, <1>7, <1>8, <1>9, <2>1 DEF Right, Agreed, LoopLabels
<1>10. CASE LastInst /\ x < Len(ths) /\ x' = x + 1 /\ at' = "x_start" /\ inst' = inst
  <2>1. x' - 1 = x
    BY <1>3, <1>10
  <2> QED BY <1>1, <1>4, <1>6, <1>7, <1>8, <1>10, <2>1 DEF Right, Agreed, LoopLabels
<1>11. CASE LastInst /\ x = Len(ths) /\ at' = "done"
  <2>1. ~Racy
    BY <1>4, <1>6, <1>11 DEF Racy, Agrees
  <2> QED BY <1>7, <1>8, <1>11, <2>1 DEF Right, Agreed, LoopLabels
<1> QED BY <1>1, <1>9, <1>10, <1>11

\* A mismatch is the hash of a routine that was cut, or that ran while another
\* one was cut.
LEMMA AccusesRacy ==
  ASSUME VerdictInv, Promise, [Next]_vars, why' = "mismatch", why # "mismatch"
  PROVE  Racy
<1>0. Inv
  BY DEF VerdictInv, SerialInv, MInv
<1>1. AtSwi("exit") /\ ~HashMatches /\ mode = "user"
  BY <1>0, Accuses, NextIsAny DEF AtSwi
<1>2. /\ Restores /\ Forked /\ AtLabels /\ RightThreads /\ RightRun /\ Agreed
      /\ at = "x_check" => InTurn
  BY <1>1 DEF VerdictInv, SerialInv, MInv, Right, Promise, SerialLabels
<1>3. at \in {"single_check", "seq_done", "x_check"}
  BY <1>1, <1>2 DEF AtLabels, Labels
<1>4. cur \in Tids => th[cur].reg_hash # HashAlone(cur)
  BY <1>1, <1>2 DEF RightThreads, HashMatches
<1>5. CASE at # "x_check"
  <2>1. PICK q, J : Along(q, J, Never, InitMem)
    BY <1>2, <1>3, <1>5 DEF RightRun, InRow
  <2>2. q \in Seq(Tids) /\ J = JobsOf(q)
    BY <2>1 DEF Along, SetUp
  <2>3. Restoring(J, InitMem) /\ \A k \in 1..Len(q) : q[k] \in Tids /\ J[k] = JobsFor[q[k]]
    BY <1>0, <1>2, <2>2, RightJobs
  <2>4. PICK k \in 1..Len(q) :
          cur = q[k] /\ th[cur].reg_hash = Alone(J[k].fn, J[k].sp, InitMem).hash
    BY <1>0, <1>1, <2>1, <2>3, ExitsAlone
  <2> QED BY <1>4, <2>3, <2>4 DEF HashAlone
<1>6. CASE at = "x_check"
  <2> DEFINE q == XFirstOf(ths, x)
             J == XFirstOf(JobsFor, x)
  <2>1. /\ q \in Seq(Tids) /\ Len(q) = Len(opt.fns) /\ Len(J) = Len(opt.fns)
        /\ Along(q, J, inst, InitMem) /\ JobsOf(q) = J
        /\ Len(opt.fns) \in Nat \ {0} /\ inst \in Nat \ {0}
        /\ x \in 1..Len(opt.fns) /\ inst \in SwitchPoints
    BY <1>0, <1>2, <1>6, XTurn
  <2> HIDE DEF q, J
  <2>2. \A k \in 1..Len(q) : q[k] \in Tids /\ J[k] = JobsFor[q[k]]
    BY <1>0, <1>2, <2>1, RightJobs
  <2>3. PICK k \in 1..Len(q) :
          /\ cur = q[k]
          /\ \/ k = 1 /\ th[cur].reg_hash = Alone(J[1].fn, J[1].sp, InitMem).hash
             \/ th[cur].reg_hash = CutRun(J, inst, InitMem).hashes[k]
             \/ k > 1 /\ th[cur].reg_hash = Stops(J, inst, InitMem)[k].hash
    BY <1>0, <1>1, <2>1, ExitsWith
  <2>4. ~(k = 1 /\ th[cur].reg_hash = Alone(J[1].fn, J[1].sp, InitMem).hash)
    BY <1>4, <2>2, <2>3 DEF HashAlone
  <2>5. k > 1 => CutRun(J, inst, InitMem).hashes[k] = Stops(J, inst, InitMem)[k].hash
    BY <2>1, CutRunFacts
  <2>6. CutRun(J, inst, InitMem).hashes[k] = th[cur].reg_hash
    BY <2>3, <2>4, <2>5
  <2>7. HashesAlone(J, InitMem)[k] = HashAlone(cur)
    BY <2>1, <2>2, <2>3 DEF HashesAlone, HashAlone
  <2>8. CutRun(J, inst, InitMem).hashes # HashesAlone(J, InitMem)
    BY <1>4, <2>2, <2>3, <2>6, <2>7
  <2> QED BY <2>1, <2>8 DEF Racy, J
<1> QED BY <1>5, <1>6

LEMMA VerdictInit == MultipleInit => VerdictInv
<1> SUFFICES ASSUME MultipleInit PROVE VerdictInv
  OBVIOUS
<1>1. SerialInv /\ Inv /\ Forked
  BY SerialInit DEF SerialInv, MInv, MultipleInit, HarnessInit, Init
<1>2. /\ why = "none" /\ mem = InitMem /\ at = "init" /\ ntids = 1
      /\ ~config.enable_interleave
  BY DEF MultipleInit, HarnessInit, Init
<1>3. Tids = {}
  BY <1>2 DEF Tids
<1>4. Right
  BY <1>2, <1>3 DEF Right, RightThreads, RightRun, Agreed, LoopLabels
<1> QED BY <1>1, <1>2, <1>4 DEF VerdictInv

LEMMA VerdictFrame ==
  ASSUME VerdictHere, UNCHANGED mvars
  PROVE  Right'
<1>1. /\ UNCHANGED <<vars, loopVars, callVars>>
      /\ UNCHANGED <<th, ntids, mode, config, mem>>
  BY DEF mvars, vars, threadVars, cpuVars
<1>2. Right
  BY <1>1 DEF VerdictHere, VerdictInv
<1>3. opt' = opt /\ Tids' = Tids
  BY <1>1 DEF callVars, Tids
<1>4. RightThreads'
  BY <1>1, <1>2, <1>3, RightFrame DEF Right
<1>5. InRow => InRow'
  <2>1. \A q, J : Along(q, J, Never, InitMem)' = Along(q, J, Never, InitMem)
    BY <1>1, AlongFrame
  <2> QED BY <2>1 DEF InRow
<1>6. RightRun'
  BY <1>1, <1>2, <1>5 DEF Right, RightRun, loopVars
<1>7. Agreed'
  <2>1. /\ SwitchPoints' = SwitchPoints /\ (Racy' <=> Racy)
        /\ \A i, n : Agrees(i, n)' <=> Agrees(i, n)
    BY <1>3, CallFrame
  <2> QED BY <1>1, <1>2, <2>1 DEF Right, Agreed, loopVars, callVars
<1> QED BY <1>4, <1>6, <1>7 DEF Right

LEMMA VerdictStep == NoSelfBranch /\ VerdictInv /\ [MultipleNext]_mvars => VerdictInv'
<1> SUFFICES ASSUME NoSelfBranch, VerdictInv, [MultipleNext]_mvars PROVE VerdictInv'
  OBVIOUS
<1>1. SerialInv' /\ [Next]_vars /\ Inv
  BY SerialStep, MultipleStep DEF VerdictInv, SerialInv, MInv
<1>2. opt' = opt
  BY DEF mvars, MultipleNext, Start, SingleFork, SingleRun, SingleCheck, SingleRefork,
     SequentialConfig, SequentialRun, SequentialDone, XStart, XSwitchAt, XRun, XCheck, callVars
<1>3. (Promise' <=> Promise) /\ (Racy' <=> Racy)
  BY <1>2, CallFrame
<1>4. /\ mode = "panic" => UNCHANGED vars
      /\ why' = "mismatch" /\ why # "mismatch" => mode' = "panic"
  BY <1>1, Accuses, NextIsAny
<1>5. why' = "mismatch" => mode' = "panic"
  <2>1. mode = "panic" => mode' = "panic"
    BY <1>4 DEF vars
  <2> QED BY <1>4, <2>1 DEF VerdictInv
<1>6. Promise' /\ why' = "mismatch" => Racy'
  BY <1>1, <1>3, AccusesRacy DEF VerdictInv
<1>7. ASSUME Promise', mode' # "panic" PROVE Right'
  <2>1. VerdictHere
    BY <1>3, <1>7 DEF VerdictHere
  <2>2. CASE ReforkTodo /\ UNCHANGED callVars
    <3>1. mode # "panic" /\ todo # <<>>
      BY <2>2 DEF ReforkTodo, ReforkCall, Refork, ReforkAsserts
    <3>2. at \in {"seq_refork", "x_refork"}
      BY <2>1, <3>1, HereFacts DEF AtLabels
    <3> QED BY <2>1, <2>2, <3>2, VerdictBefore, VerdictLoop
  <2>3. CASE UNCHANGED mvars
    BY <2>1, <2>3, VerdictFrame
  <2> QED BY <2>1, <2>2, <2>3, VerdictBefore, VerdictLoop, VerdictFork, VerdictRun,
             VerdictRunStep, VerdictXCheck DEF MultipleNext
<1>8. ASSUME at' = "done" PROVE mode' # "panic"
  <2>1. CASE XCheck
    BY <2>1 DEF XCheck, InClient, vars
  <2>2. CASE UNCHANGED mvars
    BY <1>8, <2>2 DEF VerdictInv, mvars, loopVars, vars
  <2>3. CASE ReforkTodo \/ RunStep
    <3>1. at = "done" /\ mode # "panic" /\ MInv
      BY <1>8, <2>3 DEF ReforkTodo, RunStep, VerdictInv, SerialInv
    <3>2. mode = "client" /\ todo = <<>>
      BY <3>1 DEF MInv, AtLabels
    <3> QED BY <2>3, <3>2 DEF ReforkTodo, RunStep, Machine, UserInst, SingleStep, SysPutc,
               SysExit, SyscallPanics, AtSwi, RunThreadsReturn
  <2> QED BY <1>8, <2>1, <2>2, <2>3
       DEF MultipleNext, Start, SingleFork, SingleRun, SingleCheck, SingleRefork,
           SequentialConfig, SequentialRun, SequentialDone, XStart, XSwitchAt, XRun, Run, Panic
<1> QED BY <1>1, <1>5, <1>6, <1>7, <1>8 DEF VerdictInv

\* The verdict on routines that leave the memory as they find it is right: the
\* checker ends without a mismatch exactly when no routine's hash is changed by
\* running the others in the middle of it, or it in the middle of them
\* (interleave-checker.c:213-255, eqx-threads.c:486-502).
THEOREM MultipleVerdictIsRight == NoSelfBranch => (MultipleSpec => []VerdictIsRight)
<1> SUFFICES ASSUME NoSelfBranch PROVE MultipleSpec => []VerdictIsRight
  OBVIOUS
<1>1. VerdictInv => VerdictIsRight
  <2> SUFFICES ASSUME VerdictInv, at = "done" \/ why = "mismatch", Serial, Restores
               PROVE  why = "mismatch" <=> Racy
    BY DEF VerdictIsRight
  <2>1. why = "mismatch" => Racy
    BY DEF VerdictInv, Promise
  <2>2. ASSUME why # "mismatch" PROVE ~Racy
    <3>1. at = "done"
      BY <2>2
    <3>2. mode # "panic"
      BY <3>1 DEF VerdictInv
    <3> QED BY <3>1, <3>2 DEF VerdictInv, Promise, Right, Agreed
  <2> QED BY <2>1, <2>2
<1>2. VerdictInv /\ [MultipleNext]_mvars => VerdictInv'
  BY VerdictStep
<1> QED BY <1>1, <1>2, VerdictInit, PTL DEF MultipleSpec
=============================================================================
