------------------------------ MODULE MmuProofs ------------------------------
(***************************************************************************)
(* Theorems about the specification of Mmu.                                *)
(*                                                                         *)
(* A routine is a sequence of instructions.  The invariants say of the     *)
(* instructions still ahead what they will make up for: a register write   *)
(* is followed by a prefetch flush, so old values are in effect only while *)
(* one is ahead.  Such a statement survives the execution of the first     *)
(* instruction, whatever routine it is about.                              *)
(***************************************************************************)
EXTENDS Mmu, SequenceTheorems, FiniteSetTheorems, TLAPS

\* In the program p, op comes after position i (and before position k).
After(p, i, op) == \E j \in DOMAIN p : i < j /\ p[j][1] = op
Between(p, i, op, k) == \E j \in DOMAIN p : i < j /\ j < k /\ p[j][1] = op
Pending(op) == After(code, 0, op)

Tagged == {pte \in Pte : pte.tag}
Instructions ==
    {<<op>> : op \in Operations \ {"ctrl", "asid", "ttbr", "str"}}
    \cup ({"ctrl"} \X SUBSET CtrlBits)
    \cup ({"asid"} \X (Asids \cup {0}))
    \cup ({"ttbr"} \X Tables)
    \cup ({"str"} \X Slots \X Tagged)

\* The variables have their types; only entries that map something are stored.
Typed ==
    /\ use \in Use
    /\ code \in Seq(Instructions)
    /\ cp15 \in [ctrl : SUBSET CtrlBits, asid : Asids \cup {0}, ttbr : Tables]
    /\ stale \in [ctrl : SUBSET SUBSET CtrlBits, asid : SUBSET (Asids \cup {0}),
                  ttbr : SUBSET Tables]
    /\ doomed \subseteq tlb
    /\ DOMAIN dcache \subseteq Locs
    /\ \A l \in DOMAIN dcache : l \in Slots => dcache[l].dirty /\ dcache[l].val \in Tagged
    /\ DOMAIN wbuf \subseteq Locs
    /\ \A l \in DOMAIN wbuf : l \in Slots => wbuf[l] \in Tagged
    /\ DOMAIN mem = Locs
    /\ \A l \in Slots : mem[l] \in Pte
-----------------------------------------------------------------------------
(* Programs.                                                               *)

LEMMA InstructionIs ==
  ASSUME NEW x \in Instructions
  PROVE  /\ x[1] \in Operations
         /\ x[1] = "ctrl" => x[2] \in SUBSET CtrlBits
         /\ x[1] = "asid" => x[2] \in Asids \cup {0}
         /\ x[1] = "ttbr" => x[2] \in Tables
         /\ x[1] = "str" => x[2] \in Slots /\ x[3] \in Tagged
  BY DEF Instructions, Operations

LEMMA SlotIsNoCell ==
  ASSUME NEW l \in Slots PROVE l \notin Cells
  BY DEF Slots, Cells

LEMMA TailAt ==
  ASSUME NEW S, NEW p \in Seq(S), p # <<>>
  PROVE  /\ Tail(p) \in Seq(S)
         /\ 1 \in DOMAIN p /\ Head(p) = p[1] /\ Head(p) \in S
         /\ DOMAIN p \subseteq Nat \ {0} /\ DOMAIN Tail(p) \subseteq Nat \ {0}
         /\ \A i \in DOMAIN Tail(p) : i + 1 \in DOMAIN p /\ Tail(p)[i] = p[i + 1]
         /\ \A i \in DOMAIN p : i # 1 => i - 1 \in DOMAIN Tail(p) /\ Tail(p)[i - 1] = p[i]
<1>1. Len(p) \in Nat \ {0}
  BY EmptySeq
<1>2. /\ Tail(p) \in Seq(S)
      /\ Len(Tail(p)) = Len(p) - 1 /\ Len(Tail(p)) \in Nat
      /\ Head(p) = p[1] /\ p[1] \in S
      /\ \A i \in 1..Len(Tail(p)) : Tail(p)[i] = p[i + 1]
  BY <1>1
<1>3. DOMAIN Tail(p) = 1..Len(Tail(p)) /\ DOMAIN p = 1..Len(p)
  BY <1>2
<1> QED BY <1>1, <1>2, <1>3

\* What is ahead of a position stays ahead of it.
LEMMA TailAfter ==
  ASSUME NEW S, NEW p \in Seq(S), p # <<>>
  PROVE  /\ \A i \in Nat : \A op : After(Tail(p), i, op) <=> After(p, i + 1, op)
         /\ \A i \in Nat, k \in Nat : \A op :
              Between(Tail(p), i, op, k) <=> Between(p, i + 1, op, k + 1)
<1> DEFINE q == Tail(p)
<1>1. /\ DOMAIN p \subseteq Nat \ {0} /\ DOMAIN q \subseteq Nat \ {0}
      /\ \A i \in DOMAIN q : i + 1 \in DOMAIN p /\ q[i] = p[i + 1]
      /\ \A i \in DOMAIN p : i # 1 => i - 1 \in DOMAIN q /\ q[i - 1] = p[i]
  BY TailAt
<1> HIDE DEF q
<1>2. ASSUME NEW i \in Nat, NEW k \in Nat, NEW op
      PROVE  /\ After(q, i, op) => After(p, i + 1, op)
             /\ Between(q, i, op, k) => Between(p, i + 1, op, k + 1)
  <2>1. ASSUME NEW j \in DOMAIN q, i < j
        PROVE  j + 1 \in DOMAIN p /\ i + 1 < j + 1 /\ p[j + 1] = q[j] /\ (j < k => j + 1 < k + 1)
    BY <1>1, <2>1
  <2> QED BY <2>1 DEF After, Between
<1>3. ASSUME NEW i \in Nat, NEW k \in Nat, NEW op
      PROVE  /\ After(p, i + 1, op) => After(q, i, op)
             /\ Between(p, i + 1, op, k + 1) => Between(q, i, op, k)
  <2>1. ASSUME NEW j \in DOMAIN p, i + 1 < j
        PROVE  j - 1 \in DOMAIN q /\ i < j - 1 /\ q[j - 1] = p[j] /\ (j < k + 1 => j - 1 < k)
    BY <1>1, <2>1
  <2> QED BY <2>1 DEF After, Between
<1> QED BY <1>2, <1>3 DEF q

\* The two programs that are put together from two routines.
ResetCode(c) ==
    << <<"inv_dcache">>, <<"inv_tlb">>, <<"dsb">>, <<"flush_btb">>, <<"dsb">>,
       <<"prefetch_flush">>, <<"ctrl", c>>, <<"prefetch_flush">> >>

DisableCode(c) ==
    << <<"clean_inv_dcache">>, <<"dsb">>, <<"ctrl", c>>, <<"prefetch_flush">>,
       <<"flush_btb">>, <<"dsb">>, <<"prefetch_flush">>, <<"ctrl", c>>, <<"prefetch_flush">> >>

LEMMA ConcatIs ==
  ASSUME NEW S, NEW p \in Seq(S), NEW q \in Seq(S), NEW r \in Seq(S),
         Len(r) = Len(p) + Len(q),
         \A i \in 1..Len(p) : r[i] = p[i],
         \A i \in 1..Len(q) : r[Len(p) + i] = q[i]
  PROVE  p \o q = r
<1>1. ASSUME NEW i \in 1..Len(r) PROVE (p \o q)[i] = r[i]
  <2>1. CASE i \in 1..Len(p)
    BY <2>1
  <2>2. CASE i \notin 1..Len(p)
    <3>1. i - Len(p) \in 1..Len(q) /\ Len(p) + (i - Len(p)) = i
      BY <2>2
    <3> QED BY <3>1
  <2> QED BY <2>1, <2>2
<1>2. p \o q \in Seq(S) /\ Len(p \o q) = Len(r)
  OBVIOUS
<1> QED BY <1>1, <1>2, SeqEqual

LEMMA Concatenated ==
  ASSUME NEW c
  PROVE  /\ mmu_reset \o cp15_ctrl_reg1_wr(c) = ResetCode(c)
         /\ mmu_disable_set_asm(c) \o cp15_ctrl_reg1_wr(c) = DisableCode(c)
         /\ mmu_disable_set_asm(c) \o <<>> = mmu_disable_set_asm(c)
<1> DEFINE S == {<<op>> : op \in Operations} \cup {<<"ctrl", c>>}
<1>1. mmu_reset \in Seq(S) /\ cp15_ctrl_reg1_wr(c) \in Seq(S) /\ mmu_disable_set_asm(c) \in Seq(S)
  BY DEF mmu_reset, cp15_ctrl_reg1_wr, mmu_disable_set_asm, Operations
<1>2. ResetCode(c) \in Seq(S) /\ DisableCode(c) \in Seq(S)
  BY DEF ResetCode, DisableCode, Operations
<1>3. /\ Len(ResetCode(c)) = Len(mmu_reset) + Len(cp15_ctrl_reg1_wr(c))
      /\ \A i \in 1..Len(mmu_reset) : ResetCode(c)[i] = mmu_reset[i]
      /\ \A i \in 1..Len(cp15_ctrl_reg1_wr(c)) :
            ResetCode(c)[Len(mmu_reset) + i] = cp15_ctrl_reg1_wr(c)[i]
  BY DEF mmu_reset, cp15_ctrl_reg1_wr, ResetCode
<1>4. /\ Len(DisableCode(c)) = Len(mmu_disable_set_asm(c)) + Len(cp15_ctrl_reg1_wr(c))
      /\ \A i \in 1..Len(mmu_disable_set_asm(c)) : DisableCode(c)[i] = mmu_disable_set_asm(c)[i]
      /\ \A i \in 1..Len(cp15_ctrl_reg1_wr(c)) :
            DisableCode(c)[Len(mmu_disable_set_asm(c)) + i] = cp15_ctrl_reg1_wr(c)[i]
  BY DEF mmu_disable_set_asm, cp15_ctrl_reg1_wr, DisableCode
<1> HIDE DEF S
<1>5. mmu_reset \o cp15_ctrl_reg1_wr(c) = ResetCode(c)
  BY <1>1, <1>2, <1>3, ConcatIs
<1>6. mmu_disable_set_asm(c) \o cp15_ctrl_reg1_wr(c) = DisableCode(c)
  BY <1>1, <1>2, <1>4, ConcatIs
<1>7. mmu_disable_set_asm(c) \o <<>> = mmu_disable_set_asm(c)
  BY <1>1, ConcatEmptySeq
<1> QED BY <1>5, <1>6, <1>7

LEMMA CodeTyped ==
  ASSUME VmAssumption
  PROVE  /\ \A c \in SUBSET CtrlBits :
              /\ ResetCode(c) \in Seq(Instructions) /\ DisableCode(c) \in Seq(Instructions)
              /\ cp15_ctrl_reg1_wr(c) \in Seq(Instructions)
              /\ mmu_disable_set_asm(c) \in Seq(Instructions)
              /\ cp15.ctrl \in SUBSET CtrlBits => mmu_enable_set_asm(c) \in Seq(Instructions)
         /\ \A t \in Tables : cp15_set_procid_ttbr0(AsidOf(t), t) \in Seq(Instructions)
         /\ sync_pte_mods \in Seq(Instructions)
         /\ \A l \in Slots : \A u, v, w \in Tagged :
              << <<"str", l, u>>, <<"str", l, v>>, <<"str", l, w>> >> \in Seq(Instructions)
<1>1. /\ \A op \in Operations \ {"ctrl", "asid", "ttbr", "str"} : <<op>> \in Instructions
      /\ \A c \in SUBSET CtrlBits : <<"ctrl", c>> \in Instructions
      /\ \A a \in Asids \cup {0} : <<"asid", a>> \in Instructions
      /\ \A t \in Tables : <<"ttbr", t>> \in Instructions
      /\ \A l \in Slots, v \in Tagged : <<"str", l, v>> \in Instructions
  BY DEF Instructions
<1>2. /\ <<"dsb">> \in Instructions /\ <<"prefetch_flush">> \in Instructions
      /\ <<"flush_btb">> \in Instructions /\ <<"inv_tlb">> \in Instructions
      /\ <<"inv_dcache">> \in Instructions /\ <<"clean_inv_dcache">> \in Instructions
  BY <1>1 DEF Operations
<1>3. \A t \in Tables : AsidOf(t) \in Asids
  BY DEF Asids
<1> QED BY <1>1, <1>2, <1>3 DEF ResetCode, DisableCode, cp15_ctrl_reg1_wr, mmu_disable_set_asm,
        mmu_enable_set_asm, cp15_set_procid_ttbr0, sync_pte_mods
-----------------------------------------------------------------------------
(* Types.                                                                  *)

LEMMA TypedInit ==
  ASSUME VmAssumption, Init PROVE Typed
<1>1. \A t \in Tables : t = t
  OBVIOUS
<1>2. use \in Use /\ Cells \subseteq Locs /\ Slots \subseteq Locs
  BY DEF VmAssumption, Init, Locs
<1>3. code \in Seq(Instructions) /\ doomed \subseteq tlb
  BY DEF Init
<1>4. cp15 \in [ctrl : SUBSET CtrlBits, asid : Asids \cup {0}, ttbr : Tables]
  BY DEF Init
<1>5. stale \in [ctrl : SUBSET SUBSET CtrlBits, asid : SUBSET (Asids \cup {0}), ttbr : SUBSET Tables]
  BY DEF Init, NotStale
<1>6. DOMAIN wbuf = {}
  BY DEF Init, NoLocs
<1>7. DOMAIN dcache \subseteq Cells
  BY DEF Init, NoLocs
<1>8. DOMAIN mem = Locs /\ \A l \in Slots : mem[l] = ZeroPte
  BY <1>2 DEF Init
<1>9. ZeroPte \in Pte
  BY DEF ZeroPte, Pte, VmAssumption
<1> QED BY <1>2, <1>3, <1>4, <1>5, <1>6, <1>7, <1>8, <1>9, SlotIsNoCell DEF Typed

LEMMA CpuViewIsPte ==
  ASSUME Typed, NEW l \in Slots PROVE CpuView(l) \in Pte
  BY DEF Typed, CpuView, Uncached, Tagged, Locs

LEMMA RoutineTyped ==
  ASSUME VmAssumption, Typed, Kernel PROVE code' \in Seq(Instructions)
<1>1. cp15.ctrl \in SUBSET CtrlBits
  BY DEF Typed
<1>2. CASE vm_mmu_init
  <2>1. cp15.ctrl \cup {"XP_pt"} \in SUBSET CtrlBits
    BY <1>1 DEF CtrlBits
  <2> QED BY <1>2, <2>1, Concatenated, CodeTyped DEF vm_mmu_init, Call
<1>3. ASSUME NEW t \in Tables, NEW va \in Sections, NEW nG \in BOOLEAN, NEW base \in Sections,
             vm_map_sec(t, va, nG, base)
      PROVE  code' \in Seq(Instructions)
  <2> DEFINE l == <<t, va>>
             old == CpuView(l)
             u == [old EXCEPT !.tag = TRUE]
             v == [old EXCEPT !.tag = TRUE, !.nG = nG]
             w == [tag |-> TRUE, nG |-> nG, base |-> base]
  <2>1. l \in Slots
    BY DEF Slots
  <2>2. old \in Pte
    BY <2>1, CpuViewIsPte
  <2>3. u \in Tagged /\ v \in Tagged /\ w \in Tagged
    <3> HIDE DEF old, l
    <3> QED BY <2>2 DEF Pte, Tagged
  <2>4. code' = << <<"str", l, u>>, <<"str", l, v>>, <<"str", l, w>> >>
    BY <1>3 DEF vm_map_sec, Call
  <2> HIDE DEF u, v, w, l
  <2> QED BY <2>1, <2>3, <2>4, CodeTyped
<1>4. ASSUME NEW t \in Tables, vm_mmu_switch(t) PROVE code' \in Seq(Instructions)
  BY <1>4, CodeTyped DEF vm_mmu_switch, Call
<1>5. CASE vm_mmu_enable
  <2>1. cp15.ctrl \cup {"MMU_enabled"} \in SUBSET CtrlBits
    BY <1>1 DEF CtrlBits
  <2> QED BY <1>1, <1>5, <2>1, CodeTyped DEF vm_mmu_enable, Call
<1>6. CASE vm_mmu_disable
  <2>1. cp15.ctrl \ {"MMU_enabled"} \in SUBSET CtrlBits
    BY <1>1
  <2> QED BY <1>6, <2>1, CodeTyped, Concatenated DEF vm_mmu_disable, Call
<1>7. CASE mmu_sync_pte_mods
  BY <1>7, CodeTyped DEF mmu_sync_pte_mods, Call
<1>8. CASE caches_all_on
  <2>1. cp15.ctrl \cup {"C_unified_enable"} \in SUBSET CtrlBits
    BY <1>1 DEF CtrlBits
  <2> QED BY <1>8, <2>1, CodeTyped DEF caches_all_on, Call
<1>9. CASE UNCHANGED code
  BY <1>9 DEF Typed
<1>10. 0 \in Sections /\ use.maps \subseteq Mapping
  BY DEF VmAssumption, Typed, Use
<1>11. ASSUME NEW va, NEW pa, NEW v, Load(va, pa) \/ Store(va, pa, v) PROVE UNCHANGED code
  BY <1>11 DEF Load, Store
<1> QED
  BY <1>2, <1>3, <1>4, <1>5, <1>6, <1>7, <1>8, <1>9, <1>10, <1>11
  DEF Kernel, EnableTwice, NotEnabled, Fails, Mapping

LEMMA Executing ==
  ASSUME Typed, NEW op, Executes(op)
  PROVE  /\ code' = Tail(code) /\ code' \in Seq(Instructions)
         /\ 1 \in DOMAIN code /\ code[1][1] = op /\ Head(code) = code[1]
         /\ DOMAIN code \subseteq Nat \ {0} /\ DOMAIN code' \subseteq Nat \ {0}
         /\ \A i \in DOMAIN code' : i + 1 \in DOMAIN code /\ code'[i] = code[i + 1]
         /\ \A i \in DOMAIN code : i # 1 => i - 1 \in DOMAIN code' /\ code'[i - 1] = code[i]
         /\ \A i \in Nat : \A o : After(code', i, o) <=> After(code, i + 1, o)
         /\ \A i \in Nat, k \in Nat : \A o : Between(code', i, o, k) <=> Between(code, i + 1, o, k + 1)
         /\ \A o : o # op => (After(code, 0, o) <=> After(code, 1, o))
         /\ op \in Operations
         /\ op = "ctrl" => Operand \in SUBSET CtrlBits
         /\ op = "asid" => Operand \in Asids \cup {0}
         /\ op = "ttbr" => Operand \in Tables
         /\ op = "str" => Operand \in Slots /\ Head(code)[3] \in Tagged
<1>1. code \in Seq(Instructions) /\ code # <<>> /\ code' = Tail(code) /\ Head(code)[1] = op
  BY DEF Typed, Executes
<1>2. /\ Tail(code) \in Seq(Instructions)
      /\ 1 \in DOMAIN code /\ Head(code) = code[1] /\ Head(code) \in Instructions
      /\ DOMAIN code \subseteq Nat \ {0} /\ DOMAIN Tail(code) \subseteq Nat \ {0}
      /\ \A i \in DOMAIN Tail(code) : i + 1 \in DOMAIN code /\ Tail(code)[i] = code[i + 1]
      /\ \A i \in DOMAIN code : i # 1 => i - 1 \in DOMAIN Tail(code) /\ Tail(code)[i - 1] = code[i]
  BY <1>1, TailAt
<1>3. /\ \A i \in Nat : \A o : After(Tail(code), i, o) <=> After(code, i + 1, o)
      /\ \A i \in Nat, k \in Nat : \A o :
           Between(Tail(code), i, o, k) <=> Between(code, i + 1, o, k + 1)
  BY <1>1, TailAfter
<1>4. \A o : o # op => (After(code, 0, o) <=> After(code, 1, o))
  <2>1. \A j \in DOMAIN code : 0 < j /\ (code[j][1] # op => 1 < j)
    BY <1>1, <1>2
  <2> QED BY <2>1, <1>2 DEF After
<1>5. /\ op \in Operations
      /\ op = "ctrl" => Operand \in SUBSET CtrlBits
      /\ op = "asid" => Operand \in Asids \cup {0}
      /\ op = "ttbr" => Operand \in Tables
      /\ op = "str" => Operand \in Slots /\ Head(code)[3] \in Tagged
  BY <1>1, <1>2, InstructionIs DEF Operand
<1> QED BY <1>1, <1>2, <1>3, <1>4, <1>5

LEMMA TypedStep ==
  ASSUME VmAssumption, Typed, Next PROVE Typed'
<1>0. UNCHANGED <<use, Slots>> /\ Cells' = Cells /\ Locs' = Locs
  BY DEF Next, Cells, Locs, Slots
<1>1. CASE Walk
  BY <1>0, <1>1 DEF Walk, Typed, cpuVars, memVars
<1>2. CASE TlbEvict
  BY <1>0, <1>2 DEF TlbEvict, Typed, cpuVars, memVars
<1>3. CASE LineEvict
  <2>1. PICK l \in DOMAIN dcache :
         /\ dcache' = Without(dcache, l)
         /\ \/ mem' = [mem EXCEPT ![l] = dcache[l].val] /\ wbuf' = Without(wbuf, l)
            \/ UNCHANGED <<mem, wbuf>>
    BY <1>3 DEF LineEvict
  <2>2. /\ DOMAIN mem' = DOMAIN mem
        /\ \A m \in DOMAIN mem : mem'[m] \in {mem[m], dcache[m].val} /\ (m # l => mem'[m] = mem[m])
    BY <2>1
  <2> QED BY <1>0, <1>3, <2>1, <2>2 DEF LineEvict, Typed, cpuVars, Without, Tagged, Locs
<1>4. CASE Drain
  <2>1. PICK l \in DOMAIN wbuf : mem' = [mem EXCEPT ![l] = wbuf[l]] /\ wbuf' = Without(wbuf, l)
    BY <1>4 DEF Drain
  <2>2. /\ DOMAIN mem' = DOMAIN mem
        /\ \A m \in DOMAIN mem : mem'[m] = IF m = l THEN wbuf[l] ELSE mem[m]
    BY <2>1
  <2> QED BY <1>0, <1>4, <2>1, <2>2 DEF Drain, Typed, cpuVars, Without, Tagged, Locs
<1>5. CASE DSB
  <2>1. code' \in Seq(Instructions)
    BY <1>5, Executing DEF DSB
  <2> QED BY <1>0, <1>5, <2>1 DEF DSB, Typed, cpuVars, Over, NoLocs, Tagged, Locs
<1>6. CASE PREFETCH_FLUSH
  <2>1. code' \in Seq(Instructions)
    BY <1>6, Executing DEF PREFETCH_FLUSH
  <2> QED BY <1>0, <1>6, <2>1 DEF PREFETCH_FLUSH, Typed, memVars, NotStale
<1>7. CASE FLUSH_BTB
  <2>1. code' \in Seq(Instructions)
    BY <1>7, Executing DEF FLUSH_BTB
  <2> QED BY <1>0, <1>7, <2>1 DEF FLUSH_BTB, Typed, memVars
<1>8. CASE INV_TLB
  <2>1. code' \in Seq(Instructions)
    BY <1>8, Executing DEF INV_TLB
  <2> QED BY <1>0, <1>8, <2>1 DEF INV_TLB, Typed, memVars
<1>9. CASE INV_DCACHE
  <2>1. code' \in Seq(Instructions)
    BY <1>9, Executing DEF INV_DCACHE
  <2> QED BY <1>0, <1>9, <2>1 DEF INV_DCACHE, Typed, cpuVars, NoLocs
<1>10. CASE CLEAN_INV_DCACHE
  <2>1. code' \in Seq(Instructions)
    BY <1>10, Executing DEF CLEAN_INV_DCACHE
  <2>2. /\ DOMAIN WrittenBack \subseteq DOMAIN dcache
        /\ \A l \in DOMAIN WrittenBack : WrittenBack[l] = dcache[l].val
    BY DEF WrittenBack
  <2> QED BY <1>0, <1>10, <2>1, <2>2 DEF CLEAN_INV_DCACHE, Typed, cpuVars, Over, NoLocs
<1>11. CASE RegisterSet
  <2>1. PICK reg \in {"ctrl", "asid", "ttbr"} :
          /\ Executes(reg)
          /\ cp15' = [cp15 EXCEPT ![reg] = Operand]
          /\ stale' = [stale EXCEPT ![reg] = @ \cup {cp15[reg]}]
    BY <1>11 DEF RegisterSet
  <2>2. code' \in Seq(Instructions)
    BY <2>1, Executing
  <2>3. /\ reg = "ctrl" => Operand \in SUBSET CtrlBits
        /\ reg = "asid" => Operand \in Asids \cup {0}
        /\ reg = "ttbr" => Operand \in Tables
    BY <2>1, Executing
  <2>4. cp15' \in [ctrl : SUBSET CtrlBits, asid : Asids \cup {0}, ttbr : Tables]
    BY <2>1, <2>3 DEF Typed
  <2>5. stale' \in [ctrl : SUBSET SUBSET CtrlBits, asid : SUBSET (Asids \cup {0}), ttbr : SUBSET Tables]
    BY <2>1 DEF Typed
  <2> QED BY <1>0, <1>11, <2>2, <2>4, <2>5 DEF RegisterSet, Typed, memVars
<1>12. CASE STR
  <2>1. code' \in Seq(Instructions) /\ Operand \in Slots /\ Head(code)[3] \in Tagged
    BY <1>12, Executing DEF STR
  <2> QED BY <1>0, <1>12, <2>1 DEF STR, StoreTo, Typed, cpuVars, Put, Locs
<1>13. CASE Kernel
  <2>1. code' \in Seq(Instructions)
    BY <1>13, RoutineTyped
  <2>2. CASE UNCHANGED <<cpuVars, tlb, doomed, memVars>>
    BY <1>0, <2>1, <2>2 DEF Typed, cpuVars, memVars
  <2>3. ASSUME NEW va \in Sections \ {0}, NEW pa \in use.data, NEW v,
               Load(va, pa) \/ Store(va, pa, v)
        PROVE  Typed'
    <3>1. <<pa>> \in Cells /\ <<pa>> \notin Slots
      BY SlotIsNoCell DEF Cells
    <3> QED BY <1>0, <2>1, <2>3, <3>1 DEF Load, Store, StoreTo, Typed, cpuVars, Put, Locs
  <2> QED BY <1>13, <2>2, <2>3 DEF Kernel, vm_mmu_init, vm_map_sec, vm_mmu_switch, vm_mmu_enable,
             vm_mmu_disable, mmu_sync_pte_mods, caches_all_on, EnableTwice, NotEnabled, Fails, Call
<1> QED
  BY <1>1, <1>2, <1>3, <1>4, <1>5, <1>6, <1>7, <1>8, <1>9, <1>10, <1>11, <1>12, <1>13
  DEF Next, Hardware, Instruction
-----------------------------------------------------------------------------
(* What a routine leaves in effect.                                        *)

\* Register writes and TLB invalidations have their barriers ahead.
Guarded(p) ==
    \A i \in DOMAIN p :
      /\ p[i][1] \in {"ctrl", "asid", "ttbr"} => After(p, i, "prefetch_flush")
      /\ p[i][1] = "inv_tlb" => After(p, i, "dsb")
      /\ p[i][1] \in {"asid", "ttbr", "inv_tlb"} => After(p, i, "flush_btb")

\* So has a write that turns the MMU on or off; the others find it as it was.
MmuOn(c) == "MMU_enabled" \in c
Quiet(p, on) ==
    \A i \in DOMAIN p : p[i][1] = "ctrl" /\ ~After(p, i, "flush_btb") =>
      /\ \A j \in DOMAIN p : j < i /\ p[j][1] = "ctrl" => (MmuOn(p[j][2]) <=> MmuOn(p[i][2]))
      /\ (\A j \in DOMAIN p : j < i => p[j][1] # "ctrl") => (MmuOn(p[i][2]) <=> on)

InSync ==
    /\ Guarded(code) /\ Quiet(code, mmu_is_enabled)
    /\ stale # NotStale => Pending("prefetch_flush")
    /\ doomed # {} => Pending("dsb")
    /\ inited /\ btb => Pending("flush_btb")

LEMMA CodesGuarded ==
  \A a, c, t :
           /\ Guarded(ResetCode(c)) /\ Guarded(cp15_set_procid_ttbr0(a, t))
           /\ Guarded(mmu_enable_set_asm(c)) /\ Guarded(mmu_disable_set_asm(c))
           /\ Guarded(DisableCode(c)) /\ Guarded(cp15_ctrl_reg1_wr(c)) /\ Guarded(sync_pte_mods)
<1> TAKE a, c, t
<1>1. Guarded(ResetCode(c))
  BY DEF Guarded, After, ResetCode
<1>2. Guarded(cp15_set_procid_ttbr0(a, t))
  BY DEF Guarded, After, cp15_set_procid_ttbr0
<1>3. Guarded(mmu_enable_set_asm(c))
  BY DEF Guarded, After, mmu_enable_set_asm
<1>4. Guarded(mmu_disable_set_asm(c))
  BY DEF Guarded, After, mmu_disable_set_asm
<1>5. Guarded(DisableCode(c))
  BY DEF Guarded, After, DisableCode
<1>6. Guarded(cp15_ctrl_reg1_wr(c)) /\ Guarded(sync_pte_mods)
  BY DEF Guarded, After, cp15_ctrl_reg1_wr, sync_pte_mods
<1> QED BY <1>1, <1>2, <1>3, <1>4, <1>5, <1>6

LEMMA CodesQuiet ==
  \A a, c, t, on :
           /\ (MmuOn(c) <=> on) => Quiet(ResetCode(c), on) /\ Quiet(cp15_ctrl_reg1_wr(c), on)
           /\ Quiet(mmu_enable_set_asm(c), on)
           /\ Quiet(mmu_disable_set_asm(c), on) /\ Quiet(DisableCode(c), on)
           /\ Quiet(cp15_set_procid_ttbr0(a, t), on) /\ Quiet(sync_pte_mods, on)
<1> TAKE a, c, t, on
<1>1. (MmuOn(c) <=> on) => Quiet(ResetCode(c), on)
  BY DEF Quiet, ResetCode
<1>2. (MmuOn(c) <=> on) => Quiet(cp15_ctrl_reg1_wr(c), on)
  BY DEF Quiet, cp15_ctrl_reg1_wr
<1>3. Quiet(mmu_enable_set_asm(c), on)
  BY DEF Quiet, After, mmu_enable_set_asm
<1>4. Quiet(mmu_disable_set_asm(c), on)
  BY DEF Quiet, After, mmu_disable_set_asm
<1>5. Quiet(DisableCode(c), on)
  BY DEF Quiet, After, DisableCode
<1>6. Quiet(cp15_set_procid_ttbr0(a, t), on) /\ Quiet(sync_pte_mods, on)
  BY DEF Quiet, cp15_set_procid_ttbr0, sync_pte_mods
<1> QED BY <1>1, <1>2, <1>3, <1>4, <1>5, <1>6

LEMMA GuardedExecuting ==
  ASSUME Typed, Guarded(code), NEW op, Executes(op) PROVE Guarded(code')
<1> SUFFICES ASSUME NEW i \in DOMAIN code'
             PROVE  /\ code'[i][1] \in {"ctrl", "asid", "ttbr"} => After(code', i, "prefetch_flush")
                    /\ code'[i][1] = "inv_tlb" => After(code', i, "dsb")
                    /\ code'[i][1] \in {"asid", "ttbr", "inv_tlb"} => After(code', i, "flush_btb")
  BY DEF Guarded
<1>1. i \in Nat /\ i + 1 \in DOMAIN code /\ code'[i] = code[i + 1]
  BY Executing
<1>2. \A o : After(code', i, o) <=> After(code, i + 1, o)
  BY <1>1, Executing
<1> QED BY <1>1, <1>2 DEF Guarded

LEMMA QuietExecuting ==
  ASSUME Typed, NEW on, Quiet(code, on), NEW op, Executes(op)
  PROVE  Quiet(code', IF op = "ctrl" THEN MmuOn(Operand) ELSE on)
<1> SUFFICES ASSUME NEW i \in DOMAIN code', code'[i][1] = "ctrl", ~After(code', i, "flush_btb")
             PROVE  /\ \A j \in DOMAIN code' : j < i /\ code'[j][1] = "ctrl" =>
                          (MmuOn(code'[j][2]) <=> MmuOn(code'[i][2]))
                    /\ (\A j \in DOMAIN code' : j < i => code'[j][1] # "ctrl") =>
                          (MmuOn(code'[i][2]) <=> IF op = "ctrl" THEN MmuOn(Operand) ELSE on)
  BY DEF Quiet
<1>1. /\ i \in Nat \ {0} /\ i + 1 \in DOMAIN code /\ code'[i] = code[i + 1]
      /\ ~After(code, i + 1, "flush_btb")
  BY Executing
<1>2. /\ \A j \in DOMAIN code : j < i + 1 /\ code[j][1] = "ctrl" =>
           (MmuOn(code[j][2]) <=> MmuOn(code'[i][2]))
      /\ (\A j \in DOMAIN code : j < i + 1 => code[j][1] # "ctrl") => (MmuOn(code'[i][2]) <=> on)
  BY <1>1 DEF Quiet
<1>3. \A j \in DOMAIN code' : j < i /\ code'[j][1] = "ctrl" =>
        (MmuOn(code'[j][2]) <=> MmuOn(code'[i][2]))
  <2> TAKE j \in DOMAIN code'
  <2>1. j \in Nat /\ j + 1 \in DOMAIN code /\ code'[j] = code[j + 1] /\ (j < i => j + 1 < i + 1)
    BY <1>1, Executing
  <2> QED BY <1>2, <2>1
<1>4. CASE op = "ctrl"
  <2>1. 1 \in DOMAIN code /\ 1 < i + 1 /\ code[1][1] = "ctrl" /\ Operand = code[1][2]
    BY <1>1, <1>4, Executing DEF Operand
  <2> QED BY <1>2, <1>3, <1>4, <2>1
<1>5. CASE op # "ctrl"
  <2>1. ASSUME \A j \in DOMAIN code' : j < i => code'[j][1] # "ctrl",
               NEW j \in DOMAIN code, j < i + 1
        PROVE  code[j][1] # "ctrl"
    <3>1. CASE j = 1
      BY <1>5, <3>1, Executing
    <3>2. CASE j # 1
      <4>1. j - 1 \in DOMAIN code' /\ j - 1 < i /\ code'[j - 1] = code[j]
        BY <1>1, <2>1, <3>2, Executing
      <4> QED BY <2>1, <4>1
    <3> QED BY <3>1, <3>2
  <2> QED BY <1>2, <1>3, <1>5, <2>1
<1> QED BY <1>4, <1>5

LEMMA InSyncInit ==
  ASSUME Init PROVE InSync
BY DEF Init, InSync, Guarded, Quiet

LEMMA InSyncKernel ==
  ASSUME Typed, InSync, Kernel PROVE InSync'
<1>0. UNCHANGED <<cp15, stale, btb, doomed>>
  BY DEF Kernel, vm_mmu_init, vm_map_sec, vm_mmu_switch, vm_mmu_enable, vm_mmu_disable,
     mmu_sync_pte_mods, caches_all_on, EnableTwice, NotEnabled, Fails, Call, Load, Store, cpuVars
<1>1. CASE UNCHANGED <<code, inited>>
  BY <1>0, <1>1 DEF InSync, Guarded, Quiet, Pending, After, mmu_is_enabled
<1>2. ASSUME Idle, Guarded(code'), Quiet(code', mmu_is_enabled),
             inited' => inited \/ After(code', 0, "flush_btb")
      PROVE  InSync'
  <2>1. ~Pending("prefetch_flush") /\ ~Pending("dsb") /\ ~Pending("flush_btb")
    BY <1>2 DEF Idle, Pending, After
  <2>2. stale = NotStale /\ doomed = {} /\ ~(inited /\ btb)
    BY <2>1 DEF InSync
  <2> QED BY <1>0, <1>2, <2>2 DEF InSync, Pending, mmu_is_enabled
<1> DEFINE on == mmu_is_enabled
<1>3. CASE vm_mmu_init
  <2> DEFINE c == cp15.ctrl \cup {"XP_pt"}
  <2>1. code' = ResetCode(c) /\ (MmuOn(c) <=> on)
    BY <1>3, Concatenated DEF vm_mmu_init, Call, MmuOn, mmu_is_enabled
  <2> HIDE DEF c, on
  <2>2. Guarded(code') /\ Quiet(code', on)
    BY <2>1, CodesGuarded, CodesQuiet
  <2>3. After(code', 0, "flush_btb")
    BY <2>1 DEF After, ResetCode
  <2> QED BY <1>2, <1>3, <2>2, <2>3 DEF vm_mmu_init, Call, on
<1>4. ASSUME NEW t, NEW va, NEW nG, NEW base, vm_map_sec(t, va, nG, base) PROVE InSync'
  BY <1>2, <1>4 DEF vm_map_sec, Call, Guarded, Quiet
<1>5. ASSUME NEW t, vm_mmu_switch(t) PROVE InSync'
  BY <1>2, <1>5, CodesGuarded, CodesQuiet DEF vm_mmu_switch, Call, ghosts
<1>6. CASE vm_mmu_enable
  BY <1>2, <1>6, CodesGuarded, CodesQuiet DEF vm_mmu_enable, Call
<1>7. CASE vm_mmu_disable
  <2>1. \E c : code' = DisableCode(c) \/ code' = mmu_disable_set_asm(c)
    BY <1>7, Concatenated DEF vm_mmu_disable, Call
  <2> QED BY <1>2, <1>7, <2>1, CodesGuarded, CodesQuiet DEF vm_mmu_disable, Call, ghosts
<1>8. CASE mmu_sync_pte_mods
  BY <1>2, <1>8, CodesGuarded, CodesQuiet DEF mmu_sync_pte_mods, Call
<1>9. CASE caches_all_on
  <2> DEFINE c == cp15.ctrl \cup {"C_unified_enable"}
  <2>1. code' = cp15_ctrl_reg1_wr(c) /\ (MmuOn(c) <=> on)
    BY <1>9 DEF caches_all_on, Call, MmuOn, mmu_is_enabled
  <2> HIDE DEF c, on
  <2>2. Guarded(code') /\ Quiet(code', on)
    BY <2>1, CodesGuarded, CodesQuiet
  <2> QED BY <1>2, <1>9, <2>2 DEF caches_all_on, Call, ghosts, on
<1> QED BY <1>1, <1>3, <1>4, <1>5, <1>6, <1>7, <1>8, <1>9
  DEF Kernel, EnableTwice, NotEnabled, Fails, Load, Store, ghosts

LEMMA PendingExecuting ==
  ASSUME Typed, NEW op, Executes(op)
  PROVE  /\ \A o : o # op /\ Pending(o) => Pending(o)'
         /\ \A o : After(code, 1, o) => Pending(o)'
         /\ \A o : Pending(o)' => Pending(o) /\ After(code, 1, o)
<1>1. /\ \A o : After(code', 0, o) <=> After(code, 1, o)
      /\ \A o : o # op => (After(code, 0, o) <=> After(code, 1, o))
      /\ DOMAIN code \subseteq Nat \ {0}
  BY Executing
<1>2. \A o : After(code, 1, o) => After(code, 0, o)
  BY <1>1 DEF After
<1> QED BY <1>1, <1>2 DEF Pending

LEMMA InSyncStep ==
  ASSUME VmAssumption, Typed, InSync, Next PROVE InSync'
<1>1. CASE Hardware
  <2>1. UNCHANGED <<code, cpuVars, inited>> /\ doomed' \subseteq doomed
    BY <1>1 DEF Hardware, Walk, TlbEvict, LineEvict, Drain, cpuVars, memVars, ghosts
  <2> QED BY <2>1 DEF InSync, Guarded, Quiet, Pending, After, mmu_is_enabled, cpuVars
<1>2. ASSUME NEW op, Executes(op)
      PROVE  /\ Guarded(code') /\ Quiet(code', IF op = "ctrl" THEN MmuOn(Operand) ELSE mmu_is_enabled)
             /\ \A o : o # op /\ Pending(o) => Pending(o)'
             /\ \A o : After(code, 1, o) => Pending(o)'
             /\ code \in Seq(Instructions)
  BY <1>2, GuardedExecuting, QuietExecuting, PendingExecuting DEF InSync, Typed
<1>3. CASE DSB
  BY <1>2, <1>3 DEF DSB, InSync, cpuVars, ghosts, mmu_is_enabled
<1>4. CASE PREFETCH_FLUSH
  BY <1>2, <1>4 DEF PREFETCH_FLUSH, InSync, ghosts, mmu_is_enabled
<1>5. CASE FLUSH_BTB
  BY <1>2, <1>5 DEF FLUSH_BTB, InSync, ghosts, mmu_is_enabled
<1>6. CASE INV_TLB
  <2>1. After(code, 1, "dsb") /\ After(code, 1, "flush_btb")
    BY <1>6, Executing DEF INV_TLB, InSync, Guarded
  <2> QED BY <1>2, <1>6, <2>1 DEF INV_TLB, InSync, ghosts, mmu_is_enabled
<1>7. CASE INV_DCACHE
  BY <1>2, <1>7 DEF INV_DCACHE, InSync, cpuVars, ghosts, mmu_is_enabled
<1>8. CASE CLEAN_INV_DCACHE
  BY <1>2, <1>8 DEF CLEAN_INV_DCACHE, InSync, cpuVars, ghosts, mmu_is_enabled
<1>9. CASE RegisterSet
  <2>1. PICK reg \in {"ctrl", "asid", "ttbr"} :
          /\ Executes(reg)
          /\ cp15' = [cp15 EXCEPT ![reg] = Operand]
          /\ btb' = (btb \/ reg # "ctrl"
                         \/ ("MMU_enabled" \in Operand) # ("MMU_enabled" \in cp15.ctrl))
          /\ UNCHANGED <<doomed, ghosts>>
    BY <1>9 DEF RegisterSet
  <2>2. /\ 1 \in DOMAIN code /\ code[1][1] = reg /\ Operand = code[1][2]
        /\ DOMAIN code \subseteq Nat \ {0}
    BY <2>1, Executing DEF Operand
  <2>3. /\ After(code, 1, "prefetch_flush")
        /\ reg # "ctrl" => After(code, 1, "flush_btb")
    BY <2>2 DEF InSync, Guarded
  <2>4. ASSUME reg = "ctrl", ~After(code, 1, "flush_btb")
        PROVE  MmuOn(Operand) <=> mmu_is_enabled
    <3>1. \A j \in DOMAIN code : ~(j < 1)
      BY <2>2
    <3> QED BY <2>2, <2>4, <3>1 DEF InSync, Quiet
  <2>5. mmu_is_enabled' <=> IF reg = "ctrl" THEN MmuOn(Operand) ELSE mmu_is_enabled
    <3>1. cp15'.ctrl = IF reg = "ctrl" THEN Operand ELSE cp15.ctrl
      BY <2>1 DEF Typed
    <3> QED BY <3>1 DEF mmu_is_enabled, MmuOn
  <2>6. Guarded(code') /\ Quiet(code', mmu_is_enabled')
    BY <1>2, <2>1, <2>5 DEF Quiet
  <2>7. Pending("prefetch_flush")'
    BY <1>2, <2>1, <2>3
  <2>8. doomed' # {} => Pending("dsb")'
    BY <1>2, <2>1 DEF InSync
  <2>9. ASSUME inited', btb' PROVE Pending("flush_btb")'
    <3>1. CASE After(code, 1, "flush_btb")
      BY <1>2, <2>1, <3>1
    <3>2. CASE ~After(code, 1, "flush_btb")
      <4>1. inited /\ btb
        <5>1. reg = "ctrl" /\ ~(("MMU_enabled" \in Operand) # ("MMU_enabled" \in cp15.ctrl))
          BY <2>3, <2>4, <3>2 DEF MmuOn, mmu_is_enabled
        <5>2. btb
          BY <2>1, <2>9, <5>1, Zenon
        <5> QED BY <2>1, <2>9, <5>2 DEF ghosts
      <4> QED BY <1>2, <2>1, <4>1 DEF InSync
    <3> QED BY <3>1, <3>2
  <2> QED BY <2>6, <2>7, <2>8, <2>9 DEF InSync
<1>10. CASE STR
  BY <1>2, <1>10 DEF STR, InSync, cpuVars, ghosts, mmu_is_enabled
<1>11. CASE Kernel
  BY <1>11, InSyncKernel
<1> QED
  BY <1>1, <1>3, <1>4, <1>5, <1>6, <1>7, <1>8, <1>9, <1>10, <1>11 DEF Next, Instruction

\* The invariant of both.
LEMMA SyncInvariant ==
  Spec => [](Typed /\ InSync)
<1>1. Init => Typed /\ InSync
  BY VmAssumption, TypedInit, InSyncInit
<1>2. Typed /\ InSync /\ [Next]_vars => (Typed /\ InSync)'
  <2>1. ASSUME Typed, InSync, Next PROVE (Typed /\ InSync)'
    BY VmAssumption, <2>1, TypedStep, InSyncStep
  <2>2. ASSUME Typed, InSync, UNCHANGED vars PROVE (Typed /\ InSync)'
    <3>1. UNCHANGED <<use, code, cp15, stale, btb, tlb, doomed, dcache, wbuf, mem, inited>>
      BY <2>2 DEF vars, cpuVars, memVars, ghosts
    <3>2. Cells' = Cells /\ Locs' = Locs
      BY <3>1 DEF Cells, Locs
    <3> QED BY <2>2, <3>1, <3>2 DEF Typed, InSync, Pending, After, mmu_is_enabled
  <2> QED BY <2>1, <2>2
<1> QED BY <1>1, <1>2, PTL DEF Spec

\* The types of the virtual-memory state (mmu.c, your-mmu-asm.S).
THEOREM VmTypesCorrect == Spec => []TypeOK
<1>1. Typed => TypeOK
  <2> SUFFICES ASSUME Typed PROVE TypeOK
    OBVIOUS
  <2>1. \A i \in DOMAIN code : code[i] \in Instructions
    BY DEF Typed
  <2>2. \A i \in DOMAIN code : code[i][1] \in Operations
    BY <2>1, InstructionIs
  <2> QED BY <2>2 DEF Typed, TypeOK
<1> QED BY <1>1, SyncInvariant, PTL

\* Every routine of your-mmu-asm.S returns with its cp15 writes and its TLB
\* invalidation in effect and without branch predictions of another mapping.
THEOREM RoutinesReturnInSync == Spec => []ReturnsInSync
<1>1. InSync => ReturnsInSync
  BY DEF InSync, ReturnsInSync, Idle, Pending, After
<1> QED BY <1>1, SyncInvariant, PTL
-----------------------------------------------------------------------------
(* When the MMU comes on.                                                  *)

\* The values a register has now, may still have, and will be given.
Operands(p, reg) == {p[i][2] : i \in {j \in DOMAIN p : p[j][1] = reg}}
RegAhead(reg) == InEffect(reg) \cup Operands(code, reg)

MayTranslate == \E c \in InEffect("ctrl") : MmuOn(c)
WillTranslate == \E c \in RegAhead("ctrl") : MmuOn(c)
NoSlots(f) == \A l \in DOMAIN f : l \notin Slots

\* Nothing is done before vm_mmu_init, and no table is cached before the MMU is on.
Phases ==
    /\ ~inited => /\ code = <<>> /\ cp15.ctrl = {} /\ stale = NotStale /\ doomed = {}
                  /\ ~hot /\ DOMAIN wbuf = {}
    /\ WillTranslate => hot
    /\ ~hot => ~unsynced /\ NoSlots(dcache)
    /\ Pending("str") => inited /\ (hot => unsynced)

LEMMA HardwareFrame ==
  ASSUME Hardware
  PROVE  UNCHANGED <<code, cp15, stale, btb, inited, hot, unsynced, last, failed>>
BY DEF Hardware, Walk, TlbEvict, LineEvict, Drain, cpuVars, memVars, ghosts

LEMMA InstructionFrame ==
  ASSUME Instruction
  PROVE  /\ UNCHANGED <<inited, hot, unsynced, last, failed>>
         /\ \E op \in Operations : Executes(op)
<1>1. UNCHANGED <<inited, hot, unsynced, last, failed>>
  BY DEF Instruction, DSB, PREFETCH_FLUSH, FLUSH_BTB, INV_TLB, INV_DCACHE, CLEAN_INV_DCACHE,
     RegisterSet, STR, ghosts
<1>2. \E op \in Operations : Executes(op)
  BY DEF Instruction, DSB, PREFETCH_FLUSH, FLUSH_BTB, INV_TLB, INV_DCACHE, CLEAN_INV_DCACHE,
     RegisterSet, STR, Operations
<1> QED BY <1>1, <1>2

LEMMA KernelFrame ==
  ASSUME Kernel
  PROVE  UNCHANGED <<cp15, stale, btb, tlb, doomed, mem>> /\ code = <<>>
BY DEF Kernel, vm_mmu_init, vm_map_sec, vm_mmu_switch, vm_mmu_enable, vm_mmu_disable, cpuVars,
   mmu_sync_pte_mods, caches_all_on, EnableTwice, NotEnabled, Fails, Call, Idle, Load, Store, memVars

LEMMA TailOperands ==
  ASSUME Typed, NEW op, Executes(op), NEW reg
  PROVE  /\ Operands(code', reg) \subseteq Operands(code, reg)
         /\ reg = op => Operand \in Operands(code, reg)
<1>1. ASSUME NEW x \in Operands(code', reg) PROVE x \in Operands(code, reg)
  <2>1. PICK i \in DOMAIN code' : code'[i][1] = reg /\ code'[i][2] = x
    BY DEF Operands
  <2>2. i + 1 \in DOMAIN code /\ code[i + 1] = code'[i]
    BY <2>1, Executing
  <2> QED BY <2>1, <2>2 DEF Operands
<1>2. ASSUME reg = op PROVE Operand \in Operands(code, reg)
  BY <1>2, Executing DEF Operands, Operand
<1> QED BY <1>1, <1>2

LEMMA AheadShrinks ==
  ASSUME Typed, Hardware \/ Instruction, NEW reg \in {"ctrl", "asid", "ttbr"}
  PROVE  RegAhead(reg)' \subseteq RegAhead(reg)
<1>1. CASE Hardware
  BY <1>1, HardwareFrame DEF RegAhead, InEffect, Operands
<1>2. CASE RegisterSet
  <2>1. PICK r \in {"ctrl", "asid", "ttbr"} :
          /\ Executes(r)
          /\ cp15' = [cp15 EXCEPT ![r] = Operand]
          /\ stale' = [stale EXCEPT ![r] = @ \cup {cp15[r]}]
    BY <1>2 DEF RegisterSet
  <2>2. /\ Operands(code', reg) \subseteq Operands(code, reg)
        /\ reg = r => Operand \in Operands(code, reg)
    BY <2>1, TailOperands
  <2>3. InEffect(reg)' \subseteq InEffect(reg) \cup (IF reg = r THEN {Operand} ELSE {})
    BY <2>1 DEF InEffect, Typed
  <2> QED BY <2>2, <2>3 DEF RegAhead
<1>3. CASE Instruction /\ ~RegisterSet
  <2>1. Operands(code', reg) \subseteq Operands(code, reg)
    BY <1>3, InstructionFrame, TailOperands
  <2>2. InEffect(reg)' \subseteq InEffect(reg)
    BY <1>3 DEF Instruction, DSB, PREFETCH_FLUSH, FLUSH_BTB, INV_TLB, INV_DCACHE,
       CLEAN_INV_DCACHE, STR, cpuVars, InEffect, NotStale, Typed
  <2> QED BY <2>1, <2>2 DEF RegAhead
<1> QED BY <1>1, <1>2, <1>3

\* The register writes of each routine.
LEMMA CodeOperands ==
  \A a, c, t, l, u, v, w :
    /\ Operands(ResetCode(c), "ctrl") = {c} /\ Operands(ResetCode(c), "ttbr") = {}
    /\ Operands(cp15_set_procid_ttbr0(a, t), "ctrl") = {}
    /\ Operands(cp15_set_procid_ttbr0(a, t), "ttbr") = {t}
    /\ Operands(mmu_enable_set_asm(c), "ctrl") = {cp15.ctrl, c}
    /\ Operands(mmu_enable_set_asm(c), "ttbr") = {}
    /\ Operands(mmu_disable_set_asm(c), "ctrl") = {c} /\ Operands(mmu_disable_set_asm(c), "ttbr") = {}
    /\ Operands(DisableCode(c), "ctrl") = {c} /\ Operands(DisableCode(c), "ttbr") = {}
    /\ Operands(cp15_ctrl_reg1_wr(c), "ctrl") = {c} /\ Operands(cp15_ctrl_reg1_wr(c), "ttbr") = {}
    /\ Operands(sync_pte_mods, "ctrl") = {} /\ Operands(sync_pte_mods, "ttbr") = {}
    /\ Operands(<< <<"str", l, u>>, <<"str", l, v>>, <<"str", l, w>> >>, "ctrl") = {}
    /\ Operands(<< <<"str", l, u>>, <<"str", l, v>>, <<"str", l, w>> >>, "ttbr") = {}
<1> TAKE a, c, t, l, u, v, w
<1>1. Operands(ResetCode(c), "ctrl") = {c} /\ Operands(ResetCode(c), "ttbr") = {}
  BY DEF Operands, ResetCode
<1>2. /\ Operands(cp15_set_procid_ttbr0(a, t), "ctrl") = {}
      /\ Operands(cp15_set_procid_ttbr0(a, t), "ttbr") = {t}
  BY DEF Operands, cp15_set_procid_ttbr0
<1>3. /\ Operands(mmu_enable_set_asm(c), "ctrl") = {cp15.ctrl, c}
      /\ Operands(mmu_enable_set_asm(c), "ttbr") = {}
  BY DEF Operands, mmu_enable_set_asm
<1>4. /\ Operands(mmu_disable_set_asm(c), "ctrl") = {c}
      /\ Operands(mmu_disable_set_asm(c), "ttbr") = {}
  BY DEF Operands, mmu_disable_set_asm
<1>5. Operands(DisableCode(c), "ctrl") = {c} /\ Operands(DisableCode(c), "ttbr") = {}
  BY DEF Operands, DisableCode
<1>6. Operands(cp15_ctrl_reg1_wr(c), "ctrl") = {c} /\ Operands(cp15_ctrl_reg1_wr(c), "ttbr") = {}
  BY DEF Operands, cp15_ctrl_reg1_wr
<1>7. Operands(sync_pte_mods, "ctrl") = {} /\ Operands(sync_pte_mods, "ttbr") = {}
  BY DEF Operands, sync_pte_mods
<1>8. /\ Operands(<< <<"str", l, u>>, <<"str", l, v>>, <<"str", l, w>> >>, "ctrl") = {}
      /\ Operands(<< <<"str", l, u>>, <<"str", l, v>>, <<"str", l, w>> >>, "ttbr") = {}
  BY DEF Operands
<1> QED BY <1>1, <1>2, <1>3, <1>4, <1>5, <1>6, <1>7, <1>8

\* Which call it is, with the instructions it leaves to execute.
LEMMA KernelCalls ==
  ASSUME VmAssumption, Typed, Kernel
  PROVE  \/ ~inited /\ vm_mmu_init /\ code' = ResetCode(cp15.ctrl \cup {"XP_pt"})
         \/ inited /\ \E t \in Tables, va \in Sections, nG \in BOOLEAN, base \in Sections :
              /\ vm_map_sec(t, va, nG, base)
              /\ (nG <=> va # 0) /\ (va = 0 => base = 0)
         \/ inited /\ \E t \in Tables :
              (mmu_is_enabled => MapsKernel(t)) /\ vm_mmu_switch(t)
         \/ inited /\ cp15.asid # 0 /\ MapsKernel(cp15.ttbr) /\ vm_mmu_enable
         \/ /\ inited /\ vm_mmu_disable
            /\ code' \in {DisableCode(cp15.ctrl \ {"MMU_enabled"}),
                          mmu_disable_set_asm(cp15.ctrl \ {"MMU_enabled"})}
         \/ inited /\ mmu_sync_pte_mods
         \/ inited /\ caches_all_on
         \/ inited /\ Fails
         \/ inited /\ ~unsynced /\ \E va \in Sections \ {0}, pa \in use.data :
              Load(va, pa) \/ \E v \in Vals : Store(va, pa, v)
<1>1. 0 \in Sections /\ use.maps \subseteq Mapping
  BY DEF VmAssumption, Typed, Use
<1>2. ASSUME vm_mmu_init PROVE code' = ResetCode(cp15.ctrl \cup {"XP_pt"})
  BY <1>2, Concatenated DEF vm_mmu_init, Call
<1>3. ASSUME vm_mmu_disable
      PROVE  code' \in {DisableCode(cp15.ctrl \ {"MMU_enabled"}),
                        mmu_disable_set_asm(cp15.ctrl \ {"MMU_enabled"})}
  BY <1>3, Concatenated DEF vm_mmu_disable, Call
<1>4. ASSUME NEW t \in Tables, vm_map_sec(t, 0, FALSE, 0)
      PROVE  \E va \in Sections, nG \in BOOLEAN, base \in Sections :
               /\ vm_map_sec(t, va, nG, base)
               /\ (nG <=> va # 0) /\ (va = 0 => base = 0)
  BY <1>1, <1>4
<1>5. ASSUME NEW m \in use.maps, vm_map_sec(m.pt, m.va, TRUE, m.base)
      PROVE  \E t \in Tables, va \in Sections, nG \in BOOLEAN, base \in Sections :
               /\ vm_map_sec(t, va, nG, base)
               /\ (nG <=> va # 0) /\ (va = 0 => base = 0)
  <2>1. m.pt \in Tables /\ m.va \in Sections /\ m.va # 0 /\ m.base \in Sections
    BY <1>1 DEF Mapping
  <2> QED BY <1>5, <2>1
<1> QED BY <1>2, <1>3, <1>4, <1>5 DEF Kernel, EnableTwice, NotEnabled

LEMMA CachesAreOn ==
  ASSUME Phases, CachesOn PROVE hot
BY DEF Phases, CachesOn, WillTranslate, RegAhead, InEffect, MmuOn

LEMMA PhasesInit ==
  ASSUME Init PROVE Phases
<1>1. code = <<>> /\ cp15.ctrl = {} /\ stale = NotStale
  BY DEF Init
<1>2. ASSUME NEW c \in RegAhead("ctrl") PROVE c = {}
  BY <1>1 DEF RegAhead, InEffect, Operands, NotStale
<1>3. NoSlots(dcache)
  BY SlotIsNoCell DEF Init, NoLocs, NoSlots
<1> QED BY <1>1, <1>2, <1>3 DEF Init, Phases, WillTranslate, MmuOn, Pending, After, NoLocs

LEMMA PhasesKernel ==
  ASSUME VmAssumption, Typed, Phases, Kernel PROVE Phases'
<1>0. UNCHANGED <<cp15, stale, doomed, mem, Slots>> /\ code = <<>>
  BY KernelFrame DEF Slots
<1> DEFINE C(p) == InEffect("ctrl") \cup Operands(p, "ctrl")
<1>1. RegAhead("ctrl")' = C(code') /\ RegAhead("ctrl") = C(code)
  BY <1>0 DEF RegAhead, InEffect
<1>2. Operands(code, "ctrl") = {}
  BY <1>0 DEF Operands
<1> HIDE DEF C
<1>3. CASE /\ ~inited /\ vm_mmu_init
           /\ code' = ResetCode(cp15.ctrl \cup {"XP_pt"})
  <2>1. cp15.ctrl = {} /\ stale = NotStale /\ ~hot
    BY <1>3 DEF Phases
  <2>2. ASSUME NEW c \in C(code') PROVE c \subseteq {"XP_pt"}
    <3>1. Operands(code', "ctrl") = {{"XP_pt"}}
      BY <1>3, <2>1, CodeOperands
    <3>2. \A x \in InEffect("ctrl") : x = {}
      BY <2>1 DEF InEffect, NotStale
    <3> QED BY <3>1, <3>2 DEF C
  <2>3. ~WillTranslate'
    BY <1>1, <2>2 DEF WillTranslate, MmuOn
  <2>4. ~Pending("str")'
    BY <1>3 DEF Pending, After, ResetCode
  <2> QED BY <1>0, <1>3, <2>1, <2>3, <2>4 DEF Phases, vm_mmu_init, Call, memVars, NoSlots
<1>4. ASSUME inited, NEW t \in Tables, NEW va, NEW nG, NEW base, vm_map_sec(t, va, nG, base)
      PROVE  Phases'
  <2>1. Operands(code', "ctrl") = {}
    BY <1>4, CodeOperands DEF vm_map_sec, Call
  <2>2. WillTranslate' => WillTranslate
    BY <1>1, <1>2, <2>1 DEF C, WillTranslate
  <2> QED BY <1>0, <1>4, <2>2 DEF Phases, vm_map_sec, Call, memVars, NoSlots
<1>5. ASSUME inited, NEW t \in Tables, vm_mmu_switch(t) PROVE Phases'
  <2>1. Operands(code', "ctrl") = {}
    BY <1>5, CodeOperands DEF vm_mmu_switch, Call
  <2>2. WillTranslate' => WillTranslate
    BY <1>1, <1>2, <2>1 DEF C, WillTranslate
  <2>3. ~Pending("str")'
    BY <1>5 DEF vm_mmu_switch, Call, Pending, After, cp15_set_procid_ttbr0
  <2> QED BY <1>0, <1>5, <2>2, <2>3 DEF Phases, vm_mmu_switch, Call, memVars, ghosts, NoSlots
<1>6. CASE inited /\ vm_mmu_enable
  <2>1. ~Pending("str")'
    BY <1>6 DEF vm_mmu_enable, Call, Pending, After, mmu_enable_set_asm
  <2> QED BY <1>0, <1>6, <2>1 DEF Phases, vm_mmu_enable, Call, memVars, NoSlots
<1>7. ASSUME inited, vm_mmu_disable, NEW c, c = cp15.ctrl \ {"MMU_enabled"},
             code' \in {DisableCode(c), mmu_disable_set_asm(c)}
      PROVE  Phases'
  <2>1. Operands(code', "ctrl") = {c}
    BY <1>7, CodeOperands
  <2>2. WillTranslate' => WillTranslate
    BY <1>1, <1>2, <1>7, <2>1 DEF C, WillTranslate, MmuOn
  <2>3. ~Pending("str")'
    BY <1>7 DEF Pending, After, DisableCode, mmu_disable_set_asm
  <2> QED BY <1>0, <1>7, <2>2, <2>3 DEF Phases, vm_mmu_disable, Call, memVars, ghosts, NoSlots
<1>8. CASE inited /\ mmu_sync_pte_mods
  <2>1. Operands(code', "ctrl") = {}
    BY <1>8, CodeOperands DEF mmu_sync_pte_mods, Call
  <2>2. WillTranslate' => WillTranslate
    BY <1>1, <1>2, <2>1 DEF C, WillTranslate
  <2>3. ~Pending("str")'
    BY <1>8 DEF mmu_sync_pte_mods, Call, Pending, After, sync_pte_mods
  <2> QED BY <1>0, <1>8, <2>2, <2>3 DEF Phases, mmu_sync_pte_mods, Call, memVars, NoSlots
<1>9. CASE inited /\ caches_all_on
  <2>1. hot
    BY <1>9 DEF caches_all_on, mmu_is_enabled, Phases, WillTranslate, RegAhead, InEffect, MmuOn
  <2>2. ~Pending("str")'
    BY <1>9 DEF caches_all_on, Call, Pending, After, cp15_ctrl_reg1_wr
  <2> QED BY <1>0, <1>9, <2>1, <2>2 DEF Phases, caches_all_on, Call, memVars, ghosts, NoSlots
<1>10. CASE inited /\ UNCHANGED <<code, inited, hot, unsynced>> /\ (~hot => NoSlots(dcache'))
  <2>1. WillTranslate' => WillTranslate
    BY <1>1, <1>10 DEF WillTranslate
  <2> QED BY <1>0, <1>10, <2>1 DEF Phases, Pending, After, NoSlots
<1>11. CASE inited /\ Fails
  BY <1>10, <1>11 DEF Fails, memVars, ghosts, Phases
<1>12. ASSUME inited, NEW va, NEW pa \in use.data, NEW v, Load(va, pa) \/ Store(va, pa, v)
       PROVE  Phases'
  <2>1. <<pa>> \notin Slots
    BY SlotIsNoCell DEF Cells
  <2>2. UNCHANGED <<code, inited, hot, unsynced>>
    BY <1>12 DEF Load, Store, ghosts
  <2>3. dcache' = dcache \/ DOMAIN dcache' = DOMAIN dcache \cup {<<pa>>}
    BY <1>12 DEF Load, Store, StoreTo, Put
  <2> QED BY <1>10, <1>12, <2>1, <2>2, <2>3 DEF Phases, NoSlots
<1> QED
  BY <1>3, <1>4, <1>5, <1>6, <1>7, <1>8, <1>9, <1>11, <1>12, <1>10, KernelCalls DEF Fails

LEMMA PhasesStep ==
  ASSUME VmAssumption, Typed, Phases, Next PROVE Phases'
<1>0. UNCHANGED Slots
  BY DEF Slots
<1>1. CASE Hardware
  <2>1. UNCHANGED <<code, cp15, stale, inited, hot, unsynced>>
    BY <1>1, HardwareFrame
  <2>2. WillTranslate' => WillTranslate
    BY <1>1, AheadShrinks DEF WillTranslate
  <2>3. DOMAIN dcache' \subseteq DOMAIN dcache /\ DOMAIN wbuf' \subseteq DOMAIN wbuf /\ doomed' \subseteq doomed
    BY <1>1 DEF Hardware, Walk, TlbEvict, LineEvict, Drain, memVars, Without
  <2> QED BY <1>0, <2>1, <2>2, <2>3 DEF Phases, Pending, After, NoSlots
<1>2. CASE Instruction
  <2>1. UNCHANGED <<inited, hot, unsynced>> /\ \E op \in Operations : Executes(op)
    BY <1>2, InstructionFrame
  <2>2. inited
    BY <2>1 DEF Phases, Executes
  <2>3. WillTranslate' => WillTranslate
    BY <1>2, AheadShrinks DEF WillTranslate
  <2>4. Pending("str")' => Pending("str")
    <3>1. PICK op : Executes(op)
      BY <2>1
    <3> QED BY <3>1, PendingExecuting
  <2>5. ~hot => DOMAIN dcache' \subseteq DOMAIN dcache
    BY <1>2, CachesAreOn DEF Instruction, DSB, PREFETCH_FLUSH, FLUSH_BTB, INV_TLB, INV_DCACHE,
       CLEAN_INV_DCACHE, RegisterSet, STR, StoreTo, UsesCache, memVars, NoLocs
  <2> QED BY <1>0, <2>1, <2>2, <2>3, <2>4, <2>5 DEF Phases, NoSlots
<1>3. CASE Kernel
  BY <1>3, PhasesKernel
<1> QED BY <1>1, <1>2, <1>3 DEF Next
-----------------------------------------------------------------------------
(* The data cache.                                                         *)

\* No routine mixes control, table and stores, and only the reset discards lines.
Kinds == {"ctrl", "ttbr", "str"}
Plain(p) ==
    /\ \A i \in DOMAIN p, j \in DOMAIN p :
         p[i][1] \in Kinds /\ p[j][1] \in Kinds => p[i][1] = p[j][1]
    /\ \A i \in DOMAIN p : p[i][1] = "inv_dcache" => i = 1

CacheOn(c) == {"MMU_enabled", "C_unified_enable"} \subseteq c

\* The cache is clean and empty when it goes off: a line is only there while
\* it is on, and a clean line is what memory holds, or will hold.
CacheSafe ==
    /\ Plain(code)
    /\ Pending("inv_dcache") => ~hot
    /\ inited /\ ~Pending("inv_dcache") =>
         \A l \in DOMAIN dcache :
           Cachable(l) /\ CachesOn /\ (~dcache[l].dirty => dcache[l].val = Uncached(l))
    /\ \A i \in DOMAIN code : code[i][1] = "ctrl" /\ ~CacheOn(code[i][2]) =>
         \/ DOMAIN dcache = {}
         \/ Between(code, 0, "clean_inv_dcache", i)
         \/ Between(code, 0, "inv_dcache", i)

LEMMA CodesPlain ==
  \A a, c, t, l, u, v, w :
    /\ Plain(ResetCode(c)) /\ Plain(cp15_set_procid_ttbr0(a, t))
    /\ Plain(mmu_enable_set_asm(c)) /\ Plain(mmu_disable_set_asm(c))
    /\ Plain(DisableCode(c)) /\ Plain(cp15_ctrl_reg1_wr(c)) /\ Plain(sync_pte_mods)
    /\ Plain(<< <<"str", l, u>>, <<"str", l, v>>, <<"str", l, w>> >>)
<1> TAKE a, c, t, l, u, v, w
<1>1. Plain(ResetCode(c))
  BY DEF Plain, Kinds, ResetCode
<1>2. Plain(cp15_set_procid_ttbr0(a, t))
  BY DEF Plain, Kinds, cp15_set_procid_ttbr0
<1>3. Plain(mmu_enable_set_asm(c))
  BY DEF Plain, Kinds, mmu_enable_set_asm
<1>4. Plain(mmu_disable_set_asm(c))
  BY DEF Plain, Kinds, mmu_disable_set_asm
<1>5. Plain(DisableCode(c))
  BY DEF Plain, Kinds, DisableCode
<1>6. Plain(cp15_ctrl_reg1_wr(c)) /\ Plain(sync_pte_mods)
  BY DEF Plain, Kinds, cp15_ctrl_reg1_wr, sync_pte_mods
<1>7. Plain(<< <<"str", l, u>>, <<"str", l, v>>, <<"str", l, w>> >>)
  BY DEF Plain, Kinds
<1> QED BY <1>1, <1>2, <1>3, <1>4, <1>5, <1>6, <1>7

LEMMA PlainExecuting ==
  ASSUME Typed, Plain(code), NEW op, Executes(op)
  PROVE  /\ Plain(code')
         /\ op # "inv_dcache" => ~Pending("inv_dcache")
         /\ ~Pending("inv_dcache")'
         /\ op \in Kinds => \A i \in DOMAIN code : code[i][1] \in Kinds => code[i][1] = op
<1>1. /\ 1 \in DOMAIN code /\ code[1][1] = op /\ DOMAIN code' \subseteq Nat \ {0}
      /\ \A i \in DOMAIN code' : i + 1 \in DOMAIN code /\ code'[i] = code[i + 1]
  BY Executing
<1>2. \A i \in DOMAIN code' : code'[i][1] # "inv_dcache"
  <2>1. \A i \in DOMAIN code' : i + 1 # 1
    BY <1>1
  <2> QED BY <1>1, <2>1 DEF Plain
<1> QED BY <1>1, <1>2 DEF Plain, Pending, After

\* What was between the start and a position is, or was just executed.
LEMMA BetweenExecuting ==
  ASSUME Typed, NEW op, Executes(op), NEW k \in Nat, NEW o, o # op
  PROVE  Between(code', 0, o, k) <=> Between(code, 0, o, k + 1)
<1>1. Between(code', 0, o, k) <=> Between(code, 1, o, k + 1)
  BY Executing
<1>2. \A j \in DOMAIN code : (0 < j /\ code[j][1] = o) <=> (1 < j /\ code[j][1] = o)
  BY Executing
<1> QED BY <1>1, <1>2 DEF Between

\* The contents of a place, wherever they are.
Val(l) == IF l \in DOMAIN dcache THEN dcache[l].val ELSE Uncached(l)

LEMMA UncachedKept ==
  ASSUME Typed, NEW l \in Locs,
         \/ Walk \/ TlbEvict \/ Drain \/ DSB \/ PREFETCH_FLUSH \/ FLUSH_BTB \/ INV_TLB
         \/ INV_DCACHE \/ RegisterSet
  PROVE  Uncached(l)' = Uncached(l)
<1>1. CASE Drain
  <2>1. PICK m \in DOMAIN wbuf : mem' = [mem EXCEPT ![m] = wbuf[m]] /\ wbuf' = Without(wbuf, m)
    BY <1>1 DEF Drain
  <2> QED BY <2>1 DEF Uncached, Without, Typed
<1>2. CASE DSB
  BY <1>2 DEF DSB, Over, NoLocs, Uncached, Typed
<1>3. CASE ~Drain /\ ~DSB
  BY <1>3 DEF Walk, TlbEvict, PREFETCH_FLUSH, FLUSH_BTB, INV_TLB, INV_DCACHE, RegisterSet,
     memVars, Uncached
<1> QED BY <1>1, <1>2, <1>3

LEMMA CacheInit ==
  ASSUME Init PROVE CacheSafe
BY DEF Init, CacheSafe, Plain, Pending, After

LEMMA CacheHardware ==
  ASSUME Typed, Phases, CacheSafe, UNCHANGED use, Hardware PROVE CacheSafe'
<1>1. /\ UNCHANGED <<code, inited, hot>> /\ CachesOn' = CachesOn
      /\ \A l : Cachable(l)' = Cachable(l)
  BY HardwareFrame DEF Slots, CachesOn, Cachable
<1>2. DOMAIN dcache' \subseteq DOMAIN dcache /\ \A l \in DOMAIN dcache' : dcache'[l] = dcache[l]
  BY DEF Hardware, Walk, TlbEvict, LineEvict, Drain, memVars, Without
<1>3. ASSUME NEW l \in DOMAIN dcache' PROVE Uncached(l)' = Uncached(l)
  <2>1. CASE LineEvict
    <3>1. PICK m \in DOMAIN dcache :
            /\ dcache' = Without(dcache, m)
            /\ \/ /\ mem' = [mem EXCEPT ![m] = dcache[m].val]
                  /\ wbuf' = Without(wbuf, m)
               \/ UNCHANGED <<mem, wbuf>>
      BY <2>1 DEF LineEvict
    <3>2. l # m /\ l \in DOMAIN mem
      BY <1>2, <3>1 DEF Without, Typed
    <3> QED BY <3>1, <3>2 DEF Uncached, Without
  <2>2. CASE ~LineEvict
    <3>1. l \in Locs
      BY <1>2 DEF Typed
    <3> QED BY <2>2, <3>1, UncachedKept DEF Hardware
  <2> QED BY <2>1, <2>2
<1>4. DOMAIN dcache = {} => DOMAIN dcache' = {}
  BY <1>2
<1> QED BY <1>1, <1>2, <1>3, <1>4 DEF CacheSafe, Pending, After, Between, Plain

LEMMA CacheInstruction ==
  ASSUME Typed, Phases, CacheSafe, UNCHANGED use, Instruction PROVE CacheSafe'
<1>1. UNCHANGED <<inited, hot>> /\ \A l : Cachable(l)' = Cachable(l)
  BY InstructionFrame DEF Slots, Cachable
<1>2. PICK op : Executes(op)
  BY InstructionFrame
<1>3. Plain(code') /\ ~Pending("inv_dcache")' /\ inited
  BY <1>2, PlainExecuting DEF CacheSafe, Phases, Executes
<1>4. ASSUME NEW i \in DOMAIN code', code'[i][1] = "ctrl", ~CacheOn(code'[i][2]), DOMAIN dcache # {},
             op # "clean_inv_dcache", op # "inv_dcache"
      PROVE  Between(code', 0, "clean_inv_dcache", i) \/ Between(code', 0, "inv_dcache", i)
  <2>1. i \in Nat /\ i + 1 \in DOMAIN code /\ code'[i] = code[i + 1]
    BY <1>2, Executing
  <2>2. Between(code, 0, "clean_inv_dcache", i + 1) \/ Between(code, 0, "inv_dcache", i + 1)
    BY <1>4, <2>1 DEF CacheSafe
  <2> QED BY <1>2, <1>4, <2>1, <2>2, BetweenExecuting
<1>5. CASE INV_DCACHE \/ CLEAN_INV_DCACHE
  <2>1. DOMAIN dcache' = {}
    BY <1>5 DEF INV_DCACHE, CLEAN_INV_DCACHE, NoLocs
  <2> QED BY <1>3, <2>1 DEF CacheSafe
<1>6. CASE DSB \/ PREFETCH_FLUSH \/ FLUSH_BTB \/ INV_TLB \/ RegisterSet
  <2>1. dcache' = dcache /\ op # "clean_inv_dcache" /\ op # "inv_dcache"
    BY <1>2, <1>6 DEF DSB, PREFETCH_FLUSH, FLUSH_BTB, INV_TLB, RegisterSet, memVars, Executes
  <2>2. ~Pending("inv_dcache")
    BY <1>2, <2>1, PlainExecuting DEF CacheSafe
  <2>3. \A l \in DOMAIN dcache' : Uncached(l)' = Uncached(l)
    BY <1>6, <2>1, UncachedKept DEF Typed
  <2>4. ASSUME DOMAIN dcache # {} PROVE CachesOn'
    <3>1. CachesOn
      BY <1>3, <2>2, <2>4 DEF CacheSafe
    <3>2. CASE cp15' = cp15
      BY <3>1, <3>2 DEF CachesOn
    <3>3. CASE cp15' # cp15
      <4>1. RegisterSet
        BY <1>6, <3>3 DEF DSB, PREFETCH_FLUSH, FLUSH_BTB, INV_TLB, cpuVars
      <4>2. PICK reg \in {"ctrl", "asid", "ttbr"} :
              Executes(reg) /\ cp15' = [cp15 EXCEPT ![reg] = Operand]
        BY <4>1 DEF RegisterSet
      <4>3. CASE reg # "ctrl"
        BY <3>1, <4>2, <4>3 DEF CachesOn, Typed
      <4>4. CASE reg = "ctrl"
        <5>1. /\ 1 \in DOMAIN code /\ code[1][1] = "ctrl" /\ Operand = code[1][2]
              /\ DOMAIN code \subseteq Nat \ {0}
          BY <4>2, <4>4, Executing DEF Operand
        <5>2. \A o : ~Between(code, 0, o, 1)
          BY <5>1 DEF Between
        <5>3. CacheOn(Operand)
          BY <2>4, <5>1, <5>2 DEF CacheSafe
        <5>4. cp15'.ctrl = Operand
          BY <4>2, <4>4 DEF Typed
        <5> QED BY <5>3, <5>4 DEF CachesOn, CacheOn
      <4> QED BY <4>3, <4>4
    <3> QED BY <3>2, <3>3
  <2> QED BY <1>1, <1>3, <1>4, <2>1, <2>2, <2>3, <2>4 DEF CacheSafe
<1>7. CASE STR
  <2> DEFINE l == Operand
  <2>1. Executes("str") /\ StoreTo(l, Head(code)[3]) /\ UNCHANGED <<mem, cp15>>
    BY <1>7 DEF STR, cpuVars
  <2>2. ~Pending("inv_dcache") /\ CachesOn' = CachesOn
    BY <2>1, PlainExecuting DEF CacheSafe, CachesOn
  <2>3. \A i \in DOMAIN code' : code'[i][1] # "ctrl"
    <3>1. \A i \in DOMAIN code : code[i][1] \in Kinds => code[i][1] = "str"
      BY <2>1, PlainExecuting DEF CacheSafe, Kinds
    <3>2. \A i \in DOMAIN code' : i + 1 \in DOMAIN code /\ code'[i] = code[i + 1]
      BY <2>1, Executing
    <3> QED BY <3>1, <3>2 DEF Kinds
  <2> HIDE DEF l
  <2>4. CASE UsesCache(l)
    <3>1. /\ DOMAIN dcache' = DOMAIN dcache \cup {l} /\ dcache'[l].dirty /\ wbuf' = wbuf
          /\ \A m \in DOMAIN dcache : m # l => dcache'[m] = dcache[m]
      BY <2>1, <2>4 DEF StoreTo, Put
    <3>2. \A m : Uncached(m)' = Uncached(m)
      BY <2>1, <3>1 DEF Uncached
    <3> QED BY <1>1, <1>3, <2>2, <2>3, <2>4, <3>1, <3>2 DEF CacheSafe, UsesCache
  <2>5. CASE ~UsesCache(l)
    <3>1. dcache' = dcache /\ wbuf' = Put(wbuf, l, Head(code)[3])
      BY <2>1, <2>5 DEF StoreTo
    <3>2. l \notin DOMAIN dcache
      BY <1>3, <2>2, <2>5 DEF CacheSafe, UsesCache
    <3>3. \A m \in DOMAIN dcache : Uncached(m)' = Uncached(m)
      BY <2>1, <3>1, <3>2 DEF Uncached, Put
    <3> QED BY <1>1, <1>3, <2>2, <2>3, <3>1, <3>3 DEF CacheSafe
  <2> QED BY <2>4, <2>5
<1> QED BY <1>5, <1>6, <1>7 DEF Instruction

LEMMA CacheKernel ==
  ASSUME VmAssumption, Typed, Phases, CacheSafe, UNCHANGED use, Kernel PROVE CacheSafe'
<1>0. /\ UNCHANGED <<cp15, stale, mem>> /\ code = <<>> /\ CachesOn' = CachesOn
      /\ \A l : Cachable(l)' = Cachable(l)
      /\ ~Pending("inv_dcache")
  BY KernelFrame DEF Slots, CachesOn, Cachable, Pending, After
<1>1. ASSUME inited, inited', UNCHANGED memVars, Plain(code'), ~Pending("inv_dcache")',
             \A i \in DOMAIN code' : code'[i][1] = "ctrl" /\ ~CacheOn(code'[i][2]) =>
               \/ DOMAIN dcache = {}
               \/ Between(code', 0, "clean_inv_dcache", i)
      PROVE  CacheSafe'
  <2>1. \A l : Uncached(l)' = Uncached(l) /\ dcache' = dcache
    BY <1>1 DEF memVars, Uncached
  <2> QED BY <1>0, <1>1, <2>1 DEF CacheSafe
<1>2. CASE ~inited /\ vm_mmu_init /\ code' = ResetCode(cp15.ctrl \cup {"XP_pt"})
  <2> DEFINE c == cp15.ctrl \cup {"XP_pt"}
  <2>1. code' = ResetCode(c)
    BY <1>2
  <2> HIDE DEF c
  <2>2. Plain(code') /\ Pending("inv_dcache")'
    <3>1. Plain(code')
      BY <2>1, CodesPlain
    <3>2. Pending("inv_dcache")'
      BY <2>1 DEF Pending, After, ResetCode
    <3> QED BY <3>1, <3>2
  <2>3. \A i \in DOMAIN code' : code'[i][1] = "ctrl" => Between(code', 0, "inv_dcache", i)
    BY <2>1 DEF Between, ResetCode
  <2>4. ~hot'
    BY <1>2 DEF Phases, vm_mmu_init
  <2> QED BY <2>2, <2>3, <2>4 DEF CacheSafe
<1>3. ASSUME inited, NEW t \in Tables, NEW va, NEW nG, NEW base, vm_map_sec(t, va, nG, base)
      PROVE  CacheSafe'
  <2>1. \E l, u, v, w : code' = << <<"str", l, u>>, <<"str", l, v>>, <<"str", l, w>> >>
    BY <1>3 DEF vm_map_sec, Call
  <2>2. Plain(code')
    BY <2>1, CodesPlain
  <2>3. ~Pending("inv_dcache")' /\ \A i \in DOMAIN code' : code'[i][1] # "ctrl"
    BY <2>1 DEF Pending, After
  <2> QED BY <1>1, <1>3, <2>2, <2>3 DEF vm_map_sec, Call
<1>4. ASSUME inited, NEW t \in Tables, vm_mmu_switch(t) PROVE CacheSafe'
  <2>1. code' = cp15_set_procid_ttbr0(AsidOf(t), t)
    BY <1>4 DEF vm_mmu_switch, Call
  <2>2. ~Pending("inv_dcache")' /\ \A i \in DOMAIN code' : code'[i][1] # "ctrl"
    BY <2>1 DEF Pending, After, cp15_set_procid_ttbr0
  <2>3. Plain(code')
    BY <2>1, CodesPlain
  <2> QED BY <1>1, <1>4, <2>2, <2>3 DEF vm_mmu_switch, Call, ghosts
<1>5. CASE inited /\ vm_mmu_enable
  <2>1. \E c : code' = mmu_enable_set_asm(c)
    BY <1>5 DEF vm_mmu_enable, Call
  <2>2. DOMAIN dcache = {}
    BY <1>0, <1>5 DEF vm_mmu_enable, mmu_is_enabled, CacheSafe, CachesOn
  <2>3. ~Pending("inv_dcache")'
    BY <2>1 DEF Pending, After, mmu_enable_set_asm
  <2> QED BY <1>1, <1>5, <2>1, <2>2, <2>3, CodesPlain DEF vm_mmu_enable, Call
<1>6. ASSUME inited, vm_mmu_disable, NEW c, code' \in {DisableCode(c), mmu_disable_set_asm(c)}
      PROVE  CacheSafe'
  <2>1. Plain(code')
    BY <1>6, CodesPlain
  <2>2. ~Pending("inv_dcache")'
    BY <1>6 DEF Pending, After, DisableCode, mmu_disable_set_asm
  <2>3. \A i \in DOMAIN code' : code'[i][1] = "ctrl" => Between(code', 0, "clean_inv_dcache", i)
    <3>1. CASE code' = DisableCode(c)
      BY <3>1 DEF Between, DisableCode
    <3>2. CASE code' = mmu_disable_set_asm(c)
      BY <3>2 DEF Between, mmu_disable_set_asm
    <3> QED BY <1>6, <3>1, <3>2
  <2> QED BY <1>1, <1>6, <2>1, <2>2, <2>3 DEF vm_mmu_disable, Call, ghosts
<1>7. CASE inited /\ mmu_sync_pte_mods
  <2>1. code' = sync_pte_mods
    BY <1>7 DEF mmu_sync_pte_mods, Call
  <2>2. ~Pending("inv_dcache")' /\ \A i \in DOMAIN code' : code'[i][1] # "ctrl"
    BY <2>1 DEF Pending, After, sync_pte_mods
  <2> QED BY <1>1, <1>7, <2>1, <2>2, CodesPlain DEF mmu_sync_pte_mods, Call
<1>8. CASE inited /\ caches_all_on
  <2> DEFINE c == cp15.ctrl \cup {"C_unified_enable"}
  <2>1. code' = cp15_ctrl_reg1_wr(c) /\ CacheOn(c)
    BY <1>8 DEF caches_all_on, Call, mmu_is_enabled, CacheOn
  <2> HIDE DEF c
  <2>2. ~Pending("inv_dcache")' /\ \A i \in DOMAIN code' : code'[i][1] = "ctrl" => CacheOn(code'[i][2])
    BY <2>1 DEF Pending, After, cp15_ctrl_reg1_wr
  <2> QED BY <1>1, <1>8, <2>1, <2>2, CodesPlain DEF caches_all_on, Call, ghosts
<1>9. CASE inited /\ Fails
  BY <1>0, <1>1, <1>9 DEF Fails, ghosts, Plain, Pending, After
<1>10. ASSUME inited, NEW va, NEW pa \in use.data, Load(va, pa) PROVE CacheSafe'
  <2>1. /\ DOMAIN dcache' = DOMAIN dcache \cup {<<pa>>}
        /\ \A m \in DOMAIN dcache' :
             dcache'[m] = IF m = <<pa>> THEN [val |-> Uncached(<<pa>>), dirty |-> FALSE] ELSE dcache[m]
        /\ UsesCache(<<pa>>) /\ UNCHANGED <<code, wbuf, inited, hot>>
    BY <1>10 DEF Load, Put, ghosts
  <2>2. \A m : Uncached(m)' = Uncached(m)
    BY <1>0, <2>1 DEF Uncached
  <2> QED BY <1>0, <1>10, <2>1, <2>2 DEF CacheSafe, UsesCache, Pending, After, Plain
<1>11. ASSUME inited, NEW va, NEW pa \in use.data, NEW v, Store(va, pa, v) PROVE CacheSafe'
  <2> DEFINE l == <<pa>>
  <2>1. StoreTo(l, v) /\ UNCHANGED <<code, inited, hot>>
    BY <1>11 DEF Store
  <2>2. CASE UsesCache(l)
    <3>1. /\ DOMAIN dcache' = DOMAIN dcache \cup {l} /\ dcache'[l].dirty /\ wbuf' = wbuf
          /\ \A m \in DOMAIN dcache : m # l => dcache'[m] = dcache[m]
      BY <2>1, <2>2 DEF StoreTo, Put
    <3>2. \A m : Uncached(m)' = Uncached(m)
      BY <1>0, <3>1 DEF Uncached
    <3> HIDE DEF l
    <3> QED BY <1>0, <1>11, <2>1, <2>2, <3>1, <3>2 DEF CacheSafe, UsesCache, Pending, After, Plain
  <2>3. CASE ~UsesCache(l)
    <3>1. dcache' = dcache /\ wbuf' = Put(wbuf, l, v)
      BY <2>1, <2>3 DEF StoreTo
    <3>2. l \notin DOMAIN dcache
      BY <1>0, <1>11, <2>3 DEF CacheSafe, UsesCache
    <3>3. \A m \in DOMAIN dcache : Uncached(m)' = Uncached(m)
      BY <1>0, <3>1, <3>2 DEF Uncached, Put
    <3> HIDE DEF l
    <3> QED BY <1>0, <1>11, <2>1, <3>1, <3>3 DEF CacheSafe, Pending, After, Plain
  <2> QED BY <2>2, <2>3
<1> QED
  BY <1>2, <1>3, <1>4, <1>5, <1>6, <1>7, <1>8, <1>9, <1>10, <1>11, KernelCalls

LEMMA CacheStep ==
  ASSUME VmAssumption, Typed, Phases, CacheSafe, Next PROVE CacheSafe'
BY CacheHardware, CacheInstruction, CacheKernel DEF Next

\* No step of the hardware changes what a place contains.
LEMMA ValHardware ==
  ASSUME Typed, Phases, CacheSafe, Hardware, NEW l \in Locs PROVE Val(l)' = Val(l)
<1>1. CASE LineEvict
  <2>1. PICK m \in DOMAIN dcache :
          /\ dcache' = Without(dcache, m)
          /\ \/ /\ mem' = [mem EXCEPT ![m] = dcache[m].val]
                /\ wbuf' = Without(wbuf, m)
             \/ ~dcache[m].dirty /\ UNCHANGED <<mem, wbuf>>
    BY <1>1 DEF LineEvict
  <2>2. hot
    BY <1>1, CachesAreOn DEF LineEvict
  <2>3. inited /\ ~Pending("inv_dcache")
    BY <2>2 DEF Phases, CacheSafe
  <2>4. ~dcache[m].dirty => dcache[m].val = Uncached(m)
    BY <2>3 DEF CacheSafe
  <2>5. l \in DOMAIN mem
    BY DEF Typed
  <2> QED BY <2>1, <2>4, <2>5 DEF Val, Uncached, Without
<1>2. CASE ~LineEvict
  <2>1. Uncached(l)' = Uncached(l)
    BY <1>2, UncachedKept DEF Hardware
  <2>2. dcache' = dcache
    BY <1>2 DEF Hardware, Walk, TlbEvict, Drain, memVars
  <2> QED BY <2>1, <2>2 DEF Val
<1> QED BY <1>1, <1>2

\* Nor does an instruction, but for stores and for the lines the reset discards.
LEMMA ValInstruction ==
  ASSUME Typed, Phases, CacheSafe, Instruction, NEW l \in Locs
  PROVE  /\ ~STR /\ ~INV_DCACHE => Val(l)' = Val(l)
         /\ INV_DCACHE => Val(l)' = Uncached(l) /\ ~hot
         /\ STR => Val(l)' = IF l = Operand THEN Head(code)[3] ELSE Val(l)
<1>1. PICK op : Executes(op)
  BY InstructionFrame
<1>2. inited
  BY <1>1 DEF Phases, Executes
<1>3. CASE DSB \/ PREFETCH_FLUSH \/ FLUSH_BTB \/ INV_TLB \/ RegisterSet
  <2>1. dcache' = dcache /\ ~STR /\ ~INV_DCACHE
    BY <1>3 DEF DSB, PREFETCH_FLUSH, FLUSH_BTB, INV_TLB, RegisterSet, memVars, STR, INV_DCACHE, Executes
  <2> QED BY <1>3, <2>1, UncachedKept DEF Val
<1>4. CASE INV_DCACHE
  <2>1. Pending("inv_dcache")
    BY <1>4, Executing DEF INV_DCACHE, Pending, After
  <2>2. ~hot /\ ~STR
    BY <1>4, <2>1 DEF CacheSafe, INV_DCACHE, STR, Executes
  <2>3. DOMAIN dcache' = {} /\ Uncached(l)' = Uncached(l)
    BY <1>4, UncachedKept DEF INV_DCACHE, NoLocs
  <2> QED BY <1>4, <2>2, <2>3 DEF Val
<1>5. CASE CLEAN_INV_DCACHE
  <2>1. Executes("clean_inv_dcache") /\ ~STR /\ ~INV_DCACHE
    BY <1>5 DEF CLEAN_INV_DCACHE, STR, INV_DCACHE, Executes
  <2>2. ~Pending("inv_dcache")
    BY <2>1, PlainExecuting DEF CacheSafe
  <2>3. l \in DOMAIN dcache => dcache[l].dirty \/ dcache[l].val = Uncached(l)
    BY <1>2, <2>2 DEF CacheSafe
  <2>4. DOMAIN dcache' = {} /\ wbuf' = Over(WrittenBack, wbuf) /\ mem' = mem
    BY <1>5 DEF CLEAN_INV_DCACHE, NoLocs
  <2>5. /\ l \in DOMAIN WrittenBack <=> l \in DOMAIN dcache /\ dcache[l].dirty
        /\ l \in DOMAIN WrittenBack => WrittenBack[l] = dcache[l].val
    BY DEF WrittenBack
  <2> QED BY <2>1, <2>3, <2>4, <2>5 DEF Val, Uncached, Over
<1>6. CASE STR
  <2>1. Executes("str") /\ StoreTo(Operand, Head(code)[3]) /\ UNCHANGED mem /\ ~INV_DCACHE
    BY <1>6 DEF STR, INV_DCACHE, Executes
  <2>2. ~Pending("inv_dcache")
    BY <2>1, PlainExecuting DEF CacheSafe
  <2>3. ~UsesCache(Operand) => Operand \notin DOMAIN dcache
    BY <1>2, <2>2 DEF CacheSafe, UsesCache
  <2> QED BY <1>6, <2>1, <2>3 DEF StoreTo, Val, Uncached, Put
<1> QED BY <1>3, <1>4, <1>5, <1>6 DEF Instruction

\* Nor does a call, but for stores to the sections of the program.
LEMMA ValKernel ==
  ASSUME Typed, Phases, CacheSafe, Kernel, NEW l \in Locs
  PROVE  \/ Val(l)' = Val(l)
         \/ /\ inited /\ ~unsynced
            /\ \E va \in Sections \ {0}, pa \in use.data, v \in Vals :
                 Store(va, pa, v) /\ l = <<pa>> /\ Val(l)' = v
<1>0. mem' = mem /\ ~Pending("inv_dcache")
  BY KernelFrame DEF Pending, After
<1>1. CASE UNCHANGED memVars
  BY <1>1 DEF memVars, Val, Uncached
<1>2. ASSUME NEW va, NEW pa \in use.data, Load(va, pa) PROVE Val(l)' = Val(l)
  BY <1>0, <1>2 DEF Load, Put, Val, Uncached
<1>3. ASSUME inited, NEW va, NEW pa \in use.data, NEW v, Store(va, pa, v)
      PROVE  Val(l)' = IF l = <<pa>> THEN v ELSE Val(l)
  <2>1. StoreTo(<<pa>>, v)
    BY <1>3 DEF Store
  <2>2. ~UsesCache(<<pa>>) => <<pa>> \notin DOMAIN dcache
    BY <1>0, <1>3 DEF CacheSafe, UsesCache
  <2> QED BY <1>0, <2>1, <2>2 DEF StoreTo, Put, Val, Uncached
<1> QED BY <1>1, <1>2, <1>3 DEF Kernel, vm_mmu_init, vm_map_sec, vm_mmu_switch, vm_mmu_enable,
        vm_mmu_disable, mmu_sync_pte_mods, caches_all_on, EnableTwice, NotEnabled, Fails, Call

\* When no reset is under way, the CPU reads what is there.
LEMMA ViewIsVal ==
  ASSUME CacheSafe, inited, ~Pending("inv_dcache"), NEW l PROVE CpuView(l) = Val(l)
BY DEF CacheSafe, CpuView, Val, UsesCache
-----------------------------------------------------------------------------
(* The kernel's own section.                                               *)

\* Every table that may be in effect while the MMU is on maps the kernel.
KernelMapped == WillTranslate => \A t \in RegAhead("ttbr") : Val(<<t, 0>>).tag

LEMMA SlotsAreLocs ==
  ASSUME VmAssumption, NEW t \in Tables
  PROVE  \A va \in Sections : <<t, va>> \in Slots /\ <<t, va>> \in Locs
BY DEF Slots, Locs

\* Stored entries map something, so that an entry once there stays.
LEMMA ValTagged ==
  ASSUME VmAssumption, Typed, Phases, CacheSafe, Next, NEW l \in Slots
  PROVE  /\ hot /\ Val(l).tag => Val(l)'.tag
         /\ mem[l].tag => mem'[l].tag
<1>0. l \in Locs /\ l \notin Cells
  BY SlotIsNoCell DEF Locs
<1>1. hot /\ Val(l).tag => Val(l)'.tag
  <2>1. CASE Hardware
    BY <1>0, <2>1, ValHardware
  <2>2. CASE Instruction
    <3>1. STR => Head(code)[3] \in Tagged
      BY Executing DEF STR
    <3> QED BY <1>0, <2>2, <3>1, ValInstruction DEF Tagged
  <2>3. CASE Kernel
    BY <1>0, <2>3, ValKernel DEF Cells
  <2> QED BY <2>1, <2>2, <2>3 DEF Next
<1>2. mem'[l] = mem[l] \/ mem'[l] \in Tagged
  <2>0. l \in DOMAIN mem
    BY <1>0 DEF Typed
  <2>1. CASE LineEvict
    BY <2>0, <2>1 DEF LineEvict, Typed
  <2>2. CASE Drain
    BY <2>0, <2>2 DEF Drain, Typed
  <2>3. CASE DSB
    BY <2>0, <2>3 DEF DSB, Over, Typed
  <2>4. CASE Kernel
    BY <2>4, KernelFrame
  <2>5. CASE UNCHANGED mem
    BY <2>5
  <2> QED BY <2>1, <2>2, <2>3, <2>4, <2>5 DEF Next, Hardware, Instruction, Walk, TlbEvict,
          PREFETCH_FLUSH, FLUSH_BTB, INV_TLB, INV_DCACHE, CLEAN_INV_DCACHE, RegisterSet, STR, memVars
<1> QED BY <1>1, <1>2 DEF Tagged

\* Between calls no old value is in effect.
LEMMA IdleInEffect ==
  ASSUME Typed, InSync, code = <<>>
  PROVE  /\ \A reg \in {"ctrl", "asid", "ttbr"} :
              \A x \in InEffect(reg) : x = cp15[reg]
         /\ MayTranslate <=> mmu_is_enabled
         /\ WillTranslate <=> mmu_is_enabled
<1>1. stale = NotStale /\ \A reg : Operands(code, reg) = {}
  BY DEF InSync, Pending, After, Operands
<1>2. ASSUME NEW reg \in {"ctrl", "asid", "ttbr"}, NEW x \in InEffect(reg) PROVE x = cp15[reg]
  BY <1>1 DEF InEffect, NotStale
<1>3. cp15.ctrl \in InEffect("ctrl") /\ cp15.ctrl \in RegAhead("ctrl")
  BY DEF InEffect, RegAhead
<1>4. \A c \in RegAhead("ctrl") : c \in InEffect("ctrl")
  BY <1>1 DEF RegAhead
<1>5. \A c \in InEffect("ctrl") : c = cp15.ctrl
  BY <1>2
<1> QED BY <1>2, <1>3, <1>4, <1>5 DEF MayTranslate, WillTranslate, mmu_is_enabled, MmuOn

LEMMA KernelMappedInit ==
  ASSUME Init PROVE KernelMapped
<1>1. ~hot
  BY DEF Init
<1> QED BY <1>1, PhasesInit DEF Phases, KernelMapped

LEMMA KernelMappedStep ==
  ASSUME VmAssumption, Typed, InSync, Phases, CacheSafe, KernelMapped, Next
  PROVE  KernelMapped'
<1>0. RegAhead("ttbr") \subseteq Tables
  <2>1. Operands(code, "ttbr") \subseteq Tables
    <3>1. \A i \in DOMAIN code : code[i] \in Instructions
      BY DEF Typed
    <3> QED BY <3>1, InstructionIs DEF Operands
  <2> QED BY <2>1 DEF RegAhead, InEffect, Typed
<1>1. ASSUME WillTranslate, NEW t \in RegAhead("ttbr") PROVE Val(<<t, 0>>)'.tag
  <2>1. Val(<<t, 0>>).tag /\ hot /\ t \in Tables
    BY <1>0, <1>1 DEF KernelMapped, Phases
  <2>2. <<t, 0>> \in Slots
    BY <2>1, SlotsAreLocs DEF VmAssumption
  <2> QED BY <2>1, <2>2, ValTagged
<1>2. CASE Hardware \/ Instruction
  <2>1. RegAhead("ttbr")' \subseteq RegAhead("ttbr") /\ (WillTranslate' => WillTranslate)
    BY <1>2, AheadShrinks DEF WillTranslate
  <2> QED BY <1>1, <2>1 DEF KernelMapped
<1>3. CASE Kernel
  <2>0. /\ UNCHANGED <<cp15, stale>> /\ code = <<>>
        /\ \A reg : RegAhead(reg)' = InEffect(reg) \cup Operands(code', reg)
        /\ \A reg : InEffect(reg) \subseteq RegAhead(reg)
    BY <1>3, KernelFrame DEF RegAhead, InEffect
  <2>1. ASSUME Operands(code', "ttbr") = {}, WillTranslate' => WillTranslate PROVE KernelMapped'
    BY <1>1, <2>0, <2>1 DEF KernelMapped
  <2>2. ASSUME Operands(code', "ctrl") = {} PROVE WillTranslate' => WillTranslate
    BY <2>0, <2>2 DEF WillTranslate
  <2>3. ASSUME NEW t \in Tables, inited, MapsKernel(t) PROVE Val(<<t, 0>>)'.tag
    <3>1. <<t, 0>> \in Slots /\ <<t, 0>> \in Locs /\ <<t, 0>> \notin Cells
      BY SlotsAreLocs, SlotIsNoCell DEF VmAssumption
    <3>2. ~Pending("inv_dcache")
      BY <2>0 DEF Pending, After
    <3>3. Val(<<t, 0>>).tag
      BY <2>3, <3>2, ViewIsVal DEF MapsKernel
    <3>4. Val(<<t, 0>>)' = Val(<<t, 0>>)
      BY <1>3, <3>1, ValKernel DEF Cells
    <3> QED BY <3>3, <3>4
  <2>4. CASE ~inited /\ vm_mmu_init
    <3>1. ~hot' /\ Phases'
      BY <1>3, <2>4, PhasesKernel DEF Phases, vm_mmu_init
    <3> QED BY <3>1 DEF Phases, KernelMapped
  <2>5. ASSUME NEW t \in Tables, NEW va, NEW nG, NEW base, vm_map_sec(t, va, nG, base)
        PROVE  KernelMapped'
    BY <2>1, <2>2, <2>5, CodeOperands DEF vm_map_sec, Call
  <2>6. ASSUME inited, NEW t \in Tables, mmu_is_enabled => MapsKernel(t), vm_mmu_switch(t)
        PROVE  KernelMapped'
    <3>1. Operands(code', "ctrl") = {} /\ Operands(code', "ttbr") = {t}
      BY <2>6, CodeOperands DEF vm_mmu_switch, Call
    <3>2. WillTranslate' => WillTranslate /\ mmu_is_enabled
      BY <2>0, <2>2, <3>1, IdleInEffect
    <3> QED BY <1>1, <2>0, <2>3, <2>6, <3>1, <3>2 DEF KernelMapped
  <2>7. CASE inited /\ MapsKernel(cp15.ttbr) /\ vm_mmu_enable
    <3>1. Operands(code', "ttbr") = {}
      BY <2>7, CodeOperands DEF vm_mmu_enable, Call
    <3>2. \A t \in RegAhead("ttbr")' : t = cp15.ttbr
      BY <2>0, <3>1, IdleInEffect
    <3>3. cp15.ttbr \in Tables
      BY DEF Typed
    <3> QED BY <2>3, <2>7, <3>2, <3>3 DEF KernelMapped
  <2>8. ASSUME vm_mmu_disable, NEW c, c = cp15.ctrl \ {"MMU_enabled"},
               code' \in {DisableCode(c), mmu_disable_set_asm(c)}
        PROVE  KernelMapped'
    <3>1. WillTranslate
      BY <2>0, <2>8, IdleInEffect DEF vm_mmu_disable
    <3> QED BY <2>1, <2>8, <3>1, CodeOperands
  <2>9. CASE mmu_sync_pte_mods
    BY <2>1, <2>2, <2>9, CodeOperands DEF mmu_sync_pte_mods, Call
  <2>10. CASE caches_all_on
    <3>1. WillTranslate
      BY <2>0, <2>10, IdleInEffect DEF caches_all_on
    <3> QED BY <2>1, <2>10, <3>1, CodeOperands DEF caches_all_on, Call
  <2>11. CASE UNCHANGED code
    BY <2>0, <2>1, <2>2, <2>11 DEF Operands
  <2> QED BY <1>3, <2>4, <2>5, <2>6, <2>7, <2>8, <2>9, <2>10, <2>11, KernelCalls
          DEF Fails, Load, Store
<1> QED BY <1>2, <1>3 DEF Next

\* When tables are not cached, the entry of the kernel is in memory before the
\* MMU comes on or the table is switched to: a DSB is ahead of that.
Uses0(i, t) ==
    \/ code[i][1] = "ttbr" /\ code[i][2] = t
    \/ code[i][1] = "ctrl" /\ MmuOn(code[i][2])

KernelInMemory ==
  0 \notin use.cached =>
    /\ MayTranslate => \A t \in InEffect("ttbr") : mem[<<t, 0>>].tag
    /\ WillTranslate => \A t \in RegAhead("ttbr") :
         mem[<<t, 0>>].tag \/ \A i \in DOMAIN code : Uses0(i, t) => Between(code, 0, "dsb", i)

LEMMA UncachedTables ==
  ASSUME Typed, Phases, CacheSafe, 0 \notin use.cached, hot
  PROVE  NoSlots(dcache)
BY DEF Phases, CacheSafe, Cachable, NoSlots

LEMMA RegAheadTables ==
  ASSUME Typed PROVE RegAhead("ttbr") \subseteq Tables /\ InEffect("ttbr") \subseteq RegAhead("ttbr")
<1>1. Operands(code, "ttbr") \subseteq Tables
  <2>1. \A i \in DOMAIN code : code[i] \in Instructions
    BY DEF Typed
  <2> QED BY <2>1, InstructionIs DEF Operands
<1> QED BY <1>1 DEF RegAhead, InEffect, Typed

LEMMA KernelInMemoryInit ==
  ASSUME Init PROVE KernelInMemory
<1>1. ~WillTranslate
  BY PhasesInit DEF Phases, Init
<1>2. MayTranslate => WillTranslate
  BY DEF MayTranslate, WillTranslate, RegAhead
<1> QED BY <1>1, <1>2 DEF KernelInMemory

LEMMA KernelInMemoryInstruction ==
  ASSUME VmAssumption, Typed, Phases, CacheSafe, KernelMapped, KernelInMemory, UNCHANGED use,
         Instruction, 0 \notin use.cached
  PROVE  KernelInMemory'
<1>0. /\ 0 \in Sections /\ RegAhead("ttbr") \subseteq Tables
      /\ InEffect("ttbr") \subseteq RegAhead("ttbr") /\ (MayTranslate => WillTranslate)
      /\ RegAhead("ttbr")' \subseteq RegAhead("ttbr") /\ (WillTranslate' => WillTranslate)
      /\ InEffect("ttbr")' \subseteq RegAhead("ttbr")' /\ (MayTranslate' => WillTranslate')
  BY RegAheadTables, AheadShrinks DEF VmAssumption, MayTranslate, WillTranslate, RegAhead
<1> DEFINE InMem(t) == mem[<<t, 0>>].tag
<1>1. ASSUME NEW t \in Tables, InMem(t) PROVE mem'[<<t, 0>>].tag
  <2>1. <<t, 0>> \in Slots /\ Next
    BY <1>0, SlotsAreLocs DEF Next
  <2> QED BY <1>1, <2>1, ValTagged
<1>2. CASE DSB
  <2>1. ASSUME WillTranslate, NEW t \in RegAhead("ttbr") PROVE mem'[<<t, 0>>].tag
    <3>1. Val(<<t, 0>>).tag /\ <<t, 0>> \in Slots /\ hot
      BY <1>0, <2>1, SlotsAreLocs DEF KernelMapped, Phases
    <3>2. Uncached(<<t, 0>>).tag
      BY <3>1, UncachedTables DEF Val, NoSlots
    <3> QED BY <1>2, <3>2, <3>1 DEF DSB, Over, Uncached, Typed, Locs
  <2> QED BY <1>0, <2>1 DEF KernelInMemory
<1>3. ASSUME ~DSB, WillTranslate, NEW t \in RegAhead("ttbr")
      PROVE  \/ mem'[<<t, 0>>].tag
             \/ /\ \A i \in DOMAIN code' : Uses0(i, t)' => Between(code', 0, "dsb", i)
                /\ \A i \in DOMAIN code : Uses0(i, t) => i # 1
  <2>1. CASE InMem(t)
    BY <1>0, <1>1, <2>1
  <2>2. CASE ~InMem(t)
    <3>1. PICK op : Executes(op) /\ op # "dsb"
      BY <1>3, InstructionFrame DEF Instruction, DSB, PREFETCH_FLUSH, FLUSH_BTB, INV_TLB, INV_DCACHE,
         CLEAN_INV_DCACHE, RegisterSet, STR, Executes
    <3>2. \A i \in DOMAIN code : Uses0(i, t) => Between(code, 0, "dsb", i)
      BY <1>3, <2>2 DEF KernelInMemory
    <3>3. ASSUME NEW i \in DOMAIN code', Uses0(i, t)' PROVE Between(code', 0, "dsb", i)
      <4>1. i \in Nat /\ i + 1 \in DOMAIN code /\ code'[i] = code[i + 1]
        BY <3>1, Executing
      <4>2. Uses0(i + 1, t)
        BY <3>3, <4>1 DEF Uses0
      <4> QED BY <3>1, <3>2, <4>1, <4>2, BetweenExecuting
    <3>4. \A i \in DOMAIN code : Between(code, 0, "dsb", i) => i # 1
      BY <3>1, Executing DEF Between
    <3> QED BY <3>2, <3>3, <3>4
  <2> QED BY <2>1, <2>2
<1>4. ASSUME ~DSB, MayTranslate', NEW t \in InEffect("ttbr")' PROVE mem'[<<t, 0>>].tag
  <2>1. WillTranslate /\ t \in RegAhead("ttbr") /\ t \in Tables
    BY <1>0, <1>4
  <2>2. CASE MayTranslate /\ t \in InEffect("ttbr")
    BY <1>1, <2>1, <2>2 DEF KernelInMemory
  <2>3. CASE ~(MayTranslate /\ t \in InEffect("ttbr"))
    <3>1. RegisterSet
      BY <1>4, <2>3 DEF Instruction, DSB, PREFETCH_FLUSH, FLUSH_BTB, INV_TLB, INV_DCACHE,
         CLEAN_INV_DCACHE, STR, cpuVars, InEffect, NotStale, MayTranslate, Typed
    <3>2. PICK reg \in {"ctrl", "asid", "ttbr"} :
            /\ Executes(reg)
            /\ cp15' = [cp15 EXCEPT ![reg] = Operand]
            /\ stale' = [stale EXCEPT ![reg] = @ \cup {cp15[reg]}]
      BY <3>1 DEF RegisterSet
    <3>3. 1 \in DOMAIN code /\ code[1][1] = reg /\ Operand = code[1][2]
      BY <3>2, Executing DEF Operand
    <3>4. \A r \in {"ctrl", "ttbr"} :
            /\ InEffect(r)' \subseteq InEffect(r) \cup (IF r = reg THEN {Operand} ELSE {})
      BY <3>2 DEF InEffect, Typed
    <3>5. Uses0(1, t)
      <4>1. CASE ~MayTranslate
        <5>1. PICK c \in InEffect("ctrl")' : MmuOn(c)
          BY <1>4 DEF MayTranslate
        <5>2. reg = "ctrl" /\ c = Operand
          BY <3>4, <4>1, <5>1 DEF MayTranslate
        <5> QED BY <3>3, <5>1, <5>2 DEF Uses0
      <4>2. CASE t \notin InEffect("ttbr")
        BY <1>4, <3>3, <3>4, <4>2 DEF Uses0
      <4> QED BY <2>3, <4>1, <4>2
    <3> QED BY <1>3, <1>4, <2>1, <3>3, <3>5
  <2> QED BY <2>2, <2>3
<1>5. CASE ~DSB
  BY <1>0, <1>3, <1>4, <1>5 DEF KernelInMemory
<1> QED BY <1>2, <1>5

LEMMA KernelInMemoryKernel ==
  ASSUME VmAssumption, Typed, InSync, Phases, CacheSafe, KernelInMemory, UNCHANGED use,
         Kernel, 0 \notin use.cached
  PROVE  KernelInMemory'
<1>0. /\ UNCHANGED <<cp15, stale, mem>> /\ code = <<>>
      /\ \A reg : RegAhead(reg)' = InEffect(reg) \cup Operands(code', reg)
      /\ \A reg : InEffect(reg)' = InEffect(reg)
      /\ (MayTranslate' <=> MayTranslate) /\ (MayTranslate <=> mmu_is_enabled)
  BY KernelFrame, IdleInEffect DEF RegAhead, InEffect, MayTranslate
<1>1. MayTranslate' => \A t \in InEffect("ttbr")' : mem'[<<t, 0>>].tag
  BY <1>0 DEF KernelInMemory
<1>2. ASSUME \A t : \A i \in DOMAIN code' : Uses0(i, t)' => Between(code', 0, "dsb", i)
      PROVE  KernelInMemory'
  BY <1>1, <1>2 DEF KernelInMemory
<1>3. CASE ~inited /\ vm_mmu_init
  <2>1. ~hot' /\ Phases'
    BY <1>3, PhasesKernel DEF Phases, vm_mmu_init
  <2> QED BY <1>1, <2>1 DEF Phases, KernelInMemory
<1>4. ASSUME NEW t \in Tables, NEW va, NEW nG, NEW base, vm_map_sec(t, va, nG, base)
      PROVE  KernelInMemory'
  <2>1. \A i \in DOMAIN code' : code'[i][1] = "str"
    BY <1>4 DEF vm_map_sec, Call
  <2> QED BY <1>2, <2>1 DEF Uses0
<1>5. ASSUME NEW t \in Tables, vm_mmu_switch(t) PROVE KernelInMemory'
  <2>1. code' = cp15_set_procid_ttbr0(AsidOf(t), t)
    BY <1>5 DEF vm_mmu_switch, Call
  <2>2. \A i \in DOMAIN code' : code'[i][1] \in {"ctrl", "ttbr"} => Between(code', 0, "dsb", i)
    BY <2>1 DEF cp15_set_procid_ttbr0, Between
  <2> QED BY <1>2, <2>2 DEF Uses0
<1>6. CASE vm_mmu_enable
  <2> DEFINE c == cp15.ctrl \cup {"MMU_enabled"}
  <2>1. code' = mmu_enable_set_asm(c) /\ ~MmuOn(cp15.ctrl)
    BY <1>6 DEF vm_mmu_enable, Call, mmu_is_enabled, MmuOn
  <2> HIDE DEF c
  <2>2. \A i \in DOMAIN code' :
          code'[i][1] # "ttbr" /\ (code'[i][1] = "ctrl" /\ MmuOn(code'[i][2]) => Between(code', 0, "dsb", i))
    BY <2>1 DEF mmu_enable_set_asm, Between
  <2> QED BY <1>2, <2>2 DEF Uses0
<1>7. ASSUME NEW c, c = cp15.ctrl \ {"MMU_enabled"},
             code' \in {DisableCode(c), mmu_disable_set_asm(c)}
      PROVE  KernelInMemory'
  <2>1. ~MmuOn(c)
    BY <1>7 DEF MmuOn
  <2>2. \A i \in DOMAIN code' : code'[i][1] # "ttbr" /\ (code'[i][1] = "ctrl" => code'[i][2] = c)
    BY <1>7 DEF DisableCode, mmu_disable_set_asm
  <2> QED BY <1>2, <2>1, <2>2 DEF Uses0
<1>8. CASE mmu_sync_pte_mods
  <2>1. \A i \in DOMAIN code' : code'[i][1] \notin {"ctrl", "ttbr"}
    BY <1>8 DEF mmu_sync_pte_mods, Call, sync_pte_mods
  <2> QED BY <1>2, <2>1 DEF Uses0
<1>9. CASE caches_all_on
  <2>1. Operands(code', "ttbr") = {}
    BY <1>9, CodeOperands DEF caches_all_on, Call
  <2>2. MayTranslate
    BY <1>0, <1>9 DEF caches_all_on
  <2> QED BY <1>0, <1>1, <2>1, <2>2 DEF KernelInMemory
<1>10. CASE UNCHANGED code
  BY <1>0, <1>2, <1>10
<1> QED BY <1>3, <1>4, <1>5, <1>6, <1>7, <1>8, <1>9, <1>10, KernelCalls DEF Fails, Load, Store

LEMMA KernelInMemoryStep ==
  ASSUME VmAssumption, Typed, InSync, Phases, CacheSafe, KernelMapped, KernelInMemory, Next
  PROVE  KernelInMemory'
<1>1. CASE 0 \in use.cached
  BY <1>1 DEF Next, KernelInMemory
<1>2. CASE 0 \notin use.cached /\ Hardware
  <2>1. \A t \in Tables : mem[<<t, 0>>].tag => mem'[<<t, 0>>].tag
    BY SlotsAreLocs, ValTagged DEF VmAssumption
  <2>2. UNCHANGED <<code, cp15, stale>>
    BY <1>2, HardwareFrame
  <2> QED BY <1>2, <2>1, <2>2, RegAheadTables
          DEF KernelInMemory, MayTranslate, WillTranslate, RegAhead, InEffect, Operands, Uses0, Between
<1>3. CASE 0 \notin use.cached /\ Instruction
  BY <1>3, KernelInMemoryInstruction DEF Next
<1>4. CASE 0 \notin use.cached /\ Kernel
  BY <1>4, KernelInMemoryKernel DEF Next
<1> QED BY <1>1, <1>2, <1>3, <1>4 DEF Next
-----------------------------------------------------------------------------
(* Synchronised tables.                                                    *)

\* Ahead are the DSB, and the write-back before it, that get all entries to
\* memory before the MMU comes on or the TLB is invalidated.
DsbAhead ==
    \E i \in DOMAIN code :
      /\ code[i][1] = "dsb"
      /\ \A j \in DOMAIN code : j < i =>
           code[j][1] # "inv_tlb" /\ ~(code[j][1] = "ctrl" /\ MmuOn(code[j][2]))
CleanAhead ==
    \E i \in DOMAIN code, k \in DOMAIN code :
      /\ i < k /\ code[i][1] = "clean_inv_dcache" /\ code[k][1] = "dsb"
      /\ \A j \in DOMAIN code : j < k => code[j][1] \notin {"inv_tlb", "ctrl"}

Settled ==
  hot /\ ~unsynced =>
    /\ NoSlots(dcache) \/ (CleanAhead /\ Pending("inv_tlb"))
    /\ NoSlots(wbuf) \/ (DsbAhead /\ (Pending("inv_tlb") \/ ~MayTranslate))

LEMMA SettledHardware ==
  ASSUME Typed, Settled, Hardware PROVE Settled'
<1>1. UNCHANGED <<code, cp15, stale, hot, unsynced, Slots>>
  BY HardwareFrame DEF Slots
<1>2. DOMAIN dcache' \subseteq DOMAIN dcache /\ DOMAIN wbuf' \subseteq DOMAIN wbuf
  BY DEF Hardware, Walk, TlbEvict, LineEvict, Drain, memVars, Without
<1>3. (NoSlots(dcache) => NoSlots(dcache)') /\ (NoSlots(wbuf) => NoSlots(wbuf)')
  BY <1>1, <1>2 DEF NoSlots
<1>4. /\ CleanAhead' <=> CleanAhead
      /\ DsbAhead' <=> DsbAhead
      /\ Pending("inv_tlb")' <=> Pending("inv_tlb")
      /\ MayTranslate' <=> MayTranslate
  BY <1>1 DEF CleanAhead, DsbAhead, Pending, After, MayTranslate, InEffect
<1> QED BY <1>1, <1>3, <1>4 DEF Settled

LEMMA AheadExecuting ==
  ASSUME Typed, NEW op, Executes(op)
  PROVE  /\ op # "dsb" /\ DsbAhead =>
              DsbAhead' /\ op # "inv_tlb" /\ ~(op = "ctrl" /\ MmuOn(Operand))
         /\ op # "clean_inv_dcache" /\ CleanAhead => CleanAhead' /\ op \notin {"inv_tlb", "ctrl"}
         /\ op = "clean_inv_dcache" /\ CleanAhead => DsbAhead'
<1>1. /\ 1 \in DOMAIN code /\ code[1][1] = op /\ Operand = code[1][2]
      /\ DOMAIN code \subseteq Nat \ {0} /\ DOMAIN code' \subseteq Nat \ {0}
      /\ \A i \in DOMAIN code' : i + 1 \in DOMAIN code /\ code'[i] = code[i + 1]
      /\ \A i \in DOMAIN code : i # 1 => i - 1 \in DOMAIN code' /\ code'[i - 1] = code[i]
  BY Executing DEF Operand
<1>2. ASSUME op # "dsb", DsbAhead
      PROVE  DsbAhead' /\ op # "inv_tlb" /\ ~(op = "ctrl" /\ MmuOn(Operand))
  <2>1. PICK i \in DOMAIN code :
          /\ code[i][1] = "dsb"
          /\ \A j \in DOMAIN code : j < i =>
               code[j][1] # "inv_tlb" /\ ~(code[j][1] = "ctrl" /\ MmuOn(code[j][2]))
    BY <1>2 DEF DsbAhead
  <2>2. i # 1 /\ 1 < i /\ i - 1 \in DOMAIN code' /\ code'[i - 1] = code[i]
    BY <1>1, <1>2, <2>1
  <2>3. \A j \in DOMAIN code' : j < i - 1 => j + 1 < i
    BY <1>1, <2>2
  <2>4. DsbAhead'
    BY <1>1, <2>1, <2>2, <2>3 DEF DsbAhead
  <2> QED BY <1>1, <2>1, <2>2, <2>4
<1>3. ASSUME CleanAhead
      PROVE  /\ op # "clean_inv_dcache" => CleanAhead' /\ op \notin {"inv_tlb", "ctrl"}
             /\ DsbAhead'
  <2>1. PICK i \in DOMAIN code, k \in DOMAIN code :
          /\ i < k /\ code[i][1] = "clean_inv_dcache" /\ code[k][1] = "dsb"
          /\ \A j \in DOMAIN code : j < k => code[j][1] \notin {"inv_tlb", "ctrl"}
    BY <1>3 DEF CleanAhead
  <2>2. k # 1 /\ 1 < k /\ k - 1 \in DOMAIN code' /\ code'[k - 1] = code[k]
    BY <1>1, <2>1
  <2>3. \A j \in DOMAIN code' : j < k - 1 => code'[j][1] \notin {"inv_tlb", "ctrl"}
    <3>1. \A j \in DOMAIN code' : j < k - 1 => j + 1 < k
      BY <1>1, <2>2
    <3> QED BY <1>1, <2>1, <3>1
  <2>4. DsbAhead'
    BY <2>1, <2>2, <2>3 DEF DsbAhead
  <2>5. ASSUME op # "clean_inv_dcache" PROVE CleanAhead'
    <3>1. i # 1 /\ i - 1 \in DOMAIN code' /\ code'[i - 1] = code[i] /\ i - 1 < k - 1
      BY <1>1, <2>1, <2>2, <2>5
    <3> QED BY <2>1, <2>2, <2>3, <3>1 DEF CleanAhead
  <2> QED BY <1>1, <2>1, <2>2, <2>4, <2>5
<1> QED BY <1>2, <1>3

LEMMA SettledInstruction ==
  ASSUME Typed, Phases, CacheSafe, Settled, Instruction PROVE Settled'
<1>0. UNCHANGED <<hot, unsynced, Slots>>
  BY InstructionFrame DEF Slots
<1> SUFFICES ASSUME hot, ~unsynced
             PROVE  /\ NoSlots(dcache') \/ (CleanAhead' /\ Pending("inv_tlb")')
                    /\ NoSlots(wbuf') \/ (DsbAhead' /\ (Pending("inv_tlb")' \/ ~MayTranslate'))
  BY <1>0 DEF Settled, NoSlots
<1>1. CASE DSB
  <2>1. NoSlots(wbuf') /\ dcache' = dcache /\ Executes("dsb")
    BY <1>1 DEF DSB, NoLocs, NoSlots
  <2> QED BY <2>1, AheadExecuting, PendingExecuting DEF Settled
<1>2. CASE CLEAN_INV_DCACHE
  <2>1. Executes("clean_inv_dcache") /\ NoSlots(dcache')
    BY <1>2 DEF CLEAN_INV_DCACHE, NoLocs, NoSlots
  <2>2. DOMAIN wbuf' \subseteq DOMAIN dcache \cup DOMAIN wbuf
    BY <1>2 DEF CLEAN_INV_DCACHE, Over, WrittenBack
  <2>3. CASE NoSlots(dcache)
    <3>1. NoSlots(wbuf) => NoSlots(wbuf')
      BY <2>2, <2>3 DEF NoSlots
    <3>2. MayTranslate' <=> MayTranslate
      BY <1>2 DEF CLEAN_INV_DCACHE, cpuVars, MayTranslate, InEffect
    <3> QED BY <2>1, <3>1, <3>2, AheadExecuting, PendingExecuting DEF Settled
  <2>4. CASE ~NoSlots(dcache)
    BY <2>1, <2>4, AheadExecuting, PendingExecuting DEF Settled
  <2> QED BY <2>3, <2>4
<1>3. CASE STR
  <2>1. Pending("str")
    BY <1>3, Executing DEF STR, Pending, After
  <2> QED BY <2>1 DEF Phases
<1>4. CASE INV_DCACHE
  <2>1. Pending("inv_dcache")
    BY <1>4, Executing DEF INV_DCACHE, Pending, After
  <2> QED BY <2>1 DEF CacheSafe
<1>5. CASE PREFETCH_FLUSH \/ FLUSH_BTB \/ INV_TLB \/ RegisterSet
  <2>1. dcache' = dcache /\ wbuf' = wbuf
    BY <1>5 DEF PREFETCH_FLUSH, FLUSH_BTB, INV_TLB, RegisterSet, memVars
  <2>2. PICK op \in {"prefetch_flush", "flush_btb", "inv_tlb", "ctrl", "asid", "ttbr"} : Executes(op)
    BY <1>5 DEF PREFETCH_FLUSH, FLUSH_BTB, INV_TLB, RegisterSet
  <2>3. ASSUME ~NoSlots(dcache) PROVE CleanAhead' /\ Pending("inv_tlb")'
    BY <2>2, <2>3, AheadExecuting, PendingExecuting DEF Settled
  <2>4. ASSUME ~NoSlots(wbuf) PROVE DsbAhead' /\ (Pending("inv_tlb")' \/ ~MayTranslate')
    <3>1. DsbAhead' /\ op # "inv_tlb" /\ ~(op = "ctrl" /\ MmuOn(Operand))
      BY <2>2, <2>4, AheadExecuting DEF Settled
    <3>2. Pending("inv_tlb") => Pending("inv_tlb")'
      BY <2>2, <3>1, PendingExecuting
    <3>3. ASSUME MayTranslate' PROVE MayTranslate
      <4>1. PICK c \in InEffect("ctrl")' : MmuOn(c)
        BY <3>3 DEF MayTranslate
      <4>2. InEffect("ctrl")' \subseteq InEffect("ctrl") \cup (IF op = "ctrl" THEN {Operand} ELSE {})
        <5>1. CASE RegisterSet
          <6>1. PICK reg \in {"ctrl", "asid", "ttbr"} :
                  /\ Executes(reg)
                  /\ cp15' = [cp15 EXCEPT ![reg] = Operand]
                  /\ stale' = [stale EXCEPT ![reg] = @ \cup {cp15[reg]}]
            BY <5>1 DEF RegisterSet
          <6>2. reg = op
            BY <2>2, <6>1 DEF Executes
          <6> QED BY <6>1, <6>2 DEF InEffect, Typed
        <5>2. CASE ~RegisterSet
          BY <1>5, <5>2 DEF PREFETCH_FLUSH, FLUSH_BTB, INV_TLB, cpuVars, InEffect, NotStale, Typed
        <5> QED BY <5>1, <5>2
      <4> QED BY <3>1, <4>1, <4>2 DEF MayTranslate
    <3> QED BY <2>4, <3>1, <3>2, <3>3 DEF Settled
  <2> QED BY <2>1, <2>3, <2>4
<1> QED BY <1>1, <1>2, <1>3, <1>4, <1>5 DEF Instruction

LEMMA SettledKernel ==
  ASSUME VmAssumption, Typed, InSync, Phases, CacheSafe, Settled, Kernel PROVE Settled'
<1>0. /\ UNCHANGED <<cp15, stale, Slots>> /\ code = <<>>
      /\ (MayTranslate' <=> MayTranslate) /\ (MayTranslate <=> mmu_is_enabled)
      /\ ~Pending("inv_tlb") /\ ~DsbAhead
  BY KernelFrame, IdleInEffect DEF InEffect, MayTranslate, Slots, Pending, After, DsbAhead
<1>1. ASSUME hot, ~unsynced PROVE NoSlots(dcache) /\ NoSlots(wbuf)
  BY <1>0, <1>1 DEF Settled
<1>2. CASE UNCHANGED <<hot, unsynced, dcache, wbuf>>
  BY <1>0, <1>1, <1>2 DEF Settled, NoSlots
<1>3. CASE ~inited /\ vm_mmu_init
  BY <1>3 DEF Phases, vm_mmu_init, Settled
<1>4. ASSUME NEW t \in Tables, NEW va, NEW nG, NEW base, vm_map_sec(t, va, nG, base) PROVE Settled'
  BY <1>4 DEF vm_map_sec, Settled
<1>5. CASE vm_mmu_enable
  <2> DEFINE c == cp15.ctrl \cup {"MMU_enabled"}
  <2>1. code' = mmu_enable_set_asm(c) /\ ~MmuOn(cp15.ctrl) /\ ~mmu_is_enabled
        /\ UNCHANGED <<unsynced, dcache, wbuf>>
    BY <1>5 DEF vm_mmu_enable, Call, mmu_is_enabled, MmuOn, memVars
  <2> HIDE DEF c
  <2>2. DsbAhead'
    <3>1. /\ 3 \in DOMAIN code' /\ code'[3][1] = "dsb"
          /\ code'[1] = <<"ctrl", cp15.ctrl>> /\ code'[2] = <<"prefetch_flush">>
          /\ \A j \in DOMAIN code' : j < 3 => j \in {1, 2}
      BY <2>1 DEF mmu_enable_set_asm
    <3>2. \A j \in DOMAIN code' : j < 3 =>
            code'[j][1] # "inv_tlb" /\ ~(code'[j][1] = "ctrl" /\ MmuOn(code'[j][2]))
      BY <2>1, <3>1
    <3> QED BY <3>1, <3>2 DEF DsbAhead
  <2>3. ~unsynced => NoSlots(dcache)
    BY <1>1 DEF Phases
  <2> QED BY <1>0, <2>1, <2>2, <2>3 DEF Settled, NoSlots
<1>6. CASE mmu_sync_pte_mods
  <2>1. code' = sync_pte_mods
    BY <1>6 DEF mmu_sync_pte_mods, Call
  <2>2. /\ 1 \in DOMAIN code' /\ 2 \in DOMAIN code' /\ 3 \in DOMAIN code'
        /\ code'[1][1] = "clean_inv_dcache" /\ code'[2][1] = "dsb" /\ code'[3][1] = "inv_tlb"
        /\ \A j \in DOMAIN code' : j < 2 => j = 1
    BY <2>1 DEF sync_pte_mods
  <2>3. CleanAhead' /\ DsbAhead' /\ Pending("inv_tlb")'
    BY <2>2 DEF CleanAhead, DsbAhead, Pending, After
  <2> QED BY <2>3 DEF Settled
<1>7. ASSUME NEW va, NEW pa \in use.data, NEW v, ~unsynced, Load(va, pa) \/ Store(va, pa, v)
      PROVE  Settled'
  <2>1. <<pa>> \notin Slots
    BY SlotIsNoCell DEF Cells
  <2>2. /\ DOMAIN dcache' \subseteq DOMAIN dcache \cup {<<pa>>}
        /\ DOMAIN wbuf' \subseteq DOMAIN wbuf \cup {<<pa>>}
        /\ UNCHANGED <<hot, unsynced>>
    BY <1>7 DEF Load, Store, StoreTo, Put, ghosts
  <2> QED BY <1>0, <1>1, <2>1, <2>2 DEF Settled, NoSlots
<1>8. CASE \/ vm_mmu_disable \/ caches_all_on \/ Fails
           \/ \E t \in Tables : vm_mmu_switch(t)
  BY <1>2, <1>8 DEF vm_mmu_disable, caches_all_on, Fails, vm_mmu_switch, Call, memVars, ghosts
<1> QED BY <1>3, <1>4, <1>5, <1>6, <1>7, <1>8, KernelCalls

LEMMA SettledStep ==
  ASSUME VmAssumption, Typed, InSync, Phases, CacheSafe, Settled, Next PROVE Settled'
BY SettledHardware, SettledInstruction, SettledKernel DEF Next
-----------------------------------------------------------------------------
(* Address spaces.                                                         *)

\* The first n of the nine instructions of a switch to table t are executed.
Switching(t, n) ==
    /\ \A i \in Nat : i \in DOMAIN code <=> i \in 1..(9 - n)
    /\ \A i \in DOMAIN code : code[i] = cp15_set_procid_ttbr0(AsidOf(t), t)[n + i]

\* While the table in effect changes, the address space is 0, which no call asks for.
Spaces ==
    \/ /\ ~Pending("asid") /\ ~Pending("ttbr")
       /\ stale.asid = {} /\ stale.ttbr = {}
       /\ cp15.asid \in {0, AsidOf(cp15.ttbr)}
       /\ WillTranslate => cp15.asid # 0
    \/ \E t \in Tables, n \in 0..8 :
         /\ Switching(t, n)
         /\ n >= 4 => cp15.ttbr = t
         /\ n \notin {4, 5} => stale.ttbr = {}
         /\ n <= 1 => cp15.asid \in {0, AsidOf(cp15.ttbr)}
         /\ n \in 2..6 => cp15.asid = 0
         /\ n >= 7 => cp15.asid = AsidOf(t)
         /\ n = 2 => stale.asid \subseteq {0, AsidOf(cp15.ttbr)}
         /\ n \in {7, 8} => stale.asid \subseteq {0}
         /\ n \notin {2, 7, 8} => stale.asid = {}

\* An address space is only ever in effect together with its own table.
LEMMA SpacesMatch ==
  ASSUME Spaces, NEW a \in InEffect("asid"), NEW t \in InEffect("ttbr")
  PROVE  a \in {0, AsidOf(t)}
BY DEF Spaces, InEffect

LEMMA SpacesIdle ==
  ASSUME Spaces, code = <<>>
  PROVE  /\ cp15.asid \in {0, AsidOf(cp15.ttbr)}
         /\ WillTranslate => cp15.asid # 0
<1>1. \A t \in Tables, n \in 0..8 : ~Switching(t, n)
  <2>1. \A n \in 0..8 : 1 \in 1..(9 - n) /\ 1 \in Nat
    OBVIOUS
  <2> QED BY <2>1 DEF Switching
<1> QED BY <1>1 DEF Spaces

LEMMA SpacesInit ==
  ASSUME Init PROVE Spaces
<1>1. ~WillTranslate
  BY PhasesInit DEF Phases, Init
<1> QED BY <1>1 DEF Init, Spaces, NotStale, Pending, After

LEMMA SwitchExecuting ==
  ASSUME Typed, NEW t \in Tables, NEW n \in 0..8, Switching(t, n), NEW op, Executes(op)
  PROVE  /\ n < 8 => Switching(t, n + 1)'
         /\ n = 8 => DOMAIN code' = {}
         /\ code[1] = cp15_set_procid_ttbr0(AsidOf(t), t)[n + 1]
<1>1. /\ 1 \in DOMAIN code
      /\ DOMAIN code \subseteq Nat \ {0} /\ DOMAIN code' \subseteq Nat \ {0}
      /\ \A i \in DOMAIN code' : i + 1 \in DOMAIN code /\ code'[i] = code[i + 1]
      /\ \A i \in DOMAIN code : i # 1 => i - 1 \in DOMAIN code'
  BY Executing
<1>2. \A i \in Nat : i \in DOMAIN code' <=> i \in 1..(9 - (n + 1))
  <2> TAKE i \in Nat
  <2>1. i \in DOMAIN code' => i \in 1..(9 - (n + 1))
    <3> HAVE i \in DOMAIN code'
    <3>1. i + 1 \in Nat /\ i + 1 \in DOMAIN code /\ i >= 1
      BY <1>1
    <3>2. i + 1 \in 1..(9 - n)
      BY <3>1 DEF Switching
    <3> QED BY <3>1, <3>2
  <2>2. i \in 1..(9 - (n + 1)) => i \in DOMAIN code'
    <3> HAVE i \in 1..(9 - (n + 1))
    <3>1. i + 1 \in Nat /\ i + 1 \in 1..(9 - n) /\ i + 1 # 1 /\ (i + 1) - 1 = i
      OBVIOUS
    <3>2. i + 1 \in DOMAIN code
      BY <3>1 DEF Switching
    <3> QED BY <1>1, <3>1, <3>2
  <2> QED BY <2>1, <2>2
<1>3. \A i \in DOMAIN code' : code'[i] = cp15_set_procid_ttbr0(AsidOf(t), t)[(n + 1) + i]
  <2> TAKE i \in DOMAIN code'
  <2>1. i + 1 \in DOMAIN code /\ code'[i] = code[i + 1] /\ n + (i + 1) = (n + 1) + i
    BY <1>1
  <2> QED BY <2>1 DEF Switching
<1>4. n = 8 => DOMAIN code' = {}
  <2>1. n = 8 => \A i \in Nat : i \notin DOMAIN code'
    BY <1>2
  <2> QED BY <1>1, <2>1
<1>5. code[1] = cp15_set_procid_ttbr0(AsidOf(t), t)[n + 1]
  BY <1>1 DEF Switching
<1> QED BY <1>2, <1>3, <1>4, <1>5 DEF Switching

LEMMA SpacesInstruction ==
  ASSUME VmAssumption, Typed, Spaces, Instruction PROVE Spaces'
<1>1. PICK op : Executes(op)
  BY InstructionFrame
<1>2. ASSUME op \notin {"asid", "ttbr", "prefetch_flush"}
      PROVE  cp15'.asid = cp15.asid /\ cp15'.ttbr = cp15.ttbr
             /\ stale'.asid = stale.asid /\ stale'.ttbr = stale.ttbr
  BY <1>1, <1>2 DEF Instruction, DSB, PREFETCH_FLUSH, FLUSH_BTB, INV_TLB, INV_DCACHE,
     CLEAN_INV_DCACHE, RegisterSet, STR, Executes, cpuVars, Typed
<1>3. ASSUME op = "prefetch_flush" PROVE cp15' = cp15 /\ stale'.asid = {} /\ stale'.ttbr = {}
  BY <1>1, <1>3 DEF Instruction, DSB, PREFETCH_FLUSH, FLUSH_BTB, INV_TLB, INV_DCACHE,
     CLEAN_INV_DCACHE, RegisterSet, STR, Executes, NotStale
<1>4. ASSUME op \in {"asid", "ttbr"}
      PROVE  /\ cp15' = [cp15 EXCEPT ![op] = Operand]
             /\ stale' = [stale EXCEPT ![op] = @ \cup {cp15[op]}]
  BY <1>1, <1>4 DEF Instruction, DSB, PREFETCH_FLUSH, FLUSH_BTB, INV_TLB, INV_DCACHE,
     CLEAN_INV_DCACHE, RegisterSet, STR, Executes
<1>5. CASE /\ ~Pending("asid") /\ ~Pending("ttbr")
           /\ stale.asid = {} /\ stale.ttbr = {}
           /\ cp15.asid \in {0, AsidOf(cp15.ttbr)}
           /\ WillTranslate => cp15.asid # 0
  <2>1. op \notin {"asid", "ttbr"}
    BY <1>1, <1>5, Executing DEF Pending, After
  <2>2. ~Pending("asid")' /\ ~Pending("ttbr")'
    BY <1>1, <1>5, PendingExecuting
  <2>3. WillTranslate' => WillTranslate
    BY AheadShrinks DEF WillTranslate
  <2> QED BY <1>2, <1>3, <1>5, <2>1, <2>2, <2>3 DEF Spaces
<1>6. ASSUME NEW t \in Tables, NEW n \in 0..8,
             /\ Switching(t, n)
             /\ n >= 4 => cp15.ttbr = t
             /\ n \notin {4, 5} => stale.ttbr = {}
             /\ n <= 1 => cp15.asid \in {0, AsidOf(cp15.ttbr)}
             /\ n \in 2..6 => cp15.asid = 0
             /\ n >= 7 => cp15.asid = AsidOf(t)
             /\ n = 2 => stale.asid \subseteq {0, AsidOf(cp15.ttbr)}
             /\ n \in {7, 8} => stale.asid \subseteq {0}
             /\ n \notin {2, 7, 8} => stale.asid = {}
      PROVE  Spaces'
  <2>1. /\ n < 8 => Switching(t, n + 1)'
        /\ n = 8 => DOMAIN code' = {}
        /\ code[1] = cp15_set_procid_ttbr0(AsidOf(t), t)[n + 1]
    BY <1>1, <1>6, SwitchExecuting
  <2>2. op = code[1][1] /\ Operand = code[1][2]
    BY <1>1, Executing DEF Operand
  <2>3. /\ n \in {0, 2, 4, 5, 7, 8} => op \in {"dsb", "flush_btb", "prefetch_flush"}
        /\ n \in {2, 5, 8} => op = "prefetch_flush"
        /\ n \in {0, 4, 7} => op \in {"dsb", "flush_btb"}
        /\ n = 1 => op = "asid" /\ Operand = 0
        /\ n = 3 => op = "ttbr" /\ Operand = t
        /\ n = 6 => op = "asid" /\ Operand = AsidOf(t)
    BY <2>1, <2>2 DEF cp15_set_procid_ttbr0
  <2>4. CASE n = 8
    <3>1. ~Pending("asid")' /\ ~Pending("ttbr")'
      BY <2>1, <2>4 DEF Pending, After
    <3>2. AsidOf(t) # 0
      BY DEF VmAssumption
    <3> QED BY <1>3, <1>6, <2>3, <2>4, <3>1, <3>2 DEF Spaces
  <2>5. CASE n < 8
    <3> DEFINE m == n + 1
    <3>1. m \in 0..8 /\ Switching(t, m)'
      BY <2>1, <2>5
    <3>2. m \in {1, 2, 3, 4, 5, 6, 7, 8} /\ n = m - 1
      BY <2>5
    <3> HIDE DEF m
    <3>3. /\ m >= 4 => cp15'.ttbr = t
          /\ m \notin {4, 5} => stale'.ttbr = {}
          /\ m <= 1 => cp15'.asid \in {0, AsidOf(cp15'.ttbr)}
          /\ m \in 2..6 => cp15'.asid = 0
          /\ m >= 7 => cp15'.asid = AsidOf(t)
          /\ m = 2 => stale'.asid \subseteq {0, AsidOf(cp15'.ttbr)}
          /\ m \in {7, 8} => stale'.asid \subseteq {0}
          /\ m \notin {2, 7, 8} => stale'.asid = {}
      <4>1. CASE m \in {1, 5, 8}
        BY <1>2, <1>6, <2>3, <3>2, <4>1
      <4>2. CASE m \in {3, 6}
        BY <1>3, <1>6, <2>3, <3>2, <4>2
      <4>3. CASE m = 2
        BY <1>4, <1>6, <2>3, <3>2, <4>3 DEF Typed
      <4>4. CASE m = 4
        BY <1>4, <1>6, <2>3, <3>2, <4>4 DEF Typed
      <4>5. CASE m = 7
        BY <1>4, <1>6, <2>3, <3>2, <4>5 DEF Typed
      <4> QED BY <3>2, <4>1, <4>2, <4>3, <4>4, <4>5
    <3> QED BY <3>1, <3>3 DEF Spaces
  <2> QED BY <2>4, <2>5
<1> QED BY <1>5, <1>6 DEF Spaces

LEMMA SpacesKernel ==
  ASSUME VmAssumption, Typed, InSync, Phases, Spaces, Kernel PROVE Spaces'
<1>0. /\ UNCHANGED <<cp15, stale>> /\ code = <<>> /\ stale = NotStale
      /\ cp15.asid \in {0, AsidOf(cp15.ttbr)}
      /\ (WillTranslate => cp15.asid # 0) /\ (mmu_is_enabled => cp15.asid # 0)
  <2>1. UNCHANGED <<cp15, stale>> /\ code = <<>>
    BY KernelFrame
  <2>2. stale = NotStale
    BY <2>1 DEF InSync, Pending, After
  <2> QED BY <2>1, <2>2, SpacesIdle, IdleInEffect
<1>1. ASSUME ~Pending("asid")', ~Pending("ttbr")', WillTranslate' => cp15.asid # 0 PROVE Spaces'
  BY <1>0, <1>1 DEF Spaces, NotStale
<1>2. ASSUME Operands(code', "ctrl") = {} PROVE WillTranslate' => cp15.asid # 0
  <2>1. RegAhead("ctrl")' \subseteq RegAhead("ctrl")
    BY <1>0, <1>2 DEF RegAhead, InEffect
  <2> QED BY <1>0, <2>1 DEF WillTranslate
<1>3. CASE ~inited /\ vm_mmu_init /\ code' = ResetCode(cp15.ctrl \cup {"XP_pt"})
  <2>1. ~hot' /\ Phases'
    BY <1>3, PhasesKernel DEF Phases, vm_mmu_init
  <2>2. ~Pending("asid")' /\ ~Pending("ttbr")'
    BY <1>3 DEF Pending, After, ResetCode
  <2> QED BY <1>1, <2>1, <2>2 DEF Phases
<1>4. ASSUME NEW t, NEW va, NEW nG, NEW base, vm_map_sec(t, va, nG, base) PROVE Spaces'
  <2>1. \A i \in DOMAIN code' : code'[i][1] = "str"
    BY <1>4 DEF vm_map_sec, Call
  <2>2. ~Pending("asid")' /\ ~Pending("ttbr")' /\ Operands(code', "ctrl") = {}
    BY <2>1 DEF Pending, After, Operands
  <2> QED BY <1>1, <1>2, <2>2
<1>5. ASSUME NEW t \in Tables, vm_mmu_switch(t) PROVE Spaces'
  <2>1. code' = cp15_set_procid_ttbr0(AsidOf(t), t)
    BY <1>5 DEF vm_mmu_switch, Call
  <2>2. DOMAIN code' = 1..9
    BY <2>1 DEF cp15_set_procid_ttbr0
  <2>3. Switching(t, 0)'
    BY <2>1, <2>2 DEF Switching
  <2> QED BY <1>0, <2>3 DEF Spaces, NotStale
<1>6. CASE vm_mmu_enable /\ cp15.asid # 0
  <2>1. ~Pending("asid")' /\ ~Pending("ttbr")'
    BY <1>6 DEF vm_mmu_enable, Call, Pending, After, mmu_enable_set_asm
  <2> QED BY <1>1, <1>6, <2>1
<1>7. ASSUME vm_mmu_disable, NEW c, code' \in {DisableCode(c), mmu_disable_set_asm(c)} PROVE Spaces'
  <2>1. ~Pending("asid")' /\ ~Pending("ttbr")'
    BY <1>7 DEF Pending, After, DisableCode, mmu_disable_set_asm
  <2> QED BY <1>0, <1>1, <1>7, <2>1 DEF vm_mmu_disable
<1>8. CASE mmu_sync_pte_mods
  <2>1. code' = sync_pte_mods
    BY <1>8 DEF mmu_sync_pte_mods, Call
  <2>2. ~Pending("asid")' /\ ~Pending("ttbr")'
    BY <2>1 DEF Pending, After, sync_pte_mods
  <2> QED BY <1>1, <1>2, <2>1, <2>2, CodeOperands
<1>9. CASE caches_all_on
  <2>1. ~Pending("asid")' /\ ~Pending("ttbr")'
    BY <1>9 DEF caches_all_on, Call, Pending, After, cp15_ctrl_reg1_wr
  <2> QED BY <1>0, <1>1, <1>9, <2>1 DEF caches_all_on
<1>10. CASE UNCHANGED code
  <2>1. ~Pending("asid")' /\ ~Pending("ttbr")' /\ Operands(code', "ctrl") = {}
    BY <1>0, <1>10 DEF Pending, After, Operands
  <2> QED BY <1>1, <1>2, <2>1
<1>11. \A va, pa, v : Fails \/ Load(va, pa) \/ Store(va, pa, v) => UNCHANGED code
  BY DEF Fails, Load, Store
<1> QED BY <1>3, <1>4, <1>5, <1>6, <1>7, <1>8, <1>9, <1>10, <1>11, KernelCalls

LEMMA SpacesStep ==
  ASSUME VmAssumption, Typed, InSync, Phases, Spaces, Next PROVE Spaces'
<1>1. CASE Hardware
  <2>1. UNCHANGED <<code, cp15, stale>>
    BY <1>1, HardwareFrame
  <2>2. WillTranslate' => WillTranslate
    BY <1>1, AheadShrinks DEF WillTranslate
  <2> QED BY <2>1, <2>2 DEF Spaces, Pending, After, Switching
<1> QED BY <1>1, SpacesInstruction, SpacesKernel DEF Next
-----------------------------------------------------------------------------
(* Entries.                                                                *)

\* What vm_map_sec is asked for: the kernel's own section for every address
\* space, and other sections for one.
Complete(va, pte) ==
    pte.tag => IF va = 0 THEN pte = [tag |-> TRUE, nG |-> FALSE, base |-> 0] ELSE pte.nG

StoreAhead(p, i, l) == \E j \in DOMAIN p : i < j /\ p[j][1] = "str" /\ p[j][2] = l

\* An entry stored in part is stored again.
Whole ==
    /\ \A l \in Slots : Complete(l[2], Val(l)) \/ StoreAhead(code, 0, l)
    /\ \A i \in DOMAIN code : code[i][1] = "str" =>
         Complete(code[i][2][2], code[i][3]) \/ StoreAhead(code, i, code[i][2])

LEMMA WholeInit ==
  ASSUME Init PROVE Whole
<1>1. ASSUME NEW l \in Slots PROVE Val(l) = ZeroPte
  <2>1. l \notin DOMAIN dcache /\ DOMAIN wbuf = {}
    BY SlotIsNoCell DEF Init, NoLocs
  <2>2. l \in Locs
    BY DEF Locs
  <2> QED BY <2>1, <2>2 DEF Init, Val, Uncached
<1> QED BY <1>1 DEF Init, Whole, Complete, ZeroPte

LEMMA WholeInstruction ==
  ASSUME Typed, Phases, CacheSafe, Whole, Instruction PROVE Whole'
<1>1. PICK op : Executes(op)
  BY InstructionFrame
<1>2. /\ 1 \in DOMAIN code /\ code[1][1] = op /\ Operand = code[1][2] /\ Head(code) = code[1]
      /\ DOMAIN code \subseteq Nat \ {0} /\ DOMAIN code' \subseteq Nat \ {0}
      /\ \A i \in DOMAIN code' : i + 1 \in DOMAIN code /\ code'[i] = code[i + 1]
      /\ \A i \in DOMAIN code : i # 1 => i - 1 \in DOMAIN code' /\ code'[i - 1] = code[i]
  BY <1>1, Executing DEF Operand
<1>3. ASSUME NEW i \in Nat, NEW l, StoreAhead(code, i + 1, l) PROVE StoreAhead(code', i, l)
  <2>1. PICK j \in DOMAIN code : i + 1 < j /\ code[j][1] = "str" /\ code[j][2] = l
    BY <1>3 DEF StoreAhead
  <2>2. j # 1 /\ i < j - 1
    BY <1>2, <2>1
  <2> QED BY <1>2, <2>1, <2>2 DEF StoreAhead
<1>4. ASSUME NEW l, StoreAhead(code, 0, l), ~(op = "str" /\ Operand = l) PROVE StoreAhead(code, 1, l)
  BY <1>2, <1>4 DEF StoreAhead
<1>5. ASSUME NEW l \in Slots PROVE Complete(l[2], Val(l)') \/ StoreAhead(code', 0, l)
  <2>0. l \in Locs
    BY DEF Locs
  <2>1. CASE STR
    <3>1. op = "str" /\ Val(l)' = IF l = Operand THEN Head(code)[3] ELSE Val(l)
      BY <1>1, <2>0, <2>1, ValInstruction DEF STR, Executes
    <3>2. CASE l = Operand
      <4>1. Complete(l[2], code[1][3]) \/ StoreAhead(code, 1, l)
        BY <1>2, <3>1, <3>2 DEF Whole
      <4>2. Val(l)' = code[1][3]
        BY <1>2, <3>1, <3>2
      <4>3. StoreAhead(code, 0 + 1, l) => StoreAhead(code', 0, l)
        BY <1>3
      <4> QED BY <4>1, <4>2, <4>3
    <3>3. CASE l # Operand
      BY <1>3, <1>4, <3>1, <3>3 DEF Whole
    <3> QED BY <3>2, <3>3
  <2>2. CASE ~STR
    <3>1. op # "str"
      BY <1>1, <2>2 DEF Instruction, DSB, PREFETCH_FLUSH, FLUSH_BTB, INV_TLB, INV_DCACHE,
         CLEAN_INV_DCACHE, RegisterSet, Executes
    <3>2. Val(l)' = Val(l)
      <4>1. ~hot => l \notin DOMAIN dcache
        BY DEF Phases, NoSlots
      <4> QED BY <2>0, <2>2, <4>1, ValInstruction DEF Val
    <3> QED BY <1>3, <1>4, <3>1, <3>2 DEF Whole
  <2> QED BY <2>1, <2>2
<1>6. ASSUME NEW i \in DOMAIN code', code'[i][1] = "str"
      PROVE  Complete(code'[i][2][2], code'[i][3]) \/ StoreAhead(code', i, code'[i][2])
  <2>1. i + 1 \in DOMAIN code /\ code'[i] = code[i + 1] /\ i \in Nat
    BY <1>2
  <2>2. Complete(code'[i][2][2], code'[i][3]) \/ StoreAhead(code, i + 1, code'[i][2])
    BY <1>6, <2>1 DEF Whole
  <2> QED BY <1>3, <2>1, <2>2
<1> QED BY <1>5, <1>6 DEF Whole, Slots

\* Calls store no entries: their instructions do.
LEMMA SlotsKeptByKernel ==
  ASSUME Typed, Phases, CacheSafe, Kernel, NEW l \in Slots PROVE Val(l)' = Val(l)
<1>1. l \in Locs /\ \A pa \in use.data : l # <<pa>>
  BY SlotIsNoCell DEF Locs, Cells
<1> QED BY <1>1, ValKernel

LEMMA WholeKernel ==
  ASSUME VmAssumption, Typed, Phases, CacheSafe, Whole, Kernel PROVE Whole'
<1>1. code = <<>>
  BY KernelFrame
<1>2. \A l \in Slots : Complete(l[2], Val(l)')
  BY <1>1, SlotsKeptByKernel DEF Whole, StoreAhead
<1>3. ASSUME \A i \in DOMAIN code' : code'[i][1] # "str" PROVE Whole'
  BY <1>2, <1>3 DEF Whole, Slots
<1>4. ASSUME NEW t \in Tables, NEW va \in Sections, NEW nG \in BOOLEAN, NEW base \in Sections,
             vm_map_sec(t, va, nG, base), nG <=> va # 0, va = 0 => base = 0
      PROVE  Whole'
  <2> DEFINE l == <<t, va>>
             w == [tag |-> TRUE, nG |-> nG, base |-> base]
  <2>1. \E u, v : code' = << <<"str", l, u>>, <<"str", l, v>>, <<"str", l, w>> >>
    BY <1>4 DEF vm_map_sec, Call
  <2>2. Complete(l[2], w)
    BY <1>4 DEF Complete
  <2> HIDE DEF l, w
  <2>3. \A i \in DOMAIN code' : code'[i][1] = "str" =>
          Complete(code'[i][2][2], code'[i][3]) \/ StoreAhead(code', i, code'[i][2])
    BY <2>1, <2>2 DEF StoreAhead
  <2> QED BY <1>2, <2>3 DEF Whole, Slots
<1>5. ASSUME NEW t, vm_mmu_switch(t) PROVE Whole'
  BY <1>3, <1>5 DEF vm_mmu_switch, Call, cp15_set_procid_ttbr0
<1>6. ASSUME NEW c, code' \in {ResetCode(c), DisableCode(c), mmu_disable_set_asm(c)} PROVE Whole'
  BY <1>3, <1>6 DEF ResetCode, DisableCode, mmu_disable_set_asm
<1>7. CASE vm_mmu_enable
  BY <1>3, <1>7 DEF vm_mmu_enable, Call, mmu_enable_set_asm
<1>8. CASE mmu_sync_pte_mods \/ caches_all_on
  BY <1>3, <1>8 DEF mmu_sync_pte_mods, caches_all_on, Call, sync_pte_mods, cp15_ctrl_reg1_wr
<1>9. \A va, pa, v : Fails \/ Load(va, pa) \/ Store(va, pa, v) => code' = <<>>
  BY <1>1 DEF Fails, Load, Store
<1>10. CASE code' = <<>>
  BY <1>3, <1>10
<1> QED BY <1>4, <1>5, <1>6, <1>7, <1>8, <1>9, <1>10, KernelCalls

LEMMA WholeStep ==
  ASSUME VmAssumption, Typed, Phases, CacheSafe, Whole, Next PROVE Whole'
<1>1. CASE Hardware
  <2>1. UNCHANGED code /\ \A l \in Slots : l \in Locs
    BY <1>1, HardwareFrame DEF Locs
  <2>2. \A l \in Slots : Val(l)' = Val(l)
    BY <1>1, <2>1, ValHardware
  <2> QED BY <2>1, <2>2 DEF Whole, StoreAhead, Slots
<1> QED BY <1>1, WholeInstruction, WholeKernel DEF Next
-----------------------------------------------------------------------------
(* Translations.                                                           *)

Entries == [va : Sections, asid : Asids \cup {0, Global}, pa : Sections]

\* The kernel's own section, a walk in address space 0, or what the table says.
Current(e) ==
    \/ e = [va |-> 0, asid |-> Global, pa |-> 0]
    \/ e.asid = 0
    \/ \E t \in Tables :
         /\ e.asid = AsidOf(t)
         /\ mem[<<t, e.va>>] = [tag |-> TRUE, nG |-> TRUE, base |-> e.pa]

TlbCurrent ==
    /\ tlb \subseteq Entries
    /\ ~Pending("inv_tlb") =>
         /\ inited /\ ~hot => tlb \subseteq doomed
         /\ hot /\ ~unsynced => \A e \in tlb \ doomed : Current(e)
         /\ hot /\ ~unsynced /\ ~NoSlots(wbuf) => tlb \subseteq doomed

LEMMA EntryTyped ==
  ASSUME VmAssumption, NEW va \in Sections, NEW pte \in Pte, NEW a \in Asids \cup {0}
  PROVE  TlbEntry(va, pte, a) \in Entries
BY DEF TlbEntry, Entries, Pte

LEMMA TlbInit ==
  ASSUME VmAssumption, Init PROVE TlbCurrent
<1>1. ZeroPte \in Pte
  BY DEF ZeroPte, Pte, VmAssumption
<1>2. \A va \in Sections : TlbEntry(va, ZeroPte, 0) \in Entries
  BY <1>1, EntryTyped
<1> QED BY <1>2 DEF Init, TlbCurrent

\* A table's entries in memory, once tables are synchronised and drained.
LEMMA InMemory ==
  ASSUME Phases, Settled, Whole, hot, ~unsynced, ~Pending("inv_tlb"), NoSlots(wbuf),
         NEW l \in Slots
  PROVE  Val(l) = mem[l] /\ Complete(l[2], mem[l])
<1>1. Val(l) = mem[l]
  BY DEF Settled, NoSlots, Val, Uncached
<1>2. ~Pending("str")
  BY DEF Phases
<1>3. ~StoreAhead(code, 0, l)
  BY <1>2 DEF StoreAhead, Pending, After
<1> QED BY <1>1, <1>3 DEF Whole

LEMMA TlbHardware ==
  ASSUME VmAssumption, Typed, Phases, Settled, Spaces, Whole, TlbCurrent, Hardware
  PROVE  TlbCurrent'
<1>0. UNCHANGED <<code, inited, hot, unsynced, Slots>> /\ (Pending("inv_tlb")' <=> Pending("inv_tlb"))
  BY HardwareFrame DEF Slots, Pending, After
<1>1. CASE Walk
  <2>1. PICK t \in InEffect("ttbr"), a \in InEffect("asid"), va \in Sections :
          mem[<<t, va>>].tag /\ tlb' = tlb \cup {TlbEntry(va, mem[<<t, va>>], a)}
    BY <1>1 DEF Walk
  <2> DEFINE pte == mem[<<t, va>>]
             e == TlbEntry(va, pte, a)
  <2>2. MayTranslate /\ hot /\ UNCHANGED <<doomed, mem, wbuf>>
    BY <1>1 DEF Walk, MayTranslate, WillTranslate, RegAhead, MmuOn, Phases, memVars
  <2>3. t \in Tables /\ <<t, va>> \in Slots /\ pte \in Pte /\ a \in Asids \cup {0}
    BY DEF Typed, InEffect, Slots
  <2>4. e \in Entries
    BY <2>3, EntryTyped
  <2>5. ASSUME ~unsynced, ~Pending("inv_tlb") PROVE NoSlots(wbuf) /\ Current(e)
    <3>1. NoSlots(wbuf)
      BY <2>2, <2>5 DEF Settled
    <3>2. Complete(va, pte) /\ pte.tag
      BY <2>1, <2>2, <2>3, <2>5, <3>1, InMemory
    <3>3. a \in {0, AsidOf(t)}
      BY SpacesMatch
    <3>4. CASE va = 0
      <4>1. pte = [tag |-> TRUE, nG |-> FALSE, base |-> 0]
        BY <3>2, <3>4 DEF Complete
      <4>2. e = [va |-> 0, asid |-> Global, pa |-> 0]
        BY <3>4, <4>1 DEF TlbEntry
      <4> QED BY <3>1, <4>2 DEF Current
    <3>5. CASE va # 0
      <4>1. pte.nG
        BY <3>2, <3>5 DEF Complete
      <4>2. e.asid = a /\ e.va = va /\ e.pa = pte.base
        BY <4>1 DEF TlbEntry
      <4>3. pte = [tag |-> TRUE, nG |-> TRUE, base |-> pte.base]
        BY <2>3, <3>2, <4>1 DEF Pte
      <4> HIDE DEF e
      <4> QED BY <2>3, <3>1, <3>3, <4>2, <4>3 DEF Current
    <3> QED BY <3>4, <3>5
  <2>6. \A x : Current(x)' <=> Current(x)
    BY <2>2 DEF Current
  <2> HIDE DEF e, pte
  <2>7. tlb' = tlb \cup {e}
    BY <2>1 DEF e, pte
  <2> QED BY <1>0, <2>2, <2>4, <2>5, <2>6, <2>7 DEF TlbCurrent, NoSlots
<1>2. CASE TlbEvict
  <2>1. PICK e \in tlb : tlb' = tlb \ {e} /\ doomed' = doomed \ {e}
    BY <1>2 DEF TlbEvict
  <2>2. UNCHANGED <<mem, wbuf>>
    BY <1>2 DEF TlbEvict, memVars
  <2>3. \A x : Current(x)' <=> Current(x)
    BY <2>2 DEF Current
  <2> QED BY <1>0, <2>1, <2>2, <2>3 DEF TlbCurrent, NoSlots
<1>3. CASE LineEvict \/ Drain
  <2>1. UNCHANGED <<tlb, doomed>> /\ DOMAIN wbuf' \subseteq DOMAIN wbuf
    BY <1>3 DEF LineEvict, Drain, Without
  <2>2. NoSlots(wbuf) => NoSlots(wbuf')
    BY <2>1 DEF NoSlots
  <2>3. ASSUME hot, ~unsynced, ~Pending("inv_tlb"), NoSlots(wbuf), NEW l \in Slots
        PROVE  mem'[l] = mem[l]
    <3>1. l \notin DOMAIN dcache /\ l \notin DOMAIN wbuf /\ l \in DOMAIN mem
      BY <2>3 DEF Settled, NoSlots, Typed, Locs
    <3> QED BY <1>3, <3>1 DEF LineEvict, Drain
  <2>4. ASSUME hot, ~unsynced, ~Pending("inv_tlb"), NoSlots(wbuf), NEW e \in tlb, Current(e)
        PROVE  Current(e)'
    <3>1. \A t \in Tables : <<t, e.va>> \in Slots
      BY <2>4 DEF TlbCurrent, Entries, Slots
    <3> QED BY <2>3, <2>4, <3>1 DEF Current
  <2> QED BY <1>0, <2>1, <2>2, <2>4 DEF TlbCurrent, NoSlots
<1> QED BY <1>1, <1>2, <1>3 DEF Hardware

LEMMA TlbInstruction ==
  ASSUME Typed, Phases, Settled, TlbCurrent, Instruction PROVE TlbCurrent'
<1>0. UNCHANGED <<inited, hot, unsynced, Slots>>
  BY InstructionFrame DEF Slots
<1>1. PICK op : Executes(op)
  BY InstructionFrame
<1>2. op # "inv_tlb" /\ ~Pending("inv_tlb")' => ~Pending("inv_tlb")
  BY <1>1, PendingExecuting
<1>3. CASE INV_TLB
  BY <1>3 DEF INV_TLB, TlbCurrent
<1>4. CASE DSB
  <2>1. /\ op # "inv_tlb" /\ DOMAIN wbuf' = {} /\ tlb' \subseteq tlb
        /\ tlb' \ doomed' = tlb \ doomed /\ (tlb \subseteq doomed => tlb' \subseteq doomed')
    BY <1>1, <1>4 DEF DSB, Executes, NoLocs
  <2>2. ASSUME NoSlots(wbuf), NEW e \in tlb, Current(e) PROVE Current(e)'
    <3>1. \A t \in Tables : <<t, e.va>> \in Slots
      BY <2>2 DEF TlbCurrent, Entries, Slots
    <3>2. \A l \in Slots : l \in Locs /\ mem'[l] = mem[l]
      BY <1>4, <2>2 DEF DSB, Over, NoSlots, Locs, Typed
    <3> QED BY <2>2, <3>1, <3>2 DEF Current
  <2> QED BY <1>0, <1>2, <2>1, <2>2 DEF TlbCurrent, NoSlots
<1>5. CASE STR
  <2>1. hot => unsynced
    <3>1. Pending("str")
      BY <1>5, Executing DEF STR, Pending, After
    <3> QED BY <3>1 DEF Phases
  <2>2. op # "inv_tlb" /\ UNCHANGED <<tlb, doomed>>
    BY <1>1, <1>5 DEF STR, Executes
  <2> QED BY <1>0, <1>2, <2>1, <2>2 DEF TlbCurrent
<1>6. CASE PREFETCH_FLUSH \/ FLUSH_BTB \/ INV_DCACHE \/ CLEAN_INV_DCACHE \/ RegisterSet
  <2>1. op # "inv_tlb" /\ UNCHANGED <<tlb, doomed, mem>>
    BY <1>1, <1>6 DEF PREFETCH_FLUSH, FLUSH_BTB, INV_DCACHE, CLEAN_INV_DCACHE, RegisterSet,
       Executes, memVars
  <2>2. DOMAIN wbuf' \subseteq DOMAIN wbuf \cup DOMAIN dcache
    BY <1>6 DEF PREFETCH_FLUSH, FLUSH_BTB, INV_DCACHE, CLEAN_INV_DCACHE, RegisterSet, memVars,
       Over, WrittenBack
  <2>3. hot /\ ~unsynced /\ ~Pending("inv_tlb") => NoSlots(dcache)
    BY DEF Settled
  <2>4. \A e : Current(e)' <=> Current(e)
    BY <2>1 DEF Current
  <2> QED BY <1>0, <1>2, <2>1, <2>2, <2>3, <2>4 DEF TlbCurrent, NoSlots
<1> QED BY <1>3, <1>4, <1>5, <1>6 DEF Instruction

LEMMA TlbKernel ==
  ASSUME VmAssumption, Typed, TlbCurrent, Kernel PROVE TlbCurrent'
<1>0. UNCHANGED <<tlb, doomed, mem, Slots>> /\ ~Pending("inv_tlb")
  BY KernelFrame DEF Slots, Pending, After
<1>1. \A e : Current(e)' <=> Current(e)
  BY <1>0 DEF Current
<1>2. CASE UNCHANGED <<inited, hot, unsynced>> /\ (NoSlots(wbuf) => NoSlots(wbuf'))
  BY <1>0, <1>1, <1>2 DEF TlbCurrent, NoSlots
<1>3. CASE Pending("inv_tlb")'
  BY <1>0, <1>3 DEF TlbCurrent
<1>4. CASE vm_mmu_init /\ code' = ResetCode(cp15.ctrl \cup {"XP_pt"})
  BY <1>3, <1>4 DEF Pending, After, ResetCode
<1>5. CASE mmu_sync_pte_mods
  BY <1>3, <1>5 DEF mmu_sync_pte_mods, Call, sync_pte_mods, Pending, After
<1>6. ASSUME NEW t, NEW va, NEW nG, NEW base, vm_map_sec(t, va, nG, base) PROVE TlbCurrent'
  BY <1>0, <1>6 DEF vm_map_sec, TlbCurrent
<1>7. CASE inited /\ vm_mmu_enable
  <2>1. UNCHANGED <<wbuf, inited, unsynced>>
    BY <1>7 DEF vm_mmu_enable, Call, memVars
  <2>2. NoSlots(wbuf)' <=> NoSlots(wbuf)
    BY <1>0, <2>1 DEF NoSlots
  <2>3. CASE hot
    BY <1>0, <1>1, <2>1, <2>2, <2>3, <1>7 DEF TlbCurrent, vm_mmu_enable
  <2>4. CASE ~hot
    BY <1>0, <1>7, <2>4 DEF TlbCurrent
  <2> QED BY <2>3, <2>4
<1>8. CASE vm_mmu_disable \/ caches_all_on \/ Fails \/ \E t : vm_mmu_switch(t)
  BY <1>2, <1>8 DEF vm_mmu_disable, caches_all_on, Fails, vm_mmu_switch, Call, memVars, ghosts
<1>9. ASSUME NEW va, NEW pa \in use.data, NEW v, Load(va, pa) \/ Store(va, pa, v)
      PROVE  TlbCurrent'
  <2>1. <<pa>> \notin Slots
    BY SlotIsNoCell DEF Cells
  <2>2. DOMAIN wbuf' \subseteq DOMAIN wbuf \cup {<<pa>>} /\ UNCHANGED <<inited, hot, unsynced>>
    BY <1>9 DEF Load, Store, StoreTo, Put, ghosts
  <2> QED BY <1>2, <2>1, <2>2 DEF NoSlots
<1> QED BY <1>4, <1>5, <1>6, <1>7, <1>8, <1>9, KernelCalls

LEMMA TlbStep ==
  ASSUME VmAssumption, Typed, Phases, Settled, Spaces, Whole, TlbCurrent, Next
  PROVE  TlbCurrent'
BY TlbHardware, TlbInstruction, TlbKernel DEF Next

\* What the TLB gives the kernel is what its table says.
LEMMA NothingStale ==
  ASSUME VmAssumption, Typed, InSync, Phases, CacheSafe, KernelMapped, Settled, Spaces, Whole,
         TlbCurrent
  PROVE  TranslationsCurrent
<1> SUFFICES ASSUME Idle, mmu_is_enabled, ~unsynced, NEW e \in tlb, NEW va \in Sections,
                    Hits(e, va, cp15.asid)
             PROVE  /\ CpuView(<<cp15.ttbr, va>>).tag
                    /\ e = TlbEntry(va, CpuView(<<cp15.ttbr, va>>), cp15.asid)
  BY DEF TranslationsCurrent
<1> DEFINE t == cp15.ttbr
           l == <<t, va>>
<1>1. code = <<>> /\ \A op : ~Pending(op)
  BY DEF Idle, Pending, After
<1>2. doomed = {} /\ WillTranslate
  BY <1>1, IdleInEffect DEF InSync
<1>3. hot /\ inited
  BY <1>2 DEF Phases
<1>4. NoSlots(wbuf)
  BY <1>1, <1>3 DEF Settled, DsbAhead
<1>5. t \in Tables /\ l \in Slots /\ mem[l] \in Pte
  BY DEF Typed, Slots
<1>6. CpuView(l) = mem[l] /\ Complete(va, mem[l])
  BY <1>1, <1>3, <1>4, <1>5, InMemory, ViewIsVal
<1>7. cp15.asid = AsidOf(t) /\ cp15.asid \in 1..63
  BY <1>1, <1>2, <1>5, SpacesIdle DEF VmAssumption
<1>8. Current(e) /\ e \in Entries /\ e.va = va /\ e.asid \in {Global, cp15.asid}
  BY <1>1, <1>2, <1>3 DEF TlbCurrent, Hits
<1>9. CASE e = [va |-> 0, asid |-> Global, pa |-> 0]
  <2>1. va = 0
    BY <1>8, <1>9
  <2>2. t \in RegAhead("ttbr")
    BY DEF RegAhead, InEffect
  <2>3. Val(l).tag
    BY <1>2, <2>1, <2>2 DEF KernelMapped
  <2>4. mem[l].tag
    BY <1>1, <1>3, <1>6, <2>3, ViewIsVal
  <2>5. mem[l] = [tag |-> TRUE, nG |-> FALSE, base |-> 0]
    BY <1>6, <2>1, <2>4 DEF Complete
  <2> HIDE DEF l
  <2>6. e = TlbEntry(va, mem[l], cp15.asid)
    BY <1>9, <2>1, <2>5 DEF TlbEntry
  <2> QED BY <1>6, <2>4, <2>6 DEF l
<1>10. CASE e.asid = 0
  BY <1>7, <1>8, <1>10 DEF Global
<1>11. ASSUME NEW u \in Tables, e.asid = AsidOf(u),
              mem[<<u, e.va>>] = [tag |-> TRUE, nG |-> TRUE, base |-> e.pa]
       PROVE  mem[l].tag /\ e = TlbEntry(va, mem[l], cp15.asid)
  <2>1. AsidOf(u) \in 1..63
    BY DEF VmAssumption
  <2>2. e.asid = cp15.asid /\ u = t
    BY <1>5, <1>7, <1>8, <1>11, <2>1 DEF VmAssumption, Global
  <2>3. mem[l] = [tag |-> TRUE, nG |-> TRUE, base |-> e.pa]
    BY <1>8, <1>11, <2>2
  <2>4. e = [va |-> e.va, asid |-> e.asid, pa |-> e.pa]
    BY <1>8 DEF Entries
  <2> HIDE DEF l
  <2> QED BY <1>8, <2>2, <2>3, <2>4 DEF TlbEntry
<1> QED BY <1>6, <1>8, <1>9, <1>10, <1>11 DEF Current
-----------------------------------------------------------------------------
(* Contents.                                                               *)

\* Each section contains what was last stored in it: in memory while the data
\* cache has still to be reset, wherever it is after that.
Values ==
    /\ DOMAIN last = use.data
    /\ \A s \in use.data :
         last[s] = IF inited /\ ~Pending("inv_dcache") THEN Val(<<s>>) ELSE Uncached(<<s>>)

LEMMA CellsAreLocs ==
  ASSUME NEW s \in use.data
  PROVE  <<s>> \in Locs /\ <<s>> \notin Slots
BY SlotIsNoCell DEF Cells, Locs

LEMMA ValuesInit ==
  ASSUME Init PROVE Values
<1>1. \A s \in use.data : <<s>> \in Locs /\ <<s>> \notin Slots
  BY CellsAreLocs
<1> QED BY <1>1 DEF Init, Values, Uncached, NoLocs

LEMMA ValuesHardware ==
  ASSUME Typed, Phases, CacheSafe, Values, Hardware, UNCHANGED use PROVE Values'
<1>1. UNCHANGED <<last, inited, code>> /\ (Pending("inv_dcache")' <=> Pending("inv_dcache"))
  BY HardwareFrame DEF Pending, After
<1>2. \A s \in use.data : Val(<<s>>)' = Val(<<s>>)
  BY CellsAreLocs, ValHardware
<1>3. ASSUME ~(inited /\ ~Pending("inv_dcache")), NEW s \in use.data
      PROVE  Uncached(<<s>>)' = Uncached(<<s>>)
  <2>1. ~LineEvict
    BY <1>3, CachesAreOn DEF LineEvict, Phases, CacheSafe
  <2> QED BY <2>1, CellsAreLocs, UncachedKept DEF Hardware
<1> QED BY <1>1, <1>2, <1>3 DEF Values

LEMMA ValuesInstruction ==
  ASSUME Typed, Phases, CacheSafe, Values, Instruction, UNCHANGED use PROVE Values'
<1>1. PICK op : Executes(op)
  BY InstructionFrame
<1>2. inited /\ UNCHANGED <<last, inited>> /\ ~Pending("inv_dcache")'
  BY <1>1, InstructionFrame, PlainExecuting DEF Phases, CacheSafe, Executes
<1>3. ASSUME NEW s \in use.data PROVE Val(<<s>>)' = last[s]
  <2>0. <<s>> \in Locs /\ <<s>> \notin Slots
    BY CellsAreLocs
  <2>1. CASE INV_DCACHE
    <3>1. Pending("inv_dcache")
      BY <2>1, Executing DEF INV_DCACHE, Pending, After
    <3> QED BY <2>0, <2>1, <3>1, ValInstruction DEF Values
  <2>2. CASE ~INV_DCACHE
    <3>1. op # "inv_dcache"
      BY <1>1, <2>2 DEF Instruction, DSB, PREFETCH_FLUSH, FLUSH_BTB, INV_TLB, STR,
         CLEAN_INV_DCACHE, RegisterSet, Executes
    <3>2. ~Pending("inv_dcache")
      BY <1>1, <3>1, PlainExecuting DEF CacheSafe
    <3>3. STR => Operand # <<s>>
      BY <2>0, Executing DEF STR
    <3> QED BY <1>2, <2>0, <2>2, <3>2, <3>3, ValInstruction DEF Values
  <2> QED BY <2>1, <2>2
<1> QED BY <1>2, <1>3 DEF Values

\* A store changes the section it translates to and no other.
LEMMA ValStore ==
  ASSUME CacheSafe, inited, code = <<>>, NEW va, NEW pa, NEW v, Store(va, pa, v), NEW l
  PROVE  Val(l)' = IF l = <<pa>> THEN v ELSE Val(l)
<1>1. StoreTo(<<pa>>, v) /\ mem' = mem /\ ~Pending("inv_dcache")
  BY DEF Store, Pending, After
<1>2. ~UsesCache(<<pa>>) => <<pa>> \notin DOMAIN dcache
  BY <1>1 DEF CacheSafe, UsesCache
<1> QED BY <1>1, <1>2 DEF StoreTo, Put, Val, Uncached

\* With the table and the TLB in agreement, the section stored to is the one mapped.
LEMMA StoreGoesHome ==
  ASSUME TranslationsCurrent, ~unsynced, NEW va \in Sections, NEW pa, NEW v, Store(va, pa, v)
  PROVE  last' = [last EXCEPT ![pa] = v]
<1>1. CASE mmu_is_enabled
  <2>1. PICK e \in tlb : Hits(e, va, cp15.asid) /\ e.pa = pa
    BY <1>1 DEF Store, Translates
  <2>2. e = TlbEntry(va, CpuView(<<cp15.ttbr, va>>), cp15.asid)
    BY <1>1, <2>1 DEF TranslationsCurrent, Store
  <2>3. CpuView(<<cp15.ttbr, va>>).base = pa
    BY <2>1, <2>2 DEF TlbEntry
  <2> QED BY <1>1, <2>3 DEF Store
<1>2. CASE ~mmu_is_enabled
  BY <1>2 DEF Store, Translates
<1> QED BY <1>1, <1>2

LEMMA ValuesKernel ==
  ASSUME VmAssumption, Typed, Phases, CacheSafe, TranslationsCurrent, Values, Kernel, UNCHANGED use
  PROVE  Values'
<1>0. code = <<>> /\ ~Pending("inv_dcache")
  BY KernelFrame DEF Pending, After
<1>1. CASE ~inited /\ vm_mmu_init /\ code' = ResetCode(cp15.ctrl \cup {"XP_pt"})
  <2>1. Pending("inv_dcache")'
    BY <1>1 DEF Pending, After, ResetCode
  <2>2. UNCHANGED <<last, wbuf, mem>>
    BY <1>1 DEF vm_mmu_init, Call, memVars
  <2> QED BY <1>1, <2>1, <2>2 DEF Values, Uncached
<1>2. ASSUME inited, ~unsynced, NEW va \in Sections, NEW pa \in use.data, NEW v, Store(va, pa, v)
      PROVE  Values'
  <2>1. last' = [last EXCEPT ![pa] = v]
    BY <1>2, StoreGoesHome
  <2>2. UNCHANGED <<code, inited>>
    BY <1>2 DEF Store
  <2>3. \A s : Val(<<s>>)' = IF <<s>> = <<pa>> THEN v ELSE Val(<<s>>)
    BY <1>0, <1>2, ValStore
  <2>4. ~Pending("inv_dcache")'
    BY <1>0, <2>2 DEF Pending, After
  <2> QED BY <1>0, <1>2, <2>1, <2>2, <2>3, <2>4 DEF Values
<1> DEFINE NoStore == unsynced \/ \A va \in Sections \ {0}, pa \in use.data, v \in Vals : ~Store(va, pa, v)
<1>3. ASSUME inited, NoStore, ~Pending("inv_dcache")', UNCHANGED <<inited, last>>
      PROVE  Values'
  <2>1. \A s \in use.data : Val(<<s>>)' = Val(<<s>>)
    BY <1>3, CellsAreLocs, ValKernel
  <2> QED BY <1>0, <1>3, <2>1 DEF Values
<1> DEFINE Kept == ~Pending("inv_dcache")' /\ UNCHANGED <<inited, last>>
<1>4. ASSUME inited, NoStore
      PROVE  Kept
  <2>1. ASSUME NEW t, NEW va, NEW nG, NEW base, vm_map_sec(t, va, nG, base)
        PROVE  Kept
    BY <2>1 DEF vm_map_sec, Call, Pending, After
  <2>2. ASSUME NEW t, vm_mmu_switch(t) PROVE Kept
    BY <2>2 DEF vm_mmu_switch, Call, ghosts, Pending, After, cp15_set_procid_ttbr0
  <2>3. ASSUME vm_mmu_disable, NEW c, code' \in {DisableCode(c), mmu_disable_set_asm(c)}
        PROVE  Kept
    <3>1. ~Pending("inv_dcache")'
      BY <2>3 DEF Pending, After, DisableCode, mmu_disable_set_asm
    <3> QED BY <2>3, <3>1 DEF vm_mmu_disable, ghosts
  <2>4. CASE vm_mmu_enable
    BY <2>4 DEF vm_mmu_enable, Call, Pending, After, mmu_enable_set_asm
  <2>5. CASE mmu_sync_pte_mods
    BY <2>5 DEF mmu_sync_pte_mods, Call, Pending, After, sync_pte_mods
  <2>6. CASE caches_all_on
    BY <2>6 DEF caches_all_on, Call, ghosts, Pending, After, cp15_ctrl_reg1_wr
  <2>7. ASSUME NEW va, NEW pa, Load(va, pa)
        PROVE  Kept
    BY <1>0, <2>7 DEF Load, ghosts, Pending, After
  <2>8. CASE Fails
    BY <1>0, <2>8 DEF Fails, ghosts, Pending, After
  <2> HIDE DEF Kept
  <2> QED BY <1>4, <2>1, <2>2, <2>3, <2>4, <2>5, <2>6, <2>7, <2>8, KernelCalls
<1>5. CASE ~inited
  BY <1>1, <1>5, KernelCalls
<1>6. CASE inited /\ ~NoStore
  BY <1>2, <1>6
<1> HIDE DEF NoStore
<1> QED BY <1>3, <1>4, <1>5, <1>6

LEMMA ValuesStep ==
  ASSUME VmAssumption, Typed, Phases, CacheSafe, TranslationsCurrent, Values, Next PROVE Values'
BY ValuesHardware, ValuesInstruction, ValuesKernel DEF Next
-----------------------------------------------------------------------------
(* The invariant.                                                          *)

\* What is ahead, what is where in memory, the cache and the write buffer, and
\* what the TLB may give.
MemoryInv ==
    /\ Typed /\ InSync /\ Phases /\ CacheSafe
    /\ KernelMapped /\ KernelInMemory /\ Settled
    /\ Spaces /\ Whole /\ TlbCurrent /\ Values

LEMMA MemoryFrame ==
  ASSUME MemoryInv, UNCHANGED vars PROVE MemoryInv'
<1>1. UNCHANGED <<use, code, cp15, stale, btb, tlb, doomed, dcache, wbuf, mem, inited, hot, unsynced, last>>
  BY DEF vars, cpuVars, memVars, ghosts
<1>2. UNCHANGED Slots /\ Cells' = Cells /\ Locs' = Locs
  BY <1>1 DEF Cells, Locs, Slots
<1>3. Typed' /\ InSync'
  BY <1>1, <1>2 DEF MemoryInv, Typed, InSync, Pending, After, mmu_is_enabled
<1>4. /\ \A reg : InEffect(reg)' = InEffect(reg) /\ RegAhead(reg)' = RegAhead(reg)
      /\ \A l : Val(l)' = Val(l) /\ Cachable(l)' = Cachable(l) /\ Uncached(l)' = Uncached(l)
      /\ \A op : Pending(op)' <=> Pending(op)
      /\ CachesOn' <=> CachesOn
  BY <1>1, <1>2 DEF InEffect, RegAhead, Operands, Val, Uncached, Cachable, Pending, After, CachesOn
<1>5. (WillTranslate' <=> WillTranslate) /\ (MayTranslate' <=> MayTranslate)
  BY <1>4 DEF WillTranslate, MayTranslate
<1>6. Phases' /\ KernelMapped'
  BY <1>1, <1>2, <1>4, <1>5 DEF MemoryInv, Phases, KernelMapped, NoSlots
<1>7. CacheSafe'
  BY <1>1, <1>4 DEF MemoryInv, CacheSafe
<1>8. KernelInMemory' /\ Settled'
  BY <1>1, <1>2, <1>4, <1>5
  DEF MemoryInv, KernelInMemory, Settled, NoSlots, DsbAhead, CleanAhead, Uses0
<1>9. Spaces' /\ Whole' /\ Values'
  <2>1. Spaces'
    BY <1>1, <1>4, <1>5 DEF MemoryInv, Spaces, Switching
  <2>2. Whole'
    BY <1>1, <1>2, <1>4 DEF MemoryInv, Whole, StoreAhead
  <2>3. Values'
    BY <1>1, <1>4 DEF MemoryInv, Values
  <2> QED BY <2>1, <2>2, <2>3
<1>10. TlbCurrent'
  <2>1. \A e : Current(e)' <=> Current(e)
    BY <1>1 DEF Current
  <2> QED BY <1>1, <1>2, <1>4, <2>1 DEF MemoryInv, TlbCurrent, NoSlots
<1> QED BY <1>3, <1>6, <1>7, <1>8, <1>9, <1>10 DEF MemoryInv

LEMMA MemoryInvariant ==
  Spec => []MemoryInv
<1>1. Init => MemoryInv
  <2> SUFFICES ASSUME Init PROVE MemoryInv
    OBVIOUS
  <2>1. Settled
    BY DEF Init, Settled
  <2> QED BY <2>1, VmAssumption, TypedInit, InSyncInit, PhasesInit, CacheInit, KernelMappedInit,
             KernelInMemoryInit, SpacesInit, WholeInit, TlbInit, ValuesInit DEF MemoryInv
<1>2. MemoryInv /\ [Next]_vars => MemoryInv'
  <2>1. ASSUME MemoryInv, Next PROVE MemoryInv'
    <3>1. Typed' /\ InSync' /\ Phases' /\ CacheSafe' /\ KernelMapped' /\ KernelInMemory' /\ Settled'
      BY <2>1, VmAssumption, TypedStep, InSyncStep, PhasesStep, CacheStep, KernelMappedStep,
         KernelInMemoryStep, SettledStep DEF MemoryInv
    <3>2. Spaces' /\ Whole' /\ TlbCurrent'
      BY <2>1, VmAssumption, SpacesStep, WholeStep, TlbStep DEF MemoryInv
    <3>3. Values'
      BY <2>1, VmAssumption, NothingStale, ValuesStep DEF MemoryInv
    <3> QED BY <3>1, <3>2, <3>3 DEF MemoryInv
  <2> QED BY <2>1, MemoryFrame
<1> QED BY <1>1, <1>2, PTL DEF Spec

\* A walk through any table that may be in effect finds the kernel, also while
\* address spaces are switched and the MMU comes on (pt-vm.c:210-227,
\* your-mmu-asm.S:131, 216).
THEOREM KernelAlwaysReachable == Spec => []KernelReachable
<1>1. MemoryInv => KernelReachable
  <2> SUFFICES ASSUME MemoryInv, 0 \in use.cached => Idle /\ ~unsynced, MayTranslate,
                      NEW t \in InEffect("ttbr")
               PROVE  mem[<<t, 0>>].tag
    BY DEF KernelReachable, MayTranslate, MmuOn
  <2>1. CASE 0 \notin use.cached
    BY <2>1 DEF MemoryInv, KernelInMemory
  <2>2. CASE 0 \in use.cached
    <3>1. code = <<>> /\ ~unsynced
      BY <2>2 DEF Idle
    <3>2. WillTranslate /\ t \in RegAhead("ttbr") /\ t \in Tables
      BY RegAheadTables DEF MemoryInv, MayTranslate, WillTranslate, RegAhead
    <3>3. hot /\ Val(<<t, 0>>).tag /\ <<t, 0>> \in Slots
      BY <3>2, SlotsAreLocs, VmAssumption DEF MemoryInv, Phases, KernelMapped, VmAssumption
    <3>4. NoSlots(dcache) /\ NoSlots(wbuf)
      BY <3>1, <3>3 DEF MemoryInv, Settled, Pending, After, DsbAhead
    <3> QED BY <3>3, <3>4 DEF Val, Uncached, NoSlots
  <2> QED BY <2>1, <2>2
<1> QED BY <1>1, MemoryInvariant, PTL

\* After mmu_sync_pte_mods the TLB gives no translation that the current table
\* does not give, whatever was walked before, between and after the stores of
\* vm_map_sec and in a switch (your-mmu-asm.S:127-153, 237-251, pt-vm.c:91-111).
THEOREM NoTranslationIsStale == Spec => []TranslationsCurrent
<1>1. MemoryInv => TranslationsCurrent
  BY VmAssumption, NothingStale DEF MemoryInv
<1> QED BY <1>1, MemoryInvariant, PTL

\* No store is lost or undone when caches and MMU go on and off: a section reads
\* as what was last stored in it (mmu.c:33-45, your-mmu-asm.S:64-101, 156-191).
THEOREM StoresAreKept == Spec => []NoLostWrites
<1>1. MemoryInv => NoLostWrites
  <2> SUFFICES ASSUME MemoryInv, Idle, inited, NEW s \in use.data
               PROVE  CpuView(<<s>>) = last[s]
    BY DEF NoLostWrites
  <2>1. ~Pending("inv_dcache")
    BY DEF Idle, Pending, After
  <2> QED BY <2>1, ViewIsVal DEF MemoryInv, Values
<1> QED BY <1>1, MemoryInvariant, PTL
=============================================================================
