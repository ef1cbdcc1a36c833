------------------------------- MODULE VmProofs ------------------------------
(***************************************************************************)
(* Theorems about the specification of VmPrograms.                         *)
(*                                                                         *)
(* Every entry of every table is what vm_map_sec makes of the mapping that *)
(* was last asked for, or what an allocation leaves; what the hardware     *)
(* does with it is then a fact about Pte alone, which the lemmas on        *)
(* entries below establish from the layout of the attributes.              *)
(***************************************************************************)
EXTENDS VmPrograms, TLAPS

EntryOf(w) == IF w = None THEN ZeroPte ELSE Pte(w.pa, w.attr)

TodoInv == todo \in Seq(AllCalls) /\ panicked \in BOOLEAN

HeapInv ==
    /\ heap \in [start : Nat, nbytes : Nat, next : Nat]
    /\ heap.start + heap.nbytes >= heap.next

TableInv ==
    /\ want \in [Tables -> [Sections -> Mapping \cup {None}]]
    /\ pts = [pt \in Tables |-> [va \in Sections |-> EntryOf(want[pt][va])]]

ControlInv ==
    /\ cp15 \in [mmu : BOOLEAN, caches : BOOLEAN, asid : 0..63, ttbr : Tables]
    /\ domain_reg \in DomainReg

CacheInv ==
    /\ DOMAIN dcache \subseteq Sections /\ icache \subseteq Sections
    /\ \A pa \in DOMAIN dcache : dcache[pa] \in Vals
    /\ ram \in [Sections -> Vals]

VmInv == TodoInv /\ HeapInv /\ TableInv /\ ControlInv /\ CacheInv
-----------------------------------------------------------------------------
(* Entries.                                                                *)

LEMMA Powers == 2^0 = 1 /\ 2^1 = 2 /\ 2^2 = 4 /\ 2^3 = 8 /\ 2^4 = 16 /\ 2^12 = 4096
OBVIOUS

LEMMA Bits ==
  ASSUME NEW x \in {0, 1, 2, 3, 4, 5, 7}
  PROVE  /\ bits_get(x, 0, 0) = (IF x \in {1, 3, 5, 7} THEN 1 ELSE 0)
         /\ bits_get(x, 1, 1) = (IF x \in {2, 3, 7} THEN 1 ELSE 0)
         /\ bits_get(x, 2, 2) = (IF x \in {4, 5, 7} THEN 1 ELSE 0)
         /\ bits_get(x, 0, 1) = (IF x \in {4, 5, 7} THEN x - 4 ELSE x)
         /\ bits_get(x, 2, 4) = (IF x \in {4, 5, 7} THEN 1 ELSE 0)
<1>1. /\ bits_get(x, 0, 0) = (x \div 1) % 2 /\ bits_get(x, 1, 1) = (x \div 2) % 2
      /\ bits_get(x, 2, 2) = (x \div 4) % 2 /\ bits_get(x, 0, 1) = (x \div 1) % 4
      /\ bits_get(x, 2, 4) = (x \div 4) % 8
  <2>1. /\ 0 - 0 + 1 = 1 /\ 1 - 1 + 1 = 1 /\ 2 - 2 + 1 = 1 /\ 1 - 0 + 1 = 2 /\ 4 - 2 + 1 = 3
    OBVIOUS
  <2> QED BY <2>1, Powers DEF bits_get
<1> QED BY <1>1

\* What vm_map_sec stores fits the fields and keeps all of the mapping.
LEMMA EntryFields ==
  ASSUME NEW w \in Mapping
  PROVE  LET e == Pte(w.pa, w.attr)
         IN  /\ e.tag = 2 /\ e.sec_base_addr = w.pa /\ w.pa \in 0..4095
             /\ e.domain = w.attr.dom /\ w.attr.dom \in 0..15
             /\ e.XN = 0
             /\ e.nG \in {0, 1} /\ (e.nG = 1 <=> w.attr.asid # 0)
<1>1. /\ w.pa \in 0..4095 /\ w.attr \in Pin /\ pin_mk_demands(w.attr)
  <2>1. w.pa \in Sections
    BY DEF Mapping
  <2>2. ASSUME NEW pa \in Sections PROVE pa \in 0..4095
    BY VmAssumption
  <2>3. w.pa \in 0..4095
    BY <2>1, <2>2
  <2>4. w.attr \in Pin /\ pin_mk_demands(w.attr)
    BY DEF Mapping
  <2> QED BY <2>3, <2>4
<1>2. /\ w.attr.dom \in 0..15 /\ w.attr.G \in {0, 1}
      /\ w.attr.G = 1 => w.attr.asid = 0
      /\ w.attr.G # 1 => w.attr.asid \in 1..63
  BY <1>1 DEF Pin, pin_mk_demands
<1>3. w.attr.dom % 16 = w.attr.dom
  BY <1>2
<1> QED BY <1>1, <1>2, <1>3, SMTT(20) DEF Pte

LEMMA EntryMemory ==
  ASSUME NEW w \in Mapping
  PROVE  LET e == Pte(w.pa, w.attr)
         IN  /\ TEX_C_B(e.TEX, e.C, e.B) = w.attr.mem_attr
             /\ e.TEX \in 0..1 /\ e.C \in 0..1 /\ e.B \in 0..1
<1>1. w.attr.mem_attr \in {0, 2, 3, 4, 7}
  BY DEF Mapping, Pin, MemTypes, MEM_device, MEM_uncached, MEM_wb_noalloc, MEM_wt_noalloc,
     MEM_wb_alloc, TEX_C_B
<1> DEFINE x == w.attr.mem_attr
<1>2. /\ Pte(w.pa, w.attr).TEX = bits_get(x, 2, 4)
      /\ Pte(w.pa, w.attr).C = bits_get(x, 1, 1)
      /\ Pte(w.pa, w.attr).B = bits_get(x, 0, 0)
  BY DEF Pte
<1>3. x \in {0, 1, 2, 3, 4, 5, 7}
  BY <1>1
<1> HIDE DEF x
<1>4. /\ bits_get(x, 0, 0) = (IF x \in {1, 3, 5, 7} THEN 1 ELSE 0)
      /\ bits_get(x, 1, 1) = (IF x \in {2, 3, 7} THEN 1 ELSE 0)
      /\ bits_get(x, 2, 4) = (IF x \in {4, 5, 7} THEN 1 ELSE 0)
  BY <1>3, Bits
<1> QED BY <1>1, <1>2, <1>4 DEF TEX_C_B, x

LEMMA EntryRights ==
  ASSUME NEW w \in Mapping
  PROVE  LET e == Pte(w.pa, w.attr)
         IN  /\ e.AP \in 0..3 /\ e.APX \in 0..1
             /\ \A mode \in {"usr", "svc"}, access \in {"fetch", "read", "write"} :
                  Permits(e, mode, access) <=> Allowed(w.attr.AP_perm, mode, access)
<1> DEFINE p == w.attr.AP_perm
           e == Pte(w.pa, w.attr)
<1>1. p \in {0, 1, 2, 3, 5}
  BY DEF Mapping, pin_mk_demands, mem_perm_islegal, perm_rw_user, perm_ro_user, perm_rw_priv,
     perm_ro_priv, perm_na_priv
<1>2. e.AP = bits_get(p, 0, 1) /\ e.APX = bits_get(p, 2, 2)
  BY DEF Pte
<1> HIDE DEF p, e
<1>3. /\ e.AP = (IF p = 5 THEN 1 ELSE p)
      /\ e.APX = (IF p = 5 THEN 1 ELSE 0)
  <2>1. p \in {0, 1, 2, 3, 4, 5, 7}
    BY <1>1
  <2> QED BY <1>1, <1>2, <2>1, Bits
<1>4. e.AP \in 0..3 /\ e.APX \in 0..1
  BY <1>1, <1>3
<1>5. ASSUME NEW mode \in {"usr", "svc"}, NEW access \in {"fetch", "read", "write"}
      PROVE  Permits(e, mode, access) <=> Allowed(p, mode, access)
  BY <1>1, <1>3 DEF Permits, Allowed, perm_rw_user, perm_ro_user, perm_rw_priv, perm_ro_priv
<1> QED BY <1>4, <1>5 DEF p, e

\* No field has more than its bits.
LEMMA EntryWidths ==
  ASSUME NEW w \in Mapping \cup {None}, NEW f \in DOMAIN PteWidths
  PROVE  EntryOf(w)[f] \in 0..(2^PteWidths[f] - 1)
<1>1. DOMAIN PteWidths = {"tag", "B", "C", "XN", "domain", "AP", "TEX", "APX", "nG", "sec_base_addr"}
  BY DEF PteWidths
<1>2. 1 = 2^0 /\ 2 = 2^1 /\ 4 = 2^2 /\ 8 = 2^3 /\ 16 = 2^4 /\ 4096 = 2^12
  BY Powers
<1> DEFINE max == 2^PteWidths[f] - 1
           last == 4095
<1>3. /\ f \in {"B", "C", "XN", "APX", "nG"} => max = 1
      /\ f \in {"tag", "AP"} => max = 3
      /\ f = "TEX" => max = 7
      /\ f = "domain" => max = 15
      /\ f = "sec_base_addr" => max = last
  <2>1. ASSUME f \in {"B", "C", "XN", "APX", "nG"} PROVE max = 1
    <3>1. PteWidths[f] = 1
      BY <2>1 DEF PteWidths
    <3>2. max = 2^1 - 1
      BY <3>1, Zenon
    <3> QED BY <3>2, <1>2
  <2>2. ASSUME f \in {"tag", "AP"} PROVE max = 3
    <3>1. PteWidths[f] = 2
      BY <2>2 DEF PteWidths
    <3>2. max = 2^2 - 1
      BY <3>1, Zenon
    <3> QED BY <3>2, <1>2
  <2>3. ASSUME f = "TEX" PROVE max = 7
    <3>1. PteWidths[f] = 3
      BY <2>3 DEF PteWidths
    <3>2. max = 2^3 - 1
      BY <3>1, Zenon
    <3> QED BY <3>2, <1>2
  <2>4. ASSUME f = "domain" PROVE max = 15
    <3>1. PteWidths[f] = 4
      BY <2>4 DEF PteWidths
    <3>2. max = 2^4 - 1
      BY <3>1, Zenon
    <3> QED BY <3>2, <1>2
  <2>5. ASSUME f = "sec_base_addr" PROVE max = last
    <3>1. PteWidths[f] = 12
      BY <2>5 DEF PteWidths
    <3>2. max = 2^12 - 1
      BY <3>1, Zenon
    <3> QED BY <3>2, <1>2
  <2> QED BY <2>1, <2>2, <2>3, <2>4, <2>5
<1> HIDE DEF max, last
<1>4. CASE w = None
  <2>1. EntryOf(w)[f] = 0
    BY <1>4 DEF EntryOf, ZeroPte
  <2>2. EntryOf(w)[f] \in 0..max
    BY <2>1, <1>1, <1>3 DEF last
  <2> QED BY <2>2 DEF max
<1>5. CASE w # None
  <2> DEFINE e == Pte(w.pa, w.attr)
  <2>1. w \in Mapping /\ EntryOf(w) = e
    BY <1>5, SMTT(20) DEF EntryOf
  <2>2. /\ e.tag = 2 /\ e.sec_base_addr = w.pa /\ w.pa \in 0..4095
        /\ e.domain = w.attr.dom /\ w.attr.dom \in 0..15 /\ e.XN = 0 /\ e.nG \in {0, 1}
    BY <2>1, EntryFields, SMTT(20)
  <2>3. e.TEX \in 0..1 /\ e.C \in 0..1 /\ e.B \in 0..1
    BY <2>1, EntryMemory
  <2>4. e.AP \in 0..3 /\ e.APX \in 0..1
    BY <2>1, EntryRights
  <2> HIDE DEF e
  <2>5. /\ e.tag \in 0..3 /\ e.nG \in 0..1 /\ e.XN \in 0..1 /\ e.TEX \in 0..7
        /\ e.sec_base_addr \in 0..last /\ e.domain \in 0..15
    BY <2>2, <2>3 DEF last
  <2>6. f \in {"B", "C", "XN", "APX", "nG"} => e[f] \in 0..1
    BY <2>3, <2>4, <2>5
  <2>7. f \in {"tag", "AP"} => e[f] \in 0..3
    BY <2>4, <2>5
  <2>8. /\ f = "TEX" => e[f] \in 0..7
        /\ f = "domain" => e[f] \in 0..15
        /\ f = "sec_base_addr" => e[f] \in 0..last
    BY <2>5
  <2>9. e[f] \in 0..max
    <3>1. CASE f \in {"B", "C", "XN", "APX", "nG"}
      BY <3>1, <1>3, <2>6
    <3>2. CASE f \in {"tag", "AP"}
      BY <3>2, <1>3, <2>7
    <3>3. CASE f = "TEX"
      BY <3>3, <1>3, <2>8
    <3>4. CASE f = "domain"
      BY <3>4, <1>3, <2>8
    <3>5. CASE f = "sec_base_addr"
      BY <3>5, <1>3, <2>8
    <3> QED BY <1>1, <3>1, <3>2, <3>3, <3>4, <3>5
  <2> QED BY <2>1, <2>9 DEF max
<1> QED BY <1>4, <1>5

\* An access of the program that does not fault goes to a section of memory; one
\* past the tables does, too.
LEMMA PhysInSections ==
  ASSUME TableInv, ControlInv, NEW va \in Sections
  PROVE  PhysAt(va) \in Sections
<1>1. cp15.ttbr \in Tables
  BY DEF ControlInv
<1> DEFINE w == want[cp15.ttbr][va]
<1>2. Entry(va) = EntryOf(w) /\ w \in Mapping \cup {None}
  BY <1>1 DEF TableInv, Entry
<1>3. EntryOf(w).sec_base_addr \in Sections
  <2>1. CASE w = None
    BY <2>1, VmAssumption DEF EntryOf, ZeroPte, PteWidths
  <2>2. CASE w # None
    BY <1>2, <2>2 DEF EntryOf, Pte, Mapping
  <2> QED BY <2>1, <2>2
<1> QED BY <1>2, <1>3 DEF PhysAt
-----------------------------------------------------------------------------
(* Steps.                                                                  *)

LEMMA CallFacts ==
  ASSUME TodoInv, NEW op, Calls(op)
  PROVE  /\ Head(todo)[1] = op /\ CallTyped(Head(todo)) /\ todo # <<>>
         /\ Tail(todo) \in Seq(AllCalls)
BY CallsAssumption DEF TodoInv, Calls

\* Which steps change what.
LEMMA StepReturns ==
  ASSUME Step
  PROVE  \/ Panic \/ DataAbort
         \/ Returns /\ \E op : Calls(op)
BY DEF Step, Check, kmalloc_init_set_start, vm_pt_alloc, vm_dup, AllocTable, vm_map_sec, vm_mmu_init,
   domain_access_ctrl_set, vm_mmu_switch, vm_mmu_enable, vm_mmu_disable, mmu_sync_pte_mods,
   caches_all_on, GET32, PUT32, dcache_should_miss, icache_should_miss, SetHandler, eqx_fork

LEMMA StepHeap ==
  ASSUME Step
  PROVE  UNCHANGED heap \/ kmalloc_init_set_start \/ vm_pt_alloc \/ vm_dup \/ eqx_fork
BY DEF Step, Panic, Check, vm_map_sec, vm_mmu_init,
   domain_access_ctrl_set, vm_mmu_switch, vm_mmu_enable, vm_mmu_disable, mmu_sync_pte_mods,
   caches_all_on, GET32, PUT32, dcache_should_miss, icache_should_miss, SetHandler, DataAbort

LEMMA StepTables ==
  ASSUME Step
  PROVE  UNCHANGED <<want, pts>> \/ vm_pt_alloc \/ vm_dup \/ vm_map_sec
BY DEF Step, ptVars, Panic, Check, kmalloc_init_set_start, eqx_fork, vm_mmu_init,
   domain_access_ctrl_set, vm_mmu_switch, vm_mmu_enable, vm_mmu_disable, mmu_sync_pte_mods,
   caches_all_on, GET32, PUT32, dcache_should_miss, icache_should_miss, SetHandler, DataAbort

LEMMA StepControl ==
  ASSUME Step
  PROVE  /\ \/ UNCHANGED cp15
            \/ vm_mmu_switch \/ vm_mmu_enable \/ vm_mmu_disable \/ caches_all_on
         /\ \/ UNCHANGED domain_reg
            \/ vm_mmu_init \/ domain_access_ctrl_set \/ DataAbort
<1>1. \/ UNCHANGED cp15
      \/ vm_mmu_switch \/ vm_mmu_enable \/ vm_mmu_disable \/ caches_all_on
  BY DEF Step, Panic, Check, kmalloc_init_set_start, vm_pt_alloc, vm_dup, AllocTable, vm_map_sec,
     vm_mmu_init, domain_access_ctrl_set, mmu_sync_pte_mods, GET32, PUT32, dcache_should_miss,
     icache_should_miss, SetHandler, DataAbort, eqx_fork
<1>2. \/ UNCHANGED domain_reg
      \/ vm_mmu_init \/ domain_access_ctrl_set \/ DataAbort
  BY DEF Step, Panic, Check, kmalloc_init_set_start, vm_pt_alloc, vm_dup, AllocTable, vm_map_sec,
     vm_mmu_switch, vm_mmu_enable, vm_mmu_disable, mmu_sync_pte_mods, caches_all_on, GET32, PUT32,
     dcache_should_miss, icache_should_miss, SetHandler, eqx_fork
<1> QED BY <1>1, <1>2

LEMMA StepCaches ==
  ASSUME Step
  PROVE  \/ UNCHANGED <<dcache, icache, ram>>
         \/ vm_mmu_init \/ vm_mmu_enable \/ vm_mmu_disable \/ mmu_sync_pte_mods
         \/ GET32 \/ PUT32 \/ dcache_should_miss \/ icache_should_miss
BY DEF Step, cacheVars, Panic, Check, kmalloc_init_set_start, vm_pt_alloc, vm_dup, AllocTable,
   vm_map_sec, domain_access_ctrl_set, vm_mmu_switch, caches_all_on, SetHandler, DataAbort, eqx_fork

LEMMA TodoStep ==
  ASSUME TodoInv, Next
  PROVE  TodoInv'
<1>1. CASE ClientInst
  BY <1>1 DEF ClientInst, TodoInv, AllCalls
<1>2. CASE Panic
  BY <1>2 DEF Panic, TodoInv
<1>3. CASE DataAbort
  <2>1. Calls("GET32") \/ Calls("PUT32")
    BY <1>3 DEF DataAbort
  <2>2. Tail(todo) \in Seq(AllCalls) /\ <<>> \in Seq(AllCalls)
    BY <2>1, CallFacts
  <2> QED BY <1>3, <2>2 DEF DataAbort, TodoInv
<1>4. ASSUME Returns, NEW op, Calls(op) PROVE TodoInv'
  BY <1>4, CallFacts DEF Returns, TodoInv
<1> QED BY <1>1, <1>2, <1>3, <1>4, StepReturns DEF Next

LEMMA KmallocRounds ==
  ASSUME HeapInv
  PROVE  KmallocStart(8) \in Nat /\ KmallocStart(PT_BYTES) \in Nat
BY SMT DEF HeapInv, KmallocStart, RoundUp, PT_BYTES

LEMMA HeapStep ==
  ASSUME TodoInv, HeapInv, Next
  PROVE  HeapInv'
<1>1. CASE UNCHANGED heap
  BY <1>1 DEF HeapInv
<1>2. CASE kmalloc_init_set_start
  <2>1. Arg(1) \in Nat
    BY <1>2, CallFacts DEF kmalloc_init_set_start, CallTyped, Arg
  <2>2. heap' = [start |-> 1 * MB, nbytes |-> Arg(1) * MB, next |-> 1 * MB]
    BY <1>2 DEF kmalloc_init_set_start
  <2>3. MB = 1048576
    BY SMT DEF MB
  <2>4. Arg(1) * MB \in Nat
    BY <2>1, <2>3, SMT
  <2> QED BY <2>2, <2>3, <2>4, SMT DEF HeapInv
<1>3. CASE vm_pt_alloc \/ vm_dup
  <2>1. KmallocFits(PT_BYTES, PT_BYTES)
    BY <1>3 DEF vm_pt_alloc, vm_dup, AllocTable, Calls, Asserts
  <2>2. heap' = [heap EXCEPT !.next = KmallocStart(PT_BYTES) + PT_BYTES]
    BY <1>3 DEF vm_pt_alloc, vm_dup, AllocTable
  <2>3. KmallocStart(PT_BYTES) \in Nat /\ PT_BYTES \in Nat
    BY KmallocRounds, SMT DEF PT_BYTES
  <2> QED BY <2>1, <2>2, <2>3, SMTT(20) DEF HeapInv, KmallocFits
<1>4. CASE eqx_fork
  <2>1. StackFits
    BY <1>4 DEF eqx_fork, Calls, Asserts
  <2>2. heap' = [heap EXCEPT !.next = ThreadAt + TH_BYTES]
    BY <1>4 DEF eqx_fork
  <2>3. ThreadAt + TH_BYTES \in Nat
    BY KmallocRounds, SMT DEF ThreadAt, eqx_stack_size, TH_BYTES
  <2> QED BY <2>1, <2>2, <2>3 DEF HeapInv, StackFits
<1> QED BY <1>1, <1>2, <1>3, <1>4, StepHeap DEF Next, ClientInst

LEMMA TableStep ==
  ASSUME TodoInv, TableInv, Next
  PROVE  TableInv'
<1>1. CASE UNCHANGED <<want, pts>>
  BY <1>1 DEF TableInv
<1>2. CASE vm_pt_alloc
  <2> DEFINE pt == Arg(1)
  <2>1. pt \in Tables
    BY <1>2, CallFacts DEF vm_pt_alloc, CallTyped, Arg
  <2>2. /\ pts' = [pts EXCEPT ![pt] = [va \in Sections |-> ZeroPte]]
        /\ want' = [want EXCEPT ![pt] = [va \in Sections |-> None]]
    BY <1>2 DEF vm_pt_alloc, AllocTable
  <2> HIDE DEF pt
  <2> QED BY <2>1, <2>2 DEF TableInv, EntryOf
<1>3. CASE vm_dup
  <2> DEFINE from == Arg(1)
             to == Arg(2)
  <2>1. from \in Tables /\ to \in Tables
    BY <1>3, CallFacts DEF vm_dup, CallTyped, Arg
  <2>2. /\ pts' = [pts EXCEPT ![to] = pts[from]]
        /\ want' = [want EXCEPT ![to] = want[from]]
    BY <1>3 DEF vm_dup, AllocTable
  <2> HIDE DEF from, to
  <2> QED BY <2>1, <2>2 DEF TableInv
<1>4. CASE vm_map_sec
  <2> DEFINE pt == Arg(1)
             va == Arg(2)
             w == [pa |-> Arg(3), attr |-> Arg(4)]
  <2>1. pt \in Tables /\ va \in Sections /\ Arg(3) \in Sections /\ Arg(4) \in Pin
    BY <1>4, CallFacts DEF vm_map_sec, CallTyped, Arg
  <2>2. pin_mk_demands(Arg(4))
    BY <1>4 DEF vm_map_sec, Calls, Asserts, Arg
  <2>3. w \in Mapping /\ w # None /\ w.pa = Arg(3) /\ w.attr = Arg(4)
    BY <2>1, <2>2, VmAssumption DEF Mapping
  <2>4. /\ pts' = [pts EXCEPT ![pt][va] = Pte(Arg(3), Arg(4))]
        /\ want' = [want EXCEPT ![pt][va] = w]
    BY <1>4 DEF vm_map_sec
  <2>5. Pte(Arg(3), Arg(4)) = EntryOf(w)
    BY <2>3 DEF EntryOf
  <2> HIDE DEF pt, va, w
  <2> QED BY <2>1, <2>3, <2>4, <2>5 DEF TableInv
<1> QED BY <1>1, <1>2, <1>3, <1>4, StepTables DEF Next, ClientInst, ptVars

LEMMA DomainRegs == dom_bits \in DomainReg /\ dom_no_access \in DomainReg
BY DEF dom_bits, dom_no_access, dom_perm, DomainReg

LEMMA ControlStep ==
  ASSUME TodoInv, ControlInv, Next
  PROVE  ControlInv'
<1>1. cp15' \in [mmu : BOOLEAN, caches : BOOLEAN, asid : 0..63, ttbr : Tables]
  <2>1. CASE UNCHANGED cp15
    BY <2>1 DEF ControlInv
  <2>2. CASE vm_mmu_switch
    <3>1. Arg(1) \in Tables
      BY <2>2, CallFacts DEF vm_mmu_switch, CallTyped, Arg
    <3>2. Arg(2) \in 1..63
      BY <2>2 DEF vm_mmu_switch, Calls, Asserts, Arg
    <3>3. cp15' = [cp15 EXCEPT !.ttbr = Arg(1), !.asid = Arg(2)]
      BY <2>2 DEF vm_mmu_switch
    <3>4. Arg(2) \in 0..63
      BY <3>2
    <3> DEFINE pt == Arg(1)
               asid == Arg(2)
    <3> HIDE DEF pt, asid
    <3>5. cp15' = [cp15 EXCEPT !.ttbr = pt, !.asid = asid] /\ pt \in Tables /\ asid \in 0..63
      BY <3>1, <3>3, <3>4 DEF pt, asid
    <3> QED BY <3>5 DEF ControlInv
  <2>3. CASE vm_mmu_enable \/ vm_mmu_disable \/ caches_all_on
    BY <2>3 DEF vm_mmu_enable, vm_mmu_disable, caches_all_on, ControlInv
  <2> QED BY <2>1, <2>2, <2>3, StepControl DEF Next, ClientInst
<1>2. domain_reg' \in DomainReg
  <2>1. CASE UNCHANGED domain_reg
    BY <2>1 DEF ControlInv
  <2>2. CASE vm_mmu_init \/ domain_access_ctrl_set
    BY <2>2, CallFacts DEF vm_mmu_init, domain_access_ctrl_set, CallTyped, Arg
  <2>3. CASE DataAbort
    BY <2>3, DomainRegs DEF DataAbort, ControlInv
  <2> QED BY <2>1, <2>2, <2>3, StepControl DEF Next, ClientInst
<1> QED BY <1>1, <1>2 DEF ControlInv

LEMMA FilledTyped ==
  ASSUME TableInv, ControlInv, CacheInv, NEW va \in Sections
  PROVE  /\ DOMAIN Filled(va) \subseteq Sections
         /\ \A pa \in DOMAIN Filled(va) : Filled(va)[pa] \in Vals
<1>1. PhysAt(va) \in Sections
  BY PhysInSections
<1> QED BY <1>1 DEF Filled, CacheInv, Over, Line

LEMMA CacheStep ==
  ASSUME VmInv, Next
  PROVE  CacheInv'
<1>0. TodoInv /\ TableInv /\ ControlInv /\ CacheInv
  BY DEF VmInv
<1>1. CASE UNCHANGED <<dcache, icache, ram>>
  BY <1>0, <1>1 DEF CacheInv
<1>2. CASE vm_mmu_init
  BY <1>0, <1>2 DEF vm_mmu_init, CacheInv
<1>3. CASE vm_mmu_enable
  BY <1>0, <1>3 DEF vm_mmu_enable, CacheInv
<1>4. CASE vm_mmu_disable \/ mmu_sync_pte_mods
  <2>1. ram' = Over(dcache, ram) /\ dcache' = <<>> /\ icache' = {}
    BY <1>4 DEF vm_mmu_disable, mmu_sync_pte_mods, CleanCaches, Cleaned
  <2>2. Over(dcache, ram) \in [Sections -> Vals]
    BY <1>0 DEF CacheInv, Over
  <2> QED BY <2>1, <2>2 DEF CacheInv
<1>5. CASE GET32 \/ dcache_should_miss
  <2>1. Arg(1) \in Sections
    BY <1>0, <1>5, CallFacts DEF GET32, dcache_should_miss, CallTyped, Arg
  <2>2. dcache' = Filled(Arg(1)) /\ UNCHANGED <<icache, ram>>
    BY <1>5 DEF GET32, dcache_should_miss
  <2> QED BY <1>0, <2>1, <2>2, FilledTyped DEF CacheInv
<1>6. CASE icache_should_miss
  <2>1. PhysAt(Arg(1)) \in Sections
    BY <1>0, <1>6, CallFacts, PhysInSections DEF icache_should_miss, CallTyped, Arg
  <2> QED BY <1>0, <1>6, <2>1 DEF icache_should_miss, CacheInv
<1>7. CASE PUT32
  <2> DEFINE pa == PhysAt(Arg(1))
             v == Arg(2)
  <2>1. pa \in Sections /\ v \in Vals
    BY <1>0, <1>7, CallFacts, PhysInSections DEF PUT32, CallTyped, Arg
  <2>2. /\ dcache' \in {dcache, Over(Line(pa, v), dcache)}
        /\ ram' \in {ram, [ram EXCEPT ![pa] = v]}
        /\ icache' = icache
    BY <1>7 DEF PUT32
  <2> HIDE DEF pa, v
  <2> QED BY <1>0, <2>1, <2>2 DEF CacheInv, Over, Line
<1> QED BY <1>1, <1>2, <1>3, <1>4, <1>5, <1>6, <1>7, StepCaches DEF Next, ClientInst, cacheVars

LEMMA VmInit == Init => VmInv
<1> SUFFICES ASSUME Init PROVE VmInv
  OBVIOUS
<1>1. TodoInv
  BY CallsAssumption DEF Init, TodoInv
<1>2. HeapInv
  BY DEF Init, HeapInv
<1>3. TableInv
  BY DEF Init, TableInv, EntryOf
<1>4. ControlInv
  BY DomainRegs, CallsAssumption DEF Init, ControlInv
<1>5. CacheInv
  BY VmAssumption DEF Init, CacheInv
<1> QED BY <1>1, <1>2, <1>3, <1>4, <1>5 DEF VmInv

LEMMA VmStep == VmInv /\ [Next]_allVars => VmInv'
<1> SUFFICES ASSUME VmInv, [Next]_allVars PROVE VmInv'
  OBVIOUS
<1>1. CASE Next
  BY <1>1, TodoStep, HeapStep, TableStep, ControlStep, CacheStep DEF VmInv
<1>2. CASE UNCHANGED allVars
  BY <1>2 DEF allVars, vars, ptVars, cacheVars, VmInv, TodoInv, HeapInv, TableInv, ControlInv,
     CacheInv
<1> QED BY <1>1, <1>2
-----------------------------------------------------------------------------
\* The state is of its type; above all vm_map_sec gives no field of an entry
\* more than its bits (armv6-vm.h: fld_t), and kmalloc never hands out what is
\* not in the heap.
THEOREM VmTypeCorrect == Spec => []TypeOK
<1>1. VmInv => TypeOK
  <2> SUFFICES ASSUME VmInv PROVE TypeOK
    OBVIOUS
  <2>1. ASSUME NEW pt \in Tables, NEW va \in Sections, NEW f \in DOMAIN PteWidths
        PROVE  pts[pt][va][f] \in 0..(2^PteWidths[f] - 1)
    <3>1. pts[pt][va] = EntryOf(want[pt][va]) /\ want[pt][va] \in Mapping \cup {None}
      BY DEF VmInv, TableInv
    <3> QED BY <3>1, EntryWidths
  <2> QED BY <2>1 DEF TypeOK, VmInv, TodoInv, HeapInv, ControlInv, CacheInv
<1> QED BY <1>1, VmInit, VmStep, PTL DEF Spec

\* After any program of calls, through whichever table and with whichever
\* rights in the domain register, the hardware finds in an entry the section,
\* the memory type and the rights it was last mapped with, in a table that was
\* copied too, and nothing where nothing was mapped (vm_map_sec, vm_dup,
\* vm_lookup and vm_xlate).
THEOREM MappingsAreKept == Spec => []AccessAsMapped
<1>1. VmInv => AccessAsMapped
  <2> SUFFICES ASSUME VmInv, NEW pt \in Tables, NEW va \in Sections
               PROVE  LET w == want[pt][va]
                          e == pts[pt][va]
                      IN  IF w = None THEN ~vm_lookup(pt, va) /\ vm_xlate(pt, va) = None
                          ELSE /\ vm_xlate(pt, va) = w.pa
                               /\ TEX_C_B(e.TEX, e.C, e.B) = w.attr.mem_attr
                               /\ e.nG = 1 <=> w.attr.asid # 0
                               /\ \A mode \in {"usr", "svc"}, access \in {"fetch", "read", "write"} :
                                    FaultOf(e, mode, access) = "none" <=>
                                      \/ domain_reg[w.attr.dom] = DOM_manager
                                      \/ /\ domain_reg[w.attr.dom] = DOM_client
                                         /\ Allowed(w.attr.AP_perm, mode, access)
    BY DEF AccessAsMapped
  <2> DEFINE w == want[pt][va]
             e == pts[pt][va]
  <2>1. e = EntryOf(w) /\ w \in Mapping \cup {None}
    BY DEF VmInv, TableInv
  <2>2. CASE w = None
    <3>1. e.tag = 0
      BY <2>1, <2>2 DEF EntryOf, ZeroPte, PteWidths
    <3> QED BY <2>2, <3>1 DEF vm_lookup, vm_xlate
  <2>3. CASE w # None
    <3>1. e = Pte(w.pa, w.attr) /\ w \in Mapping
      BY <2>1, <2>3 DEF EntryOf
    <3> HIDE DEF e, w
    <3>2. /\ e.tag = 2 /\ e.sec_base_addr = w.pa
          /\ e.domain = w.attr.dom /\ w.attr.dom \in 0..15
          /\ e.nG = 1 <=> w.attr.asid # 0
      BY <3>1, EntryFields
    <3>3. TEX_C_B(e.TEX, e.C, e.B) = w.attr.mem_attr
      BY <3>1, EntryMemory
    <3>4. vm_xlate(pt, va) = w.pa
      BY <3>2 DEF vm_lookup, vm_xlate, e
    <3>5. domain_reg[w.attr.dom] \in {DOM_no_access, DOM_client, DOM_manager}
      BY <3>2 DEF VmInv, ControlInv, DomainReg
    <3>6. ASSUME NEW mode \in {"usr", "svc"}, NEW access \in {"fetch", "read", "write"}
          PROVE  FaultOf(e, mode, access) = "none" <=>
                   \/ domain_reg[w.attr.dom] = DOM_manager
                   \/ /\ domain_reg[w.attr.dom] = DOM_client
                      /\ Allowed(w.attr.AP_perm, mode, access)
      <4>1. Permits(e, mode, access) <=> Allowed(w.attr.AP_perm, mode, access)
        BY <3>1, EntryRights
      <4> QED BY <3>2, <3>5, <4>1 DEF FaultOf, DOM_no_access, DOM_client, DOM_manager
    <3> QED BY <2>3, <3>2, <3>3, <3>4, <3>6 DEF e, w
  <2> QED BY <2>2, <2>3
<1> QED BY <1>1, VmInit, VmStep, PTL DEF Spec
-----------------------------------------------------------------------------
(* eqx_init_w_vm and the forks after it: the programs equiv and            *)
(* equiv_cached.  Made counts the calls made, and the invariant says what  *)
(* each of them leaves for the threads.                                    *)

Equiv == program \in {"equiv", "equiv_cached"}
Prog == Tests[program]
Made == Len(Prog) - Len(todo)
Follows == Made \in 0..Len(Prog) /\ \A i \in 1..Len(todo) : todo[i] = Prog[Made + i]

\* The heap begins with the page table; the threads' stacks and blocks follow,
\* each after the one before and all within the section mapped for them.
StacksInv ==
    /\ stacks \in Seq(Nat \X Nat)
    /\ \A i \in DOMAIN stacks :
         /\ MB + PT_BYTES <= stacks[i][1] /\ stacks[i][1] < stacks[i][2]
         /\ stacks[i][2] <= heap.next /\ stacks[i][2] < 2 * MB
         /\ \A j \in DOMAIN stacks : i < j => stacks[i][2] <= stacks[j][1]

HeapAsInit ==
    /\ Made > 0 => heap.start = MB /\ heap.nbytes = 2 * MB /\ heap.next >= MB
    /\ Made \in {1, 2} => heap.next = MB
    /\ Made > 2 => heap.next >= MB + PT_BYTES

MappedAsInit ==
    /\ Made > 2 => want[pt1][SEG_ILLEGAL] = None
    /\ Made > 5 => want[pt1][SEG_CODE] # None
    /\ Made > 12 => want[pt1][SEG_HEAP] # None /\ want[pt1][SEG_HEAP].pa = 2

ControlAsInit ==
    /\ Made > 3 => domain_reg = dom_all_access
    /\ Made > 13 => cp15.ttbr = pt1
    /\ cp15.mmu <=> Made > 15

EquivInv ==
    Equiv => Follows /\ HeapAsInit /\ MappedAsInit /\ ControlAsInit /\ StacksInv
             /\ (Made < 18 => stacks = <<>>)

LEMMA Concat ==
  ASSUME NEW S, NEW s \in Seq(S), NEW t \in Seq(S)
  PROVE  /\ s \o t \in Seq(S) /\ Len(s \o t) = Len(s) + Len(t)
         /\ \A i \in 1..Len(s) : (s \o t)[i] = s[i]
         /\ \A i \in (Len(s) + 1)..(Len(s) + Len(t)) : (s \o t)[i] = t[i - Len(s)]
OBVIOUS

\* The calls of eqx_init_w_vm.
LEMMA EquivCalls ==
  ASSUME Equiv
  PROVE  /\ Prog \in Seq(AllCalls) /\ Len(Prog) >= 17
         /\ Prog[1] = HeapOf(2) /\ Prog[2] = IsEnabled(FALSE)
         /\ Prog[3] = <<"vm_pt_alloc", pt1>> /\ Prog[4] = <<"vm_mmu_init", dom_all_access>>
         /\ Prog[5] = IsEnabled(FALSE)
         /\ Prog[6] = Map(pt1, SEG_CODE, SEG_CODE, kern)
         /\ Prog[7] = Map(pt1, SEG_HEAP, SEG_HEAP, kern)
         /\ Prog[8] = Map(pt1, SEG_STACK, SEG_STACK, kern)
         /\ Prog[9] = Map(pt1, SEG_INT_STACK, SEG_INT_STACK, kern)
         /\ Prog[10] = Map(pt1, 512, 512, dev) /\ Prog[11] = Map(pt1, 513, 513, dev)
         /\ Prog[12] = Map(pt1, 514, 514, dev)
         /\ Prog[13] = Map(pt1, 1, 2, pin_mk_user(dom_user, 1, perm_rw_user, MEM_uncached))
         /\ Prog[14] = <<"vm_mmu_switch", pt1, 1>> /\ Prog[15] = IsEnabled(FALSE)
         /\ Prog[16] = On /\ Prog[17] = IsEnabled(TRUE)
         /\ \A i \in 18..Len(Prog) :
              Prog[i] \in {<<"caches_all_on">>, <<"caches_all_on_p">>, <<"eqx_fork">>}
<1> DEFINE caches == program = "equiv_cached"
           head == << HeapOf(2), IsEnabled(FALSE), <<"vm_pt_alloc", pt1>>,
                      <<"vm_mmu_init", dom_all_access>>, IsEnabled(FALSE) >>
           segs == KernelSegs(pt1)
           rest == << Map(pt1, 1, 2, pin_mk_user(dom_user, 1, perm_rw_user, MEM_uncached)),
                      <<"vm_mmu_switch", pt1, 1>>, IsEnabled(FALSE), On, IsEnabled(TRUE) >>
           on == IF caches THEN << <<"caches_all_on">>, <<"caches_all_on_p">> >> ELSE <<>>
<1>1. Prog = (((head \o segs) \o rest) \o on) \o Forks
  <2>1. CASE program = "equiv"
    BY <2>1 DEF Prog, Tests, eqx_init_w_vm
  <2>2. CASE program = "equiv_cached"
    BY <2>2 DEF Prog, Tests, eqx_init_w_vm
  <2> QED BY <2>1, <2>2 DEF Equiv
<1>2. Prog \in Seq(AllCalls)
  BY CallsAssumption DEF Equiv, Prog, Tests
<1> DEFINE OfHead == { HeapOf(2), IsEnabled(FALSE), <<"vm_pt_alloc", pt1>>,
                       <<"vm_mmu_init", dom_all_access>> }
           OfSegs == { Map(pt1, SEG_CODE, SEG_CODE, kern), Map(pt1, SEG_HEAP, SEG_HEAP, kern),
                       Map(pt1, SEG_STACK, SEG_STACK, kern),
                       Map(pt1, SEG_INT_STACK, SEG_INT_STACK, kern),
                       Map(pt1, 512, 512, dev), Map(pt1, 513, 513, dev), Map(pt1, 514, 514, dev) }
           OfRest == { Map(pt1, 1, 2, pin_mk_user(dom_user, 1, perm_rw_user, MEM_uncached)),
                       <<"vm_mmu_switch", pt1, 1>>, IsEnabled(FALSE), On, IsEnabled(TRUE) }
           Others == { <<"caches_all_on">>, <<"caches_all_on_p">>, <<"eqx_fork">> }
           Elements == OfHead \cup OfSegs \cup OfRest \cup Others
<1>3. /\ head \in Seq(Elements) /\ Len(head) = 5
      /\ segs \in Seq(Elements) /\ Len(segs) = 7
      /\ rest \in Seq(Elements) /\ Len(rest) = 5
  <2>1. head \in Seq(OfHead) /\ Len(head) = 5
    OBVIOUS
  <2>2. segs \in Seq(OfSegs) /\ Len(segs) = 7
    BY DEF KernelSegs
  <2>3. rest \in Seq(OfRest) /\ Len(rest) = 5
    OBVIOUS
  <2> HIDE DEF head, segs, rest, OfHead, OfSegs, OfRest, Others
  <2> QED BY <2>1, <2>2, <2>3
<1>4. /\ on \in Seq(Elements) /\ Len(on) \in Nat
      /\ \A i \in 1..Len(on) : on[i] \in {<<"caches_all_on">>, <<"caches_all_on_p">>}
  <2>1. CASE caches
    <3>1. on = << <<"caches_all_on">>, <<"caches_all_on_p">> >>
      BY <2>1
    <3> HIDE DEF on, OfHead, OfSegs, OfRest
    <3> QED BY <3>1
  <2>2. CASE ~caches
    <3>1. on = <<>>
      BY <2>2
    <3> HIDE DEF on, Elements
    <3> QED BY <3>1
  <2> QED BY <2>1, <2>2
<1>5. /\ Forks \in Seq(Elements) /\ Len(Forks) = MaxForks
      /\ \A i \in 1..Len(Forks) : Forks[i] = <<"eqx_fork">>
  BY BoundsAssumption DEF Forks
<1>6. /\ head[1] = HeapOf(2) /\ head[2] = IsEnabled(FALSE)
      /\ head[3] = <<"vm_pt_alloc", pt1>> /\ head[4] = <<"vm_mmu_init", dom_all_access>>
      /\ head[5] = IsEnabled(FALSE)
      /\ segs[1] = Map(pt1, SEG_CODE, SEG_CODE, kern)
      /\ segs[2] = Map(pt1, SEG_HEAP, SEG_HEAP, kern)
      /\ segs[3] = Map(pt1, SEG_STACK, SEG_STACK, kern)
      /\ segs[4] = Map(pt1, SEG_INT_STACK, SEG_INT_STACK, kern)
      /\ segs[5] = Map(pt1, 512, 512, dev) /\ segs[6] = Map(pt1, 513, 513, dev)
      /\ segs[7] = Map(pt1, 514, 514, dev)
      /\ rest[1] = Map(pt1, 1, 2, pin_mk_user(dom_user, 1, perm_rw_user, MEM_uncached))
      /\ rest[2] = <<"vm_mmu_switch", pt1, 1>> /\ rest[3] = IsEnabled(FALSE)
      /\ rest[4] = On /\ rest[5] = IsEnabled(TRUE)
  BY DEF KernelSegs
<1> HIDE DEF head, segs, rest, on, Elements
<1> DEFINE init == (head \o segs) \o rest
<1>7. /\ init \in Seq(Elements) /\ Len(init) = 17
      /\ \A i \in 1..5 : init[i] = head[i]
      /\ \A i \in 6..12 : init[i] = segs[i - 5]
      /\ \A i \in 13..17 : init[i] = rest[i - 12]
  <2> DEFINE two == head \o segs
  <2>1. /\ two \in Seq(Elements) /\ Len(two) = 12
        /\ \A i \in 1..5 : two[i] = head[i]
        /\ \A i \in 6..12 : two[i] = segs[i - 5]
    <3>1. /\ head \o segs \in Seq(Elements) /\ Len(head \o segs) = Len(head) + Len(segs)
          /\ \A i \in 1..Len(head) : (head \o segs)[i] = head[i]
      BY <1>3, Concat, ZenonT(40)
    <3>2. \A i \in (Len(head) + 1)..(Len(head) + Len(segs)) : (head \o segs)[i] = segs[i - Len(head)]
      BY <1>3, Concat
    <3>3. Len(head) = 5 /\ Len(head) + 1 = 6 /\ Len(head) + Len(segs) = 12
      BY <1>3
    <3>4. \A i \in 6..12 : two[i] = segs[i - 5]
      BY <3>2, <3>3
    <3> QED BY <3>1, <3>3, <3>4
  <2> HIDE DEF two
  <2>2. /\ two \o rest \in Seq(Elements) /\ Len(two \o rest) = 17
        /\ \A i \in 1..12 : (two \o rest)[i] = two[i]
        /\ \A i \in 13..17 : (two \o rest)[i] = rest[i - 12]
    <3>0. two \in Seq(Elements) /\ rest \in Seq(Elements)
      BY <1>3, <2>1
    <3>1. /\ two \o rest \in Seq(Elements) /\ Len(two \o rest) = Len(two) + Len(rest)
          /\ \A i \in 1..Len(two) : (two \o rest)[i] = two[i]
      BY <3>0, Concat
    <3>2. \A i \in (Len(two) + 1)..(Len(two) + Len(rest)) : (two \o rest)[i] = rest[i - Len(two)]
      BY <3>0, Concat
    <3>3. Len(two) = 12 /\ Len(two) + 1 = 13 /\ Len(two) + Len(rest) = 17
      BY <1>3, <2>1
    <3>4. \A i \in 13..17 : (two \o rest)[i] = rest[i - 12]
      BY <3>2, <3>3
    <3> QED BY <3>1, <3>3, <3>4
  <2>3. init = two \o rest
    BY DEF two
  <2> HIDE DEF init
  <2>4. /\ init \in Seq(Elements) /\ Len(init) = 17
        /\ \A i \in 1..12 : init[i] = two[i]
        /\ \A i \in 13..17 : init[i] = rest[i - 12]
    BY <2>2, <2>3
  <2>5. /\ \A i \in 1..5 : init[i] = head[i]
        /\ \A i \in 6..12 : init[i] = segs[i - 5]
    BY <2>1, <2>4
  <2> QED BY <2>4, <2>5
<1>8. Prog = (init \o on) \o Forks
  BY <1>1
<1> HIDE DEF init
<1>9. /\ Len(on) \in Nat /\ Len(Forks) \in Nat /\ Len(Prog) = 17 + Len(on) + Len(Forks)
      /\ \A i \in 1..17 : Prog[i] = init[i]
      /\ \A i \in 18..(17 + Len(on)) : Prog[i] = on[i - 17]
      /\ \A i \in (18 + Len(on))..Len(Prog) : Prog[i] = Forks[i - (17 + Len(on))]
  <2> DEFINE s == init \o on
             m == 17 + Len(on)
             n == Len(Forks)
  <2>1. Len(on) \in Nat /\ n \in Nat
    BY <1>4, <1>5, BoundsAssumption
  <2>2. /\ s \in Seq(Elements) /\ Len(s) = m
        /\ \A i \in 1..17 : s[i] = init[i]
        /\ \A i \in 18..m : s[i] = on[i - 17]
    <3>0. init \in Seq(Elements) /\ on \in Seq(Elements)
      BY <1>4, <1>7
    <3>1. /\ init \o on \in Seq(Elements) /\ Len(init \o on) = Len(init) + Len(on)
          /\ \A i \in 1..Len(init) : (init \o on)[i] = init[i]
      BY <3>0, Concat
    <3>2. \A i \in (Len(init) + 1)..(Len(init) + Len(on)) : (init \o on)[i] = on[i - Len(init)]
      BY <3>0, Concat
    <3>3. Len(init) = 17 /\ Len(init) + 1 = 18 /\ Len(init) + Len(on) = m
      BY <1>4, <1>7
    <3>4. \A i \in 18..m : s[i] = on[i - 17]
      BY <3>2, <3>3
    <3> QED BY <3>1, <3>3, <3>4
  <2> HIDE DEF s, m, n
  <2>3. /\ Len(s \o Forks) = m + n
        /\ \A i \in 1..m : (s \o Forks)[i] = s[i]
        /\ \A i \in (m + 1)..(m + n) : (s \o Forks)[i] = Forks[i - m]
    <3>1. /\ s \o Forks \in Seq(Elements) /\ Len(s \o Forks) = Len(s) + Len(Forks)
          /\ \A i \in 1..Len(s) : (s \o Forks)[i] = s[i]
      BY <1>5, <2>2, Concat, ZenonT(40)
    <3>2. \A i \in (Len(s) + 1)..(Len(s) + Len(Forks)) : (s \o Forks)[i] = Forks[i - Len(s)]
      BY <1>5, <2>2, Concat, ZenonT(40)
    <3>3. Len(s) = m /\ Len(Forks) = n
      BY <2>2 DEF n
    <3> QED BY <3>1, <3>2, <3>3
  <2>4. Prog = s \o Forks
    BY <1>8 DEF s
  <2>5. m = 17 + Len(on) /\ n = Len(Forks) /\ m + 1 = 18 + Len(on)
    BY <2>1 DEF m, n
  <2>6. \A i \in 1..17 : i \in 1..m
    BY <2>1, <2>5
  <2>7. \A i \in 18..m : i \in 1..m
    BY <2>1, <2>5
  <2> QED BY <2>1, <2>2, <2>3, <2>4, <2>5, <2>6, <2>7
<1>10. ASSUME NEW i \in 18..Len(Prog)
       PROVE  Prog[i] \in {<<"caches_all_on">>, <<"caches_all_on_p">>, <<"eqx_fork">>}
  <2>1. CASE i \in 18..(17 + Len(on))
    <3>1. i - 17 \in 1..Len(on)
      BY <1>9, <2>1
    <3> QED BY <1>4, <1>9, <2>1, <3>1
  <2>2. CASE i \in (18 + Len(on))..Len(Prog)
    <3>1. i - (17 + Len(on)) \in 1..Len(Forks)
      BY <1>9, <2>2
    <3> QED BY <1>5, <1>9, <2>2, <3>1
  <2> QED BY <1>9, <2>1, <2>2
<1>11. /\ Prog[1] = head[1] /\ Prog[2] = head[2] /\ Prog[3] = head[3] /\ Prog[4] = head[4]
       /\ Prog[5] = head[5] /\ Prog[6] = segs[1] /\ Prog[7] = segs[2] /\ Prog[8] = segs[3]
       /\ Prog[9] = segs[4] /\ Prog[10] = segs[5] /\ Prog[11] = segs[6] /\ Prog[12] = segs[7]
       /\ Prog[13] = rest[1] /\ Prog[14] = rest[2] /\ Prog[15] = rest[3] /\ Prog[16] = rest[4]
       /\ Prog[17] = rest[5]
  <2>1. \A i \in 1..5 : Prog[i] = head[i]
    BY <1>7, <1>9, SMTT(20)
  <2>2. \A i \in 6..12 : Prog[i] = segs[i - 5]
    BY <1>7, <1>9, SMTT(20)
  <2>3. \A i \in 13..17 : Prog[i] = rest[i - 12]
    BY <1>7, <1>9, SMTT(20)
  <2> QED BY <2>1, <2>2, <2>3
<1>12. Len(Prog) >= 17
  BY <1>9
<1> QED BY <1>2, <1>6, <1>10, <1>11, <1>12

\* Parts of it.
LEMMA ProgTyped == Equiv => Prog \in Seq(AllCalls) /\ Len(Prog) \in Nat /\ Len(Prog) >= 17
BY EquivCalls

LEMMA CallsBefore ==
  Equiv => /\ Prog[1] = HeapOf(2) /\ Prog[3] = <<"vm_pt_alloc", pt1>>
           /\ Prog[4] = <<"vm_mmu_init", dom_all_access>>
BY EquivCalls, SMTT(20)

LEMMA CallsMapping ==
  Equiv => /\ Prog[6] = Map(pt1, SEG_CODE, SEG_CODE, kern)
           /\ Prog[13] = Map(pt1, 1, 2, pin_mk_user(dom_user, 1, perm_rw_user, MEM_uncached))
BY EquivCalls

LEMMA CallsAfter ==
  Equiv => Prog[14] = <<"vm_mmu_switch", pt1, 1>> /\ Prog[16] = On
BY EquivCalls

\* What a call of these programs may be, and when.
LEMMA CallAt ==
  ASSUME Equiv, NEW i \in 1..Len(Prog)
  PROVE  /\ Prog[i][1] \notin {"vm_dup", "vm_mmu_disable", "domain_access_ctrl_set", "GET32", "PUT32"}
         /\ Prog[i][1] = "kmalloc_init_set_start" => i = 1
         /\ Prog[i][1] = "vm_pt_alloc" => i = 3
         /\ Prog[i][1] = "vm_mmu_init" => i = 4
         /\ Prog[i][1] = "vm_map_sec" => i \in 6..13 /\ Prog[i][2] = pt1 /\ Prog[i][3] # SEG_ILLEGAL
                                         /\ (i # 6 => Prog[i][3] # SEG_CODE)
         /\ i \in 6..13 => Prog[i][1] = "vm_map_sec"
         /\ Prog[i][1] = "vm_mmu_switch" => i = 14
         /\ Prog[i][1] = "vm_mmu_enable" => i = 16
         /\ Prog[i][1] = "eqx_fork" => i > 17
<1>1. CASE i \in {1, 2, 3, 4, 5}
  <2>1. /\ Prog[1][1] = "kmalloc_init_set_start" /\ Prog[2][1] = "mmu_is_enabled"
        /\ Prog[3][1] = "vm_pt_alloc" /\ Prog[4][1] = "vm_mmu_init"
        /\ Prog[5][1] = "mmu_is_enabled"
    <3>1. /\ HeapOf(2)[1] = "kmalloc_init_set_start" /\ IsEnabled(FALSE)[1] = "mmu_is_enabled"
      BY DEF HeapOf, IsEnabled
    <3>2. /\ Prog[1] = HeapOf(2) /\ Prog[2] = IsEnabled(FALSE)
          /\ Prog[3] = <<"vm_pt_alloc", pt1>> /\ Prog[4] = <<"vm_mmu_init", dom_all_access>>
          /\ Prog[5] = IsEnabled(FALSE)
      BY EquivCalls, ZenonT(40)
    <3>3. Prog[3][1] = "vm_pt_alloc" /\ Prog[4][1] = "vm_mmu_init"
      BY <3>2
    <3>4. /\ Prog[1][1] = "kmalloc_init_set_start" /\ Prog[2][1] = "mmu_is_enabled"
          /\ Prog[5][1] = "mmu_is_enabled"
      BY <3>1, <3>2
    <3> QED BY <3>3, <3>4
  <2> QED BY <1>1, <2>1, SMTT(20)
<1>2. CASE i \in {6, 7, 8, 9, 10, 11, 12, 13}
  <2>1. ASSUME NEW va, NEW pa, NEW attr
        PROVE  /\ Map(pt1, va, pa, attr)[1] = "vm_map_sec" /\ Map(pt1, va, pa, attr)[2] = pt1
               /\ Map(pt1, va, pa, attr)[3] = va
    BY DEF Map
  <2>2. /\ Prog[6] = Map(pt1, SEG_CODE, SEG_CODE, kern)
        /\ Prog[7] = Map(pt1, SEG_HEAP, SEG_HEAP, kern)
        /\ Prog[8] = Map(pt1, SEG_STACK, SEG_STACK, kern)
        /\ Prog[9] = Map(pt1, SEG_INT_STACK, SEG_INT_STACK, kern)
    BY EquivCalls
  <2>3. /\ Prog[10] = Map(pt1, 512, 512, dev) /\ Prog[11] = Map(pt1, 513, 513, dev)
        /\ Prog[12] = Map(pt1, 514, 514, dev)
        /\ Prog[13] = Map(pt1, 1, 2, pin_mk_user(dom_user, 1, perm_rw_user, MEM_uncached))
    BY EquivCalls
  <2>4. /\ Prog[6][1] = "vm_map_sec" /\ Prog[6][2] = pt1 /\ Prog[6][3] = 0
        /\ Prog[7][1] = "vm_map_sec" /\ Prog[7][2] = pt1 /\ Prog[7][3] = 1
        /\ Prog[8][1] = "vm_map_sec" /\ Prog[8][2] = pt1 /\ Prog[8][3] = 127
        /\ Prog[9][1] = "vm_map_sec" /\ Prog[9][2] = pt1 /\ Prog[9][3] = 143
    BY <2>1, <2>2, SMT DEF SEG_CODE, SEG_HEAP, SEG_STACK, SEG_INT_STACK
  <2>5. /\ Prog[10][1] = "vm_map_sec" /\ Prog[10][2] = pt1 /\ Prog[10][3] = 512
        /\ Prog[11][1] = "vm_map_sec" /\ Prog[11][2] = pt1 /\ Prog[11][3] = 513
        /\ Prog[12][1] = "vm_map_sec" /\ Prog[12][2] = pt1 /\ Prog[12][3] = 514
        /\ Prog[13][1] = "vm_map_sec" /\ Prog[13][2] = pt1 /\ Prog[13][3] = 1
    BY <2>1, <2>3, SMT
  <2>6. Prog[i][1] = "vm_map_sec" /\ Prog[i][2] = pt1 /\ Prog[i][3] # 2
        /\ (i # 6 => Prog[i][3] # 0)
    <3>1. CASE i \in {6, 7, 8, 9}
      BY <2>4, <3>1, SMT
    <3>2. CASE i \in {10, 11, 12, 13}
      BY <2>5, <3>2, SMT
    <3> QED BY <1>2, <3>1, <3>2
  <2> QED BY <1>2, <2>6 DEF SEG_CODE, SEG_ILLEGAL
<1>3. CASE i \in {14, 15, 16, 17}
  <2>1. /\ Prog[14][1] = "vm_mmu_switch" /\ Prog[15][1] = "mmu_is_enabled"
        /\ Prog[16][1] = "vm_mmu_enable" /\ Prog[17][1] = "mmu_is_enabled"
    <3>1. /\ IsEnabled(FALSE)[1] = "mmu_is_enabled" /\ IsEnabled(TRUE)[1] = "mmu_is_enabled"
          /\ On[1] = "vm_mmu_enable"
      BY DEF IsEnabled, On
    <3>2. /\ Prog[14] = <<"vm_mmu_switch", pt1, 1>> /\ Prog[15] = IsEnabled(FALSE)
          /\ Prog[16] = On /\ Prog[17] = IsEnabled(TRUE)
      BY EquivCalls, ZenonT(40)
    <3>3. Prog[14][1] = "vm_mmu_switch"
      BY <3>2
    <3> QED BY <3>1, <3>2, <3>3
  <2> QED BY <1>3, <2>1
<1>4. CASE i \in 18..Len(Prog)
  <2>1. Prog[i] \in {<<"caches_all_on">>, <<"caches_all_on_p">>, <<"eqx_fork">>}
    BY <1>4, EquivCalls
  <2>2. Prog[i][1] \in {"caches_all_on", "caches_all_on_p", "eqx_fork"}
    BY <2>1
  <2> QED BY <1>4, <2>2
<1>5. i \in {1, 2, 3, 4, 5} \/ i \in {6, 7, 8, 9, 10, 11, 12, 13} \/ i \in {14, 15, 16, 17}
      \/ i \in 18..Len(Prog)
  BY EquivCalls
<1> QED BY <1>1, <1>2, <1>3, <1>4, <1>5

\* Which step a call is.
LEMMA StepOf ==
  ASSUME Step, ~Panic
  PROVE  /\ Head(todo)[1] = "kmalloc_init_set_start" => kmalloc_init_set_start
         /\ Head(todo)[1] = "vm_pt_alloc" => vm_pt_alloc
         /\ Head(todo)[1] = "vm_mmu_init" => vm_mmu_init
         /\ Head(todo)[1] = "vm_map_sec" => vm_map_sec
         /\ Head(todo)[1] = "vm_mmu_switch" => vm_mmu_switch
         /\ Head(todo)[1] = "vm_mmu_enable" => vm_mmu_enable
<1>1. /\ vm_pt_alloc => Head(todo)[1] = "vm_pt_alloc"
      /\ vm_dup => Head(todo)[1] = "vm_dup"
      /\ vm_map_sec => Head(todo)[1] = "vm_map_sec"
      /\ vm_mmu_init => Head(todo)[1] = "vm_mmu_init"
      /\ domain_access_ctrl_set => Head(todo)[1] = "domain_access_ctrl_set"
      /\ vm_mmu_switch => Head(todo)[1] = "vm_mmu_switch"
      /\ vm_mmu_enable => Head(todo)[1] = "vm_mmu_enable"
      /\ vm_mmu_disable => Head(todo)[1] = "vm_mmu_disable"
      /\ kmalloc_init_set_start => Head(todo)[1] = "kmalloc_init_set_start"
      /\ Check => Head(todo)[1] \in Checks
  BY DEF kmalloc_init_set_start, vm_pt_alloc, vm_dup, vm_map_sec, vm_mmu_init, Calls, Check,
     domain_access_ctrl_set, vm_mmu_switch, vm_mmu_enable, vm_mmu_disable
<1>2. /\ mmu_sync_pte_mods => Head(todo)[1] = "mmu_sync_pte_mods"
      /\ caches_all_on => Head(todo)[1] = "caches_all_on"
      /\ GET32 => Head(todo)[1] = "GET32"
      /\ PUT32 => Head(todo)[1] = "PUT32"
      /\ dcache_should_miss => Head(todo)[1] = "dcache_should_miss"
      /\ icache_should_miss => Head(todo)[1] = "icache_should_miss"
      /\ SetHandler => Head(todo)[1] = "set_data_abort"
      /\ DataAbort => Head(todo)[1] \in {"GET32", "PUT32"}
      /\ eqx_fork => Head(todo)[1] = "eqx_fork"
  BY DEF mmu_sync_pte_mods, caches_all_on, GET32, PUT32, dcache_should_miss, icache_should_miss,
     SetHandler, DataAbort, eqx_fork, Calls
<1> QED BY <1>1, <1>2 DEF Step, Checks

\* Where a step that does not panic is, and that the next one is at the next call.
LEMMA MadeStep ==
  ASSUME TodoInv, Equiv, Follows, Next, ~Panic
  PROVE  /\ Step /\ Made + 1 \in 1..Len(Prog) /\ Head(todo) = Prog[Made + 1]
         /\ Equiv' /\ Prog' = Prog /\ Made' = Made + 1 /\ Follows'
<1>1. Step /\ Equiv' /\ Prog' = Prog
  BY DEF Next, ClientInst, Equiv, Prog
<1>2. todo \in Seq(AllCalls) /\ Len(todo) \in Nat /\ Prog \in Seq(AllCalls) /\ Len(Prog) \in Nat
  BY ProgTyped DEF TodoInv
<1>3. \E op : Calls(op) /\ (Returns \/ DataAbort)
  BY <1>1, StepReturns DEF DataAbort
<1>4. todo # <<>> /\ Len(todo) > 0
  BY <1>2, <1>3 DEF Calls
<1>5. /\ Made + 1 \in 1..Len(Prog) /\ Head(todo) = Prog[Made + 1]
  BY <1>2, <1>4 DEF Follows, Made
<1>6. ~DataAbort
  BY <1>5, CallAt DEF DataAbort, Calls
<1>7. todo' = Tail(todo)
  BY <1>3, <1>6 DEF Returns
<1>8. Made' = Made + 1
  BY <1>1, <1>2, <1>4, <1>7 DEF Made
<1>9. ASSUME NEW i \in 1..Len(Tail(todo)) PROVE Tail(todo)[i] = Prog[(Made + 1) + i]
  <2>1. i + 1 \in 1..Len(todo) /\ Tail(todo)[i] = todo[i + 1] /\ i \in Nat /\ Made \in Nat
    BY <1>2, <1>4 DEF Follows
  <2> QED BY <2>1 DEF Follows
<1>10. Made + 1 \in 0..Len(Prog)
  BY <1>2, <1>5
<1>11. Follows'
  BY <1>1, <1>7, <1>8, <1>9, <1>10 DEF Follows
<1> QED BY <1>1, <1>5, <1>8, <1>11

LEMMA Numbers == MB = 1048576 /\ PT_BYTES = 16384 /\ TH_BYTES = 116 /\ eqx_stack_size = 65536
BY SMT DEF MB, PT_BYTES, TH_BYTES, eqx_stack_size

\* Where eqx_fork puts the stack.
LEMMA ForkPlace ==
  ASSUME HeapInv
  PROVE  /\ KmallocStart(8) \in Nat /\ KmallocStart(8) >= heap.next
         /\ ThreadAt = KmallocStart(8) + 65536
<1>1. heap.next \in Nat
  BY DEF HeapInv
<1> QED BY <1>1, Numbers, SMT DEF KmallocStart, RoundUp, ThreadAt

LEMMA HeapFollows ==
  ASSUME VmInv, EquivInv, Equiv, Next, ~Panic
  PROVE  HeapAsInit'
<1>1. /\ Follows /\ HeapAsInit /\ TodoInv /\ HeapInv
  BY DEF EquivInv, VmInv
<1>2. /\ Step /\ Made + 1 \in 1..Len(Prog) /\ Head(todo) = Prog[Made + 1] /\ Made' = Made + 1
      /\ Made \in Nat
  BY <1>1, MadeStep DEF Follows
<1>3. heap \in [start : Nat, nbytes : Nat, next : Nat]
  BY <1>1 DEF HeapInv
<1>4. CASE Made = 0
  <2>1. Head(todo) = HeapOf(2)
    BY <1>2, <1>4, CallsBefore
  <2>2. Head(todo)[1] = "kmalloc_init_set_start" /\ Arg(1) = 2
    BY <2>1 DEF HeapOf, Arg
  <2>3. heap' = [start |-> 1 * MB, nbytes |-> 2 * MB, next |-> 1 * MB]
    BY <1>2, <2>2, StepOf DEF kmalloc_init_set_start
  <2> QED BY <1>2, <1>4, <2>3, Numbers, SMT DEF HeapAsInit
<1>5. CASE Made = 2
  <2>1. Head(todo)[1] = "vm_pt_alloc"
    BY <1>2, <1>5, CallsBefore
  <2>2. heap' = [heap EXCEPT !.next = KmallocStart(PT_BYTES) + PT_BYTES]
    BY <1>2, <2>1, StepOf DEF vm_pt_alloc, AllocTable
  <2>3. heap.start = MB /\ heap.nbytes = 2 * MB /\ heap.next = MB
    BY <1>1, <1>5 DEF HeapAsInit
  <2>4. KmallocStart(PT_BYTES) = 1048576
    BY <2>3, Numbers, SMT DEF KmallocStart, RoundUp
  <2> QED BY <1>2, <1>3, <1>5, <2>2, <2>3, <2>4, Numbers, SMT DEF HeapAsInit
<1>6. CASE Made \notin {0, 2}
  <2>1. UNCHANGED heap \/ eqx_fork
    <3>1. Head(todo)[1] \notin {"kmalloc_init_set_start", "vm_pt_alloc", "vm_dup"}
      BY <1>2, <1>6, CallAt
    <3> QED BY <1>2, <3>1, StepHeap DEF kmalloc_init_set_start, vm_pt_alloc, vm_dup, Calls
  <2>2. CASE UNCHANGED heap
    BY <1>1, <1>2, <1>6, <2>2 DEF HeapAsInit
  <2>3. CASE eqx_fork
    <3>1. Made + 1 > 17
      BY <1>2, <2>3, CallAt DEF eqx_fork, Calls
    <3>2. heap' = [heap EXCEPT !.next = ThreadAt + TH_BYTES]
      BY <2>3 DEF eqx_fork
    <3>3. ThreadAt \in Nat /\ ThreadAt >= heap.next
      BY <1>1, <1>3, ForkPlace, SMT
    <3>4. heap'.start = heap.start /\ heap'.nbytes = heap.nbytes /\ heap'.next = ThreadAt + 116
      BY <1>3, <3>2, Numbers, SMT
    <3>5. heap.start = 1048576 /\ heap.nbytes = 2097152 /\ heap.next >= 1048576 + 16384
          /\ heap.next \in Nat
      BY <1>1, <1>2, <1>3, <3>1, Numbers, SMT DEF HeapAsInit
    <3> QED BY <1>2, <3>1, <3>3, <3>4, <3>5, Numbers, SMT DEF HeapAsInit
  <2> QED BY <2>1, <2>2, <2>3
<1> QED BY <1>4, <1>5, <1>6

LEMMA MappedFollows ==
  ASSUME VmInv, EquivInv, Equiv, Next, ~Panic
  PROVE  MappedAsInit'
<1>1. /\ Follows /\ MappedAsInit /\ TodoInv /\ TableInv
  BY DEF EquivInv, VmInv
<1>2. /\ Step /\ Made + 1 \in 1..Len(Prog) /\ Head(todo) = Prog[Made + 1] /\ Made' = Made + 1
      /\ Made \in Nat
  BY <1>1, MadeStep DEF Follows
<1>3. /\ want \in [Tables -> [Sections -> Mapping \cup {None}]] /\ pt1 \in Tables
      /\ {SEG_CODE, SEG_HEAP, SEG_ILLEGAL} \subseteq Sections
  BY <1>1, CallsAssumption, VmAssumption DEF TableInv, SEG_CODE, SEG_HEAP, SEG_ILLEGAL
<1>4. CASE Made = 2
  <2>1. Head(todo) = <<"vm_pt_alloc", pt1>>
    BY <1>2, <1>4, CallsBefore
  <2>2. vm_pt_alloc /\ Arg(1) = pt1
    BY <1>2, <2>1, StepOf DEF Arg
  <2>3. want' = [want EXCEPT ![pt1] = [va \in Sections |-> None]]
    BY <2>2 DEF vm_pt_alloc, AllocTable
  <2> QED BY <1>2, <1>3, <1>4, <2>3 DEF MappedAsInit
<1>5. CASE Made \in 5..12
  <2> DEFINE va == Arg(2)
             w == [pa |-> Arg(3), attr |-> Arg(4)]
  <2>1. Head(todo)[1] = "vm_map_sec"
    <3>1. Made + 1 \in 6..13
      BY <1>2, <1>5
    <3> QED BY <1>2, <3>1, CallAt
  <2>2. vm_map_sec
    BY <1>2, <2>1, StepOf
  <2>3. /\ Arg(1) = pt1 /\ va # SEG_ILLEGAL /\ (Made # 5 => va # SEG_CODE)
    BY <1>2, <2>1, CallAt DEF Arg
  <2>4. va \in Sections /\ w \in Mapping /\ w # None
    <3>1. Arg(2) \in Sections /\ Arg(3) \in Sections /\ Arg(4) \in Pin
      BY <1>1, <2>2, CallFacts DEF vm_map_sec, CallTyped, Arg
    <3>2. pin_mk_demands(Arg(4))
      BY <2>2 DEF vm_map_sec, Calls, Asserts, Arg
    <3> QED BY <3>1, <3>2, VmAssumption DEF Mapping
  <2>5. want' = [want EXCEPT ![pt1][va] = w]
    BY <2>2, <2>3 DEF vm_map_sec
  <2>6. /\ Made = 5 => va = SEG_CODE
        /\ Made = 12 => va = SEG_HEAP /\ w.pa = 2
    <3>1. ASSUME Made = 5 PROVE va = SEG_CODE
      <4>1. Head(todo) = Map(pt1, SEG_CODE, SEG_CODE, kern)
        BY <1>2, <3>1, CallsMapping
      <4> QED BY <4>1 DEF Map, Arg
    <3>2. ASSUME Made = 12 PROVE va = SEG_HEAP /\ w.pa = 2
      <4>1. Head(todo) = Map(pt1, 1, 2, pin_mk_user(dom_user, 1, perm_rw_user, MEM_uncached))
        BY <1>2, <3>2, CallsMapping
      <4> QED BY <4>1 DEF Map, Arg, SEG_HEAP
    <3> QED BY <3>1, <3>2
  <2> HIDE DEF va, w
  <2>7. /\ want'[pt1][SEG_ILLEGAL] = want[pt1][SEG_ILLEGAL]
        /\ want'[pt1][va] = w
        /\ Made # 5 => want'[pt1][SEG_CODE] = want[pt1][SEG_CODE]
    BY <1>3, <2>3, <2>4, <2>5
  <2> QED BY <1>1, <1>2, <1>5, <2>4, <2>6, <2>7 DEF MappedAsInit
<1>6. CASE Made # 2 /\ Made \notin 5..12
  <2>1. Head(todo)[1] \notin {"vm_pt_alloc", "vm_dup", "vm_map_sec"}
    BY <1>2, <1>6, CallAt
  <2>2. UNCHANGED want
    BY <1>2, <2>1, StepTables DEF vm_pt_alloc, vm_dup, vm_map_sec, Calls
  <2> QED BY <1>1, <1>2, <1>6, <2>2 DEF MappedAsInit
<1> QED BY <1>4, <1>5, <1>6

LEMMA ControlFollows ==
  ASSUME VmInv, EquivInv, Equiv, Next, ~Panic
  PROVE  ControlAsInit'
<1>1. /\ Follows /\ ControlAsInit /\ TodoInv /\ ControlInv
  BY DEF EquivInv, VmInv
<1>2. /\ Step /\ Made + 1 \in 1..Len(Prog) /\ Head(todo) = Prog[Made + 1] /\ Made' = Made + 1
      /\ Made \in Nat
  BY <1>1, MadeStep DEF Follows
<1>3. cp15 \in [mmu : BOOLEAN, caches : BOOLEAN, asid : 0..63, ttbr : Tables]
  BY <1>1 DEF ControlInv
<1>4. Made' > 3 => domain_reg' = dom_all_access
  <2>1. CASE Made = 3
    BY <1>2, <2>1, CallsBefore, StepOf DEF vm_mmu_init, Arg
  <2>2. CASE Made # 3
    <3>1. Head(todo)[1] \notin {"vm_mmu_init", "domain_access_ctrl_set", "GET32", "PUT32"}
      BY <1>2, <2>2, CallAt
    <3>2. UNCHANGED domain_reg
      BY <1>2, <3>1, StepControl DEF vm_mmu_init, domain_access_ctrl_set, DataAbort, Calls
    <3> QED BY <1>1, <1>2, <2>2, <3>2 DEF ControlAsInit
  <2> QED BY <2>1, <2>2
<1>5. Made' > 13 => cp15'.ttbr = pt1
  <2>1. CASE Made = 13
    <3>1. vm_mmu_switch /\ Arg(1) = pt1
      BY <1>2, <2>1, CallsAfter, StepOf DEF Arg
    <3> QED BY <1>3, <3>1 DEF vm_mmu_switch
  <2>2. CASE Made # 13
    <3>1. Head(todo)[1] # "vm_mmu_switch"
      BY <1>2, <2>2, CallAt
    <3>2. cp15'.ttbr = cp15.ttbr
      BY <1>2, <1>3, <3>1, StepControl DEF vm_mmu_switch, vm_mmu_enable, vm_mmu_disable,
         caches_all_on, Calls
    <3> QED BY <1>1, <1>2, <2>2, <3>2 DEF ControlAsInit
  <2> QED BY <2>1, <2>2
<1>6. cp15'.mmu <=> Made' > 15
  <2>1. CASE Made = 15
    <3>1. vm_mmu_enable
      BY <1>2, <2>1, CallsAfter, StepOf DEF On
    <3> QED BY <1>2, <1>3, <2>1, <3>1 DEF vm_mmu_enable
  <2>2. CASE Made # 15
    <3>1. Head(todo)[1] \notin {"vm_mmu_enable", "vm_mmu_disable"}
      BY <1>2, <2>2, CallAt
    <3>2. cp15'.mmu = cp15.mmu
      BY <1>2, <1>3, <3>1, StepControl DEF vm_mmu_switch, vm_mmu_enable, vm_mmu_disable,
         caches_all_on, Calls
    <3> QED BY <1>1, <1>2, <2>2, <3>2 DEF ControlAsInit
  <2> QED BY <2>1, <2>2
<1> QED BY <1>4, <1>5, <1>6 DEF ControlAsInit

\* What the hardware finds in a table.
LEMMA WantedEntry ==
  ASSUME TableInv, ControlInv, NEW va \in Sections
  PROVE  /\ Entry(va) = EntryOf(want[cp15.ttbr][va])
         /\ want[cp15.ttbr][va] \in Mapping \cup {None}
BY DEF TableInv, ControlInv, Entry

\* With every domain a manager, only an entry that is not there faults.
LEMMA ManagerFaults ==
  ASSUME TableInv, ControlInv, cp15.mmu, domain_reg = dom_all_access, NEW va \in Sections,
         NEW mode, NEW access
  PROVE  /\ Faults(va, mode, access) <=> want[cp15.ttbr][va] = None
         /\ want[cp15.ttbr][va] # None => PhysAt(va) = want[cp15.ttbr][va].pa
<1> DEFINE w == want[cp15.ttbr][va]
           e == Entry(va)
<1>1. e = EntryOf(w) /\ w \in Mapping \cup {None}
  BY WantedEntry
<1> HIDE DEF w, e
<1>2. CASE w = None
  <2>1. e.tag = 0
    BY <1>1, <1>2 DEF EntryOf, ZeroPte, PteWidths
  <2> QED BY <1>2, <2>1 DEF Faults, FaultOf, w, e
<1>3. CASE w # None
  <2>1. e = Pte(w.pa, w.attr) /\ w \in Mapping
    BY <1>1, <1>3 DEF EntryOf
  <2>2. e.tag = 2 /\ e.sec_base_addr = w.pa /\ e.domain \in 0..15
    BY <2>1, EntryFields
  <2>3. domain_reg[e.domain] = DOM_manager
    BY <2>2 DEF dom_all_access
  <2>4. FaultOf(e, mode, access) = "none"
    BY <2>2, <2>3 DEF FaultOf, DOM_manager, DOM_no_access, DOM_client
  <2> QED BY <1>3, <2>2, <2>4 DEF Faults, PhysAt, w, e
<1> QED BY <1>2, <1>3

LEMMA StepStacks ==
  ASSUME Step
  PROVE  UNCHANGED stacks \/ eqx_fork
BY DEF Step, Panic, Check, kmalloc_init_set_start, vm_pt_alloc, vm_dup, AllocTable, vm_map_sec,
   vm_mmu_init, domain_access_ctrl_set, vm_mmu_switch, vm_mmu_enable, vm_mmu_disable,
   mmu_sync_pte_mods, caches_all_on, GET32, PUT32, dcache_should_miss, icache_should_miss,
   SetHandler, DataAbort

\* A new stack lies past all others, in the section mapped for them: a thread
\* block past it is not mapped, and the fork panics.
LEMMA StacksFollow ==
  ASSUME VmInv, EquivInv, Equiv, Next, ~Panic
  PROVE  StacksInv' /\ (Made' < 18 => stacks' = <<>>)
<1>1. /\ Follows /\ HeapAsInit /\ MappedAsInit /\ ControlAsInit /\ StacksInv
      /\ Made < 18 => stacks = <<>>
      /\ TodoInv /\ HeapInv /\ TableInv /\ ControlInv
  BY DEF EquivInv, VmInv
<1>2. /\ Step /\ Made + 1 \in 1..Len(Prog) /\ Head(todo) = Prog[Made + 1] /\ Made' = Made + 1
      /\ Made \in Nat
  BY <1>1, MadeStep DEF Follows
<1>3. CASE UNCHANGED stacks /\ stacks = <<>>
  BY <1>3 DEF StacksInv
<1>4. CASE UNCHANGED stacks /\ stacks # <<>>
  <2>1. Made >= 18
    BY <1>1, <1>2, <1>4
  <2>2. UNCHANGED heap \/ eqx_fork
    <3>1. Head(todo)[1] \notin {"kmalloc_init_set_start", "vm_pt_alloc", "vm_dup"}
      BY <1>2, <2>1, CallAt
    <3> QED BY <1>2, <3>1, StepHeap DEF kmalloc_init_set_start, vm_pt_alloc, vm_dup, Calls
  <2>3. ~eqx_fork
    <3>1. stacks \in Seq(Nat \X Nat)
      BY <1>1 DEF StacksInv
    <3>2. Len(Append(stacks, <<KmallocStart(8), ThreadAt>>)) = Len(stacks) + 1
      BY <3>1
    <3> QED BY <1>4, <3>1, <3>2 DEF eqx_fork
  <2> QED BY <1>1, <1>2, <1>4, <2>1, <2>2, <2>3 DEF StacksInv
<1>5. CASE eqx_fork
  <2> DEFINE s == KmallocStart(8)
             e == ThreadAt
             va == (ThreadAt + TH_BYTES - 1) \div MB
  <2>1. Made >= 17
    BY <1>2, <1>5, CallAt DEF eqx_fork, Calls
  <2>2. /\ heap.start = 1048576 /\ heap.nbytes = 2097152 /\ heap.next >= 1048576 + 16384
        /\ heap.next \in Nat
    BY <1>1, <1>2, <2>1, Numbers, SMT DEF HeapAsInit, HeapInv
  <2>3. /\ domain_reg = dom_all_access /\ cp15.ttbr = pt1 /\ cp15.mmu
        /\ want[pt1][SEG_ILLEGAL] = None
    BY <1>1, <1>2, <2>1 DEF ControlAsInit, MappedAsInit
  <2>4. StackFits /\ ~Faults(va, "svc", "write")
    BY <1>5 DEF eqx_fork, Calls, Asserts
  <2>5. s \in Nat /\ s >= heap.next /\ e = s + 65536
    BY <1>1, ForkPlace, SMT
  <2>6. e + 116 <= 3145728
    BY <2>2, <2>4, <2>5, Numbers, SMT DEF StackFits
  <2>7. va # SEG_ILLEGAL
    <3>1. SEG_ILLEGAL \in Sections
      BY VmAssumption DEF SEG_ILLEGAL
    <3>2. Faults(SEG_ILLEGAL, "svc", "write")
      BY <1>1, <2>3, <3>1, ManagerFaults
    <3> QED BY <2>4, <3>2
  <2>8. va = (e + 115) \div 1048576
    BY <2>5, Numbers, SMT
  <2> HIDE DEF s, e, va
  <2>9. e + 115 < 2097152
    BY <2>2, <2>5, <2>6, <2>7, <2>8, SMT DEF SEG_ILLEGAL
  <2>10. /\ stacks' = Append(stacks, <<s, e>>) /\ heap' = [heap EXCEPT !.next = e + TH_BYTES]
    BY <1>5 DEF eqx_fork, s, e
  <2>11. heap'.next = e + 116
    BY <1>1, <2>10, Numbers, SMT DEF HeapInv
  <2>12. stacks \in Seq(Nat \X Nat) /\ <<s, e>> \in Nat \X Nat
    BY <1>1, <2>5 DEF StacksInv
  <2>13. /\ stacks' \in Seq(Nat \X Nat) /\ DOMAIN stacks' = 1..(Len(stacks) + 1)
         /\ DOMAIN stacks = 1..Len(stacks) /\ Len(stacks) \in Nat
         /\ \A i \in DOMAIN stacks : stacks'[i] = stacks[i]
         /\ stacks'[Len(stacks) + 1] = <<s, e>>
    BY <2>10, <2>12
  <2>14. ASSUME NEW i \in DOMAIN stacks'
         PROVE  /\ MB + PT_BYTES <= stacks'[i][1] /\ stacks'[i][1] < stacks'[i][2]
                /\ stacks'[i][2] <= heap'.next /\ stacks'[i][2] < 2 * MB
    <3>1. CASE i \in DOMAIN stacks
      <4>1. /\ MB + PT_BYTES <= stacks[i][1] /\ stacks[i][1] < stacks[i][2]
            /\ stacks[i][2] <= heap.next /\ stacks[i][2] < 2 * MB
        BY <1>1, <3>1 DEF StacksInv
      <4>2. stacks[i][1] \in Nat /\ stacks[i][2] \in Nat /\ stacks'[i] = stacks[i]
        <5>1. stacks[i] \in Nat \X Nat
          BY <2>12, <3>1
        <5> QED BY <2>13, <3>1, <5>1
      <4> QED BY <2>2, <2>5, <2>11, <4>1, <4>2, Numbers, SMT
    <3>2. CASE i = Len(stacks) + 1
      BY <2>2, <2>5, <2>9, <2>11, <2>13, <3>2, Numbers, SMTT(20)
    <3> QED BY <2>13, <3>1, <3>2
  <2>15. ASSUME NEW i \in DOMAIN stacks', NEW j \in DOMAIN stacks', i < j
         PROVE  stacks'[i][2] <= stacks'[j][1]
    <3>1. i \in DOMAIN stacks /\ stacks'[i] = stacks[i] /\ stacks[i][2] \in Nat
      <4>1. i \in 1..(Len(stacks) + 1) /\ j \in 1..(Len(stacks) + 1)
        BY <2>13, <2>15
      <4>2. i \in 1..Len(stacks)
        BY <2>13, <2>15, <4>1
      <4>3. stacks[i] \in Nat \X Nat
        BY <2>12, <4>2
      <4> QED BY <2>13, <4>2, <4>3
    <3>2. CASE j \in DOMAIN stacks
      BY <1>1, <2>13, <2>15, <3>1, <3>2 DEF StacksInv
    <3>3. CASE j = Len(stacks) + 1
      <4>1. stacks[i][2] <= heap.next
        BY <1>1, <3>1 DEF StacksInv
      <4>2. heap.next \in Nat /\ s \in Nat /\ heap.next <= s
        BY <2>2, <2>5
      <4>3. stacks'[j][1] = s
        BY <2>13, <3>3
      <4> QED BY <3>1, <4>1, <4>2, <4>3, SMT
    <3> QED BY <2>13, <3>2, <3>3
  <2>16. ~(Made' < 18)
    BY <1>2, <2>1
  <2> QED BY <2>13, <2>14, <2>15, <2>16 DEF StacksInv
<1> QED BY <1>2, <1>3, <1>4, <1>5, StepStacks

LEMMA EquivInit == Init => EquivInv
<1> SUFFICES ASSUME Init, Equiv
             PROVE  Follows /\ HeapAsInit /\ MappedAsInit /\ ControlAsInit /\ StacksInv
                    /\ (Made < 18 => stacks = <<>>)
  BY DEF EquivInv
<1>1. todo = Prog /\ Prog \in Seq(AllCalls) /\ Len(Prog) \in Nat
  BY ProgTyped DEF Init, Prog
<1>2. Made = 0
  BY <1>1 DEF Made
<1>3. Follows
  BY <1>1, <1>2 DEF Follows
<1>4. stacks = <<>> /\ ~cp15.mmu
  BY DEF Init
<1> QED BY <1>2, <1>3, <1>4 DEF HeapAsInit, MappedAsInit, ControlAsInit, StacksInv

LEMMA EquivStep == VmInv /\ EquivInv /\ [Next]_allVars => EquivInv'
<1> SUFFICES ASSUME VmInv, EquivInv, [Next]_allVars, Equiv' PROVE EquivInv'
  BY DEF EquivInv
<1>1. Equiv /\ UNCHANGED program
  BY DEF Next, allVars, Equiv
<1>2. CASE Panic \/ UNCHANGED allVars
  <2>1. UNCHANGED <<todo, heap, want, cp15, domain_reg, stacks>>
    BY <1>2 DEF Panic, allVars, vars, ptVars
  <2>2. Prog' = Prog /\ Made' = Made
    BY <1>1, <2>1 DEF Prog, Made
  <2> QED BY <1>1, <2>1, <2>2 DEF EquivInv, Equiv, Follows, HeapAsInit, MappedAsInit,
             ControlAsInit, StacksInv
<1>3. CASE Next /\ ~Panic
  <2>1. Follows'
    BY <1>1, <1>3, MadeStep DEF EquivInv, VmInv
  <2> QED BY <1>1, <1>3, <2>1, HeapFollows, MappedFollows, ControlFollows, StacksFollow DEF EquivInv
<1> QED BY <1>2, <1>3

\* Under eqx_init_w_vm, with or without caches, and for any number of forks:
\* in user mode the threads that could be forked fetch the program's code and
\* write their stacks, whose memory holds no other stack and no part of the
\* page table (eqx-threads.c:540-627, pt-vm.c, kmalloc).
THEOREM ThreadsRunInUserMode == Spec => []ThreadsCanRun
<1>1. VmInv /\ EquivInv => ThreadsCanRun
  <2> SUFFICES ASSUME VmInv, EquivInv, Equiv, cp15.mmu
               PROVE  /\ ~Faults(SEG_CODE, "usr", "fetch") /\ ~Faults(SEG_CODE, "usr", "write")
                      /\ \A i \in DOMAIN stacks :
                           \A b \in {stacks[i][1], stacks[i][2] - 1} :
                             /\ ~Faults(b \div MB, "usr", "write")
                             /\ PhysAt(b \div MB) * MB + (b % MB)
                                  \notin (SEG_HEAP * MB)..(SEG_HEAP * MB + PT_BYTES - 1)
                             /\ \A j \in DOMAIN stacks \ {i} : b \notin stacks[j][1]..(stacks[j][2] - 1)
    BY DEF ThreadsCanRun, Equiv
  <2>1. /\ Made > 15 /\ domain_reg = dom_all_access /\ cp15.ttbr = pt1
        /\ want[pt1][SEG_CODE] # None
        /\ want[pt1][SEG_HEAP] # None /\ want[pt1][SEG_HEAP].pa = 2
        /\ StacksInv /\ TableInv /\ ControlInv
    <3>1. ControlAsInit /\ MappedAsInit /\ Follows /\ StacksInv /\ TableInv /\ ControlInv
      BY DEF EquivInv, VmInv
    <3>2. Made > 15 /\ Made \in Nat
      BY <3>1, ProgTyped DEF ControlAsInit, Follows
    <3> QED BY <3>1, <3>2 DEF ControlAsInit, MappedAsInit
  <2>2. SEG_CODE \in Sections /\ SEG_HEAP \in Sections
    BY VmAssumption DEF SEG_CODE, SEG_HEAP
  <2>3. ~Faults(SEG_CODE, "usr", "fetch") /\ ~Faults(SEG_CODE, "usr", "write")
    BY <2>1, <2>2, ManagerFaults
  <2>4. ~Faults(SEG_HEAP, "usr", "write") /\ PhysAt(SEG_HEAP) = 2
    BY <2>1, <2>2, ManagerFaults
  <2>5. ASSUME NEW i \in DOMAIN stacks, NEW b \in {stacks[i][1], stacks[i][2] - 1}
        PROVE  /\ ~Faults(b \div MB, "usr", "write")
               /\ PhysAt(b \div MB) * MB + (b % MB)
                    \notin (SEG_HEAP * MB)..(SEG_HEAP * MB + PT_BYTES - 1)
               /\ \A j \in DOMAIN stacks \ {i} : b \notin stacks[j][1]..(stacks[j][2] - 1)
    <3>1. /\ stacks[i][1] \in Nat /\ stacks[i][2] \in Nat
          /\ 1048576 <= stacks[i][1] /\ stacks[i][1] < stacks[i][2] /\ stacks[i][2] < 2097152
      BY <2>1, Numbers, SMT DEF StacksInv
    <3>2. b \in Nat /\ b \div 1048576 = 1
      BY <3>1, SMT
    <3>3. b \div MB = SEG_HEAP /\ b % MB \in Nat
      BY <3>2, Numbers, SMT DEF SEG_HEAP
    <3>4. PhysAt(b \div MB) * MB + (b % MB) >= 2097152
      BY <2>4, <3>3, Numbers, SMT
    <3>5. ASSUME NEW j \in DOMAIN stacks \ {i} PROVE b \notin stacks[j][1]..(stacks[j][2] - 1)
      <4>1. stacks[j][1] \in Nat /\ stacks[j][2] \in Nat /\ i \in Nat /\ j \in Nat
        BY <2>1 DEF StacksInv
      <4>2. i < j \/ j < i
        BY <4>1
      <4>3. stacks[i][2] <= stacks[j][1] \/ stacks[j][2] <= stacks[i][1]
        BY <2>1, <4>2 DEF StacksInv
      <4> QED BY <3>1, <4>1, <4>3, SMT
    <3>6. ~Faults(b \div MB, "usr", "write")
      BY <2>4, <3>3
    <3>7. SEG_HEAP * MB + PT_BYTES - 1 = 1064959 /\ SEG_HEAP * MB = 1048576
      BY Numbers, SMT DEF SEG_HEAP
    <3>8. PhysAt(b \div MB) * MB + (b % MB)
            \notin (SEG_HEAP * MB)..(SEG_HEAP * MB + PT_BYTES - 1)
      BY <3>4, <3>7, SMT
    <3> QED BY <3>5, <3>6, <3>8
  <2> QED BY <2>3, <2>5
<1>2. Init => EquivInv
  BY EquivInit
<1>3. VmInv /\ EquivInv /\ [Next]_allVars => EquivInv'
  BY EquivStep
<1> QED BY <1>1, <1>2, <1>3, VmInit, VmStep, PTL DEF Spec
=============================================================================
