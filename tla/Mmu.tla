--------------------------------- MODULE Mmu ---------------------------------
(***************************************************************************)
(* Virtual memory: mmu.c, your-mmu-asm.S and the parts of pt-vm.c and      *)
(* cache-support.h that change a page table or a control register.         *)
(*                                                                         *)
(* The kernel calls these routines one after the other.  Each becomes a    *)
(* sequence of instructions, and between any two of them the hardware may  *)
(* walk the page table, evict a cache line or drain the write buffer.  The *)
(* hardware is modelled from what the routines' barriers are for.  A page  *)
(* table walk reads memory, past the data cache and the write buffer.  A   *)
(* write to a cp15 register is sure to be in effect only after a prefetch  *)
(* flush, and a TLB invalidation only after a DSB.  The instruction cache  *)
(* and the control bits of it, of the branch predictor and of the write    *)
(* buffer, which is taken to be always on, are left out.                   *)
(*                                                                         *)
(* Addresses are numbers of 1MB sections.  Section 0 stands for the        *)
(* kernel's code, stack and heap, with the page tables in it.              *)
(***************************************************************************)
EXTENDS Integers, Sequences, FiniteSets

CONSTANTS
    Sections,        \* the virtual and physical sections
    Tables,          \* the page tables
    AsidOf(_),       \* the address space id the kernel uses with a table
    Vals,            \* contents of a section
    TlbSize,         \* number of entries the TLB holds
    Uses             \* what a kernel can do with them: see Use

Mapping == [pt : Tables, va : Sections \ {0}, base : Sections \ {0}]
Asids == {AsidOf(t) : t \in Tables}

\* The physical sections mapped with write-back caching, those whose contents
\* are followed, and the private sections the kernel maps.
Use == [cached : SUBSET Sections, data : SUBSET (Sections \ {0}), maps : SUBSET Mapping]

ASSUME VmAssumption ==
    /\ 0 \in Sections /\ Sections \subseteq Nat
    /\ \A t \in Tables : AsidOf(t) \in 1..63
    /\ \A t, u \in Tables : AsidOf(t) = AsidOf(u) => t = u
    /\ TlbSize \in Nat \ {0}
    /\ Uses \subseteq Use

\* fld_t, with the fields the translation depends on.
Pte == [tag : BOOLEAN, nG : BOOLEAN, base : Sections]
ZeroPte == [tag |-> FALSE, nG |-> FALSE, base |-> 0]

\* cp15 control register 1, as the set of its bits that are on.
CtrlBits == {"MMU_enabled", "C_unified_enable", "XP_pt"}

VARIABLES
    use,         \* what this kernel does, one of Uses
    code,        \* instructions the kernel has still to execute
    cp15,        \* control register, asid and ttbr0 as last written
    stale,       \* values of theirs that may still be in effect
    btb,         \* branch predictions from another mapping may remain
    tlb,
    doomed,      \* TLB entries whose invalidation is not complete
    dcache,      \* cached locations: value, and whether memory is older
    wbuf,        \* stores on their way to memory
    mem,
    inited,      \* history: vm_mmu_init was called
    hot,         \* history: the MMU has been on
    unsynced,    \* history: a table changed since, and mmu_sync_pte_mods was not called
    last,        \* history: the last value stored in each section
    failed       \* an assertion failed

cpuVars == <<cp15, stale, btb>>
memVars == <<dcache, wbuf, mem>>
ghosts  == <<inited, hot, unsynced, last>>
vars == <<use, code, cpuVars, tlb, doomed, memVars, ghosts, failed>>

\* Places in memory: a page-table entry or the contents of a section.
Slots == Tables \X Sections
Cells == {<<s>> : s \in use.data}
Locs == Slots \cup Cells
Cachable(l) == (IF l \in Slots THEN 0 ELSE l[1]) \in use.cached

NoLocs == [l \in {} |-> ZeroPte]
NotStale == [ctrl |-> {}, asid |-> {}, ttbr |-> {}]

\* What the CPU reads at a location: MMU and data cache on, or not.
CachesOn == {"MMU_enabled", "C_unified_enable"} \subseteq cp15.ctrl
UsesCache(l) == CachesOn /\ Cachable(l)
Uncached(l) == IF l \in DOMAIN wbuf THEN wbuf[l] ELSE mem[l]
CpuView(l) ==
    IF UsesCache(l) /\ l \in DOMAIN dcache THEN dcache[l].val ELSE Uncached(l)

Put(f, l, v) == [x \in DOMAIN f \cup {l} |-> IF x = l THEN v ELSE f[x]]
Over(f, g) == [x \in DOMAIN f \cup DOMAIN g |-> IF x \in DOMAIN f THEN f[x] ELSE g[x]]
Without(f, l) == [x \in DOMAIN f \ {l} |-> f[x]]
-----------------------------------------------------------------------------
(* The hardware.                                                           *)

Global == -1

InEffect(reg) == stale[reg] \cup {cp15[reg]}

\* An entry of a global page belongs to no address space.
TlbEntry(va, pte, asid) ==
    [va |-> va, asid |-> IF pte.nG THEN asid ELSE Global, pa |-> pte.base]
Hits(e, va, asid) == e.va = va /\ e.asid \in {Global, asid}

\* A walk of the table for any address, with the registers in effect.
Walk ==
    /\ \E c \in InEffect("ctrl") : "MMU_enabled" \in c
    /\ Cardinality(tlb) < TlbSize
    /\ \E t \in InEffect("ttbr"), a \in InEffect("asid"), va \in Sections :
         /\ ~\E e \in tlb : Hits(e, va, a)
         /\ mem[<<t, va>>].tag
         /\ tlb' = tlb \cup {TlbEntry(va, mem[<<t, va>>], a)}
    /\ UNCHANGED <<code, cpuVars, doomed, memVars, ghosts, failed>>

TlbEvict ==
    /\ \E e \in tlb : tlb' = tlb \ {e} /\ doomed' = doomed \ {e}
    /\ UNCHANGED <<code, cpuVars, memVars, ghosts, failed>>

WrittenBack == [l \in {m \in DOMAIN dcache : dcache[m].dirty} |-> dcache[l].val]

\* A cache line is replaced, and written to memory when it is dirty.
LineEvict ==
    /\ CachesOn
    /\ \E l \in DOMAIN dcache :
         /\ dcache' = Without(dcache, l)
         /\ \/ /\ dcache[l].dirty
               /\ mem' = [mem EXCEPT ![l] = dcache[l].val]
               /\ wbuf' = Without(wbuf, l)
            \/ ~dcache[l].dirty /\ UNCHANGED <<mem, wbuf>>
    /\ UNCHANGED <<code, cpuVars, tlb, doomed, ghosts, failed>>

Drain ==
    /\ \E l \in DOMAIN wbuf :
         mem' = [mem EXCEPT ![l] = wbuf[l]] /\ wbuf' = Without(wbuf, l)
    /\ UNCHANGED <<code, cpuVars, tlb, doomed, dcache, ghosts, failed>>

Hardware == Walk \/ TlbEvict \/ LineEvict \/ Drain
-----------------------------------------------------------------------------
(* The instructions.                                                       *)

Operations == {"dsb", "prefetch_flush", "flush_btb", "inv_tlb", "inv_dcache",
               "clean_inv_dcache", "ctrl", "asid", "ttbr", "str"}

Executes(op) == code # <<>> /\ Head(code)[1] = op /\ code' = Tail(code)
Operand == Head(code)[2]

DSB ==
    /\ Executes("dsb")
    /\ mem' = Over(wbuf, mem) /\ wbuf' = NoLocs
    /\ tlb' = tlb \ doomed /\ doomed' = {}
    /\ UNCHANGED <<cpuVars, dcache, ghosts, failed>>

PREFETCH_FLUSH ==
    /\ Executes("prefetch_flush")
    /\ stale' = NotStale
    /\ UNCHANGED <<cp15, btb, tlb, doomed, memVars, ghosts, failed>>

FLUSH_BTB ==
    /\ Executes("flush_btb")
    /\ btb' = FALSE
    /\ UNCHANGED <<cp15, stale, tlb, doomed, memVars, ghosts, failed>>

INV_TLB ==
    /\ Executes("inv_tlb")
    /\ doomed' = tlb /\ btb' = TRUE
    /\ UNCHANGED <<cp15, stale, tlb, memVars, ghosts, failed>>

INV_DCACHE ==
    /\ Executes("inv_dcache")
    /\ dcache' = NoLocs
    /\ UNCHANGED <<cpuVars, tlb, doomed, wbuf, mem, ghosts, failed>>

CLEAN_INV_DCACHE ==
    /\ Executes("clean_inv_dcache")
    /\ dcache' = NoLocs /\ wbuf' = Over(WrittenBack, wbuf)
    /\ UNCHANGED <<cpuVars, tlb, doomed, mem, ghosts, failed>>

\* CONTROL_REG1_WR, ASID_SET and TTBR0_SET.
RegisterSet ==
    \E reg \in {"ctrl", "asid", "ttbr"} :
      /\ Executes(reg)
      /\ cp15' = [cp15 EXCEPT ![reg] = Operand]
      /\ stale' = [stale EXCEPT ![reg] = @ \cup {cp15[reg]}]
      /\ btb' = (btb \/ reg # "ctrl"
                     \/ ("MMU_enabled" \in Operand) # ("MMU_enabled" \in cp15.ctrl))
      /\ UNCHANGED <<tlb, doomed, memVars, ghosts, failed>>

\* A store in kernel memory.
StoreTo(l, v) ==
    \/ /\ UsesCache(l)
       /\ dcache' = Put(dcache, l, [val |-> v, dirty |-> TRUE])
       /\ UNCHANGED wbuf
    \/ /\ ~UsesCache(l)
       /\ wbuf' = Put(wbuf, l, v)
       /\ UNCHANGED dcache

STR ==
    /\ Executes("str")
    /\ StoreTo(Operand, Head(code)[3])
    /\ UNCHANGED <<cpuVars, tlb, doomed, mem, ghosts, failed>>

Instruction ==
    \/ DSB \/ PREFETCH_FLUSH \/ FLUSH_BTB \/ INV_TLB \/ INV_DCACHE
    \/ CLEAN_INV_DCACHE \/ RegisterSet \/ STR
-----------------------------------------------------------------------------
(* The routines of your-mmu-asm.S.                                         *)

mmu_reset ==
    << <<"inv_dcache">>, <<"inv_tlb">>, <<"dsb">>, <<"flush_btb">>, <<"dsb">>,
       <<"prefetch_flush">> >>

cp15_ctrl_reg1_wr(c) == << <<"ctrl", c>>, <<"prefetch_flush">> >>

\* Fault: the new table comes under the old address space id.
NoAsidZero(asid, t) ==
    << <<"dsb">>, <<"ttbr", t>>, <<"flush_btb">>, <<"prefetch_flush">>,
       <<"asid", asid>>, <<"flush_btb">>, <<"prefetch_flush">> >>

\* Fault: pid and asid change places in the register: it gets the low bits of 0x140e.
PidAsAsid(asid, t) ==
    << <<"dsb">>, <<"asid", 0>>, <<"prefetch_flush">>,
       <<"ttbr", t>>, <<"flush_btb">>, <<"prefetch_flush">>,
       <<"asid", 14>>, <<"flush_btb">>, <<"prefetch_flush">> >>

cp15_set_procid_ttbr0(asid, t) ==
    << <<"dsb">>, <<"asid", 0>>, <<"prefetch_flush">>,
       <<"ttbr", t>>, <<"flush_btb">>, <<"prefetch_flush">>,
       <<"asid", asid>>, <<"flush_btb">>, <<"prefetch_flush">> >>

\* Fault: the data cache is invalidated and not cleaned.
DisableNoClean(c) ==
    << <<"inv_dcache">>, <<"dsb">>, <<"ctrl", c>>, <<"prefetch_flush">>,
       <<"flush_btb">>, <<"dsb">>, <<"prefetch_flush">> >>

mmu_disable_set_asm(c) ==
    << <<"clean_inv_dcache">>, <<"dsb">>, <<"ctrl", c>>, <<"prefetch_flush">>,
       <<"flush_btb">>, <<"dsb">>, <<"prefetch_flush">> >>

\* Fault: no DSB, the stores to the table may still be in the write buffer.
EnableNoDSB(c) ==
    << <<"ctrl", cp15.ctrl>>, <<"prefetch_flush">>,
       <<"ctrl", c>>, <<"prefetch_flush">>, <<"flush_btb">>, <<"prefetch_flush">> >>

mmu_enable_set_asm(c) ==
    << <<"ctrl", cp15.ctrl>>, <<"prefetch_flush">>, <<"dsb">>,
       <<"ctrl", c>>, <<"prefetch_flush">>, <<"flush_btb">>, <<"prefetch_flush">> >>

\* Fault: the TLB is invalidated before the changed entries are in memory.
SyncTlbFirst ==
    << <<"inv_tlb">>, <<"flush_btb">>, <<"dsb">>, <<"clean_inv_dcache">>, <<"dsb">>,
       <<"prefetch_flush">> >>

\* Fault: the branch predictor keeps its entries.
SyncKeepsBTB ==
    << <<"clean_inv_dcache">>, <<"dsb">>, <<"inv_tlb">>, <<"dsb">>, <<"prefetch_flush">> >>

sync_pte_mods ==
    << <<"clean_inv_dcache">>, <<"dsb">>, <<"inv_tlb">>, <<"flush_btb">>, <<"dsb">>,
       <<"prefetch_flush">> >>
-----------------------------------------------------------------------------
(* The calls of the kernel.                                                *)

Idle == code = <<>> /\ ~failed
mmu_is_enabled == "MMU_enabled" \in cp15.ctrl

Call(instructions) ==
    /\ Idle
    /\ code' = instructions
    /\ UNCHANGED <<cpuVars, tlb, doomed, memVars, failed>>

Fails ==
    /\ Idle
    /\ failed' = TRUE
    /\ UNCHANGED <<code, cpuVars, tlb, doomed, memVars, ghosts>>

\* The domain register, which no property reads, is left out.
vm_mmu_init ==
    /\ Call(mmu_reset \o cp15_ctrl_reg1_wr(cp15.ctrl \cup {"XP_pt"}))
    /\ inited' = TRUE
    /\ UNCHANGED <<hot, unsynced, last>>

\* vm_map_sec sets the fields of the entry one after the other.
vm_map_sec(t, va, nG, base) ==
    LET slot == <<t, va>>
        old  == CpuView(slot)
    IN  /\ Call(<< <<"str", slot, [old EXCEPT !.tag = TRUE]>>,
                   <<"str", slot, [old EXCEPT !.tag = TRUE, !.nG = nG]>>,
                   <<"str", slot, [tag |-> TRUE, nG |-> nG, base |-> base]>> >>)
        /\ unsynced' = hot
        /\ UNCHANGED <<inited, hot, last>>

vm_mmu_switch(t) ==
    /\ Call(cp15_set_procid_ttbr0(AsidOf(t), t))
    /\ UNCHANGED ghosts

vm_mmu_enable ==
    /\ ~mmu_is_enabled
    /\ Call(mmu_enable_set_asm(cp15.ctrl \cup {"MMU_enabled"}))
    /\ hot' = TRUE
    /\ UNCHANGED <<inited, unsynced, last>>

vm_mmu_disable ==
    LET c == cp15.ctrl \ {"MMU_enabled"}
    IN  /\ mmu_is_enabled
        /\ Call(mmu_disable_set_asm(c)
                \o (IF "C_unified_enable" \in c THEN cp15_ctrl_reg1_wr(c) ELSE <<>>))
        /\ UNCHANGED ghosts

mmu_sync_pte_mods ==
    /\ Call(sync_pte_mods)
    /\ unsynced' = FALSE
    /\ UNCHANGED <<inited, hot, last>>

\* Of its four writes, the one of dcache_l1_on.
caches_all_on ==
    /\ mmu_is_enabled
    /\ Call(cp15_ctrl_reg1_wr(cp15.ctrl \cup {"C_unified_enable"}))
    /\ UNCHANGED ghosts

\* The assertions of vm_mmu_enable, vm_mmu_disable and caches_all_on.
EnableTwice == mmu_is_enabled /\ Fails
NotEnabled  == ~mmu_is_enabled /\ Fails

\* Loads and stores of the section at va, through the TLB when the MMU is on.
Translates(va, pa) ==
    IF mmu_is_enabled
      THEN \E e \in tlb : Hits(e, va, cp15.asid) /\ e.pa = pa
      ELSE va = pa

Store(va, pa, v) ==
    /\ Idle
    /\ Translates(va, pa)
    /\ StoreTo(<<pa>>, v)
    /\ last' = [last EXCEPT ![IF mmu_is_enabled THEN CpuView(<<cp15.ttbr, va>>).base ELSE va] = v]
    /\ UNCHANGED <<code, cpuVars, tlb, doomed, mem, inited, hot, unsynced, failed>>

Load(va, pa) ==
    /\ Idle
    /\ Translates(va, pa)
    /\ UsesCache(<<pa>>) /\ <<pa>> \notin DOMAIN dcache
    /\ dcache' = Put(dcache, <<pa>>, [val |-> Uncached(<<pa>>), dirty |-> FALSE])
    /\ UNCHANGED <<code, cpuVars, tlb, doomed, wbuf, mem, ghosts, failed>>
-----------------------------------------------------------------------------
\* At boot the caches and the TLB hold anything, and both are off.
Init ==
    /\ use \in Uses
    /\ code = <<>> /\ failed = FALSE
    /\ cp15 \in [ctrl : {{}}, asid : {0}, ttbr : Tables]
    /\ stale = NotStale /\ btb = TRUE
    /\ tlb \in {{}} \cup {{TlbEntry(va, ZeroPte, 0)} : va \in Sections}
    /\ doomed = {}
    /\ \E v \in Vals :
         /\ last = [s \in use.data |-> v]
         /\ mem = [l \in Locs |-> IF l \in Slots THEN ZeroPte ELSE v]
         /\ dcache \in {NoLocs} \cup {[l \in Cells |-> [val |-> w, dirty |-> TRUE]] : w \in Vals}
    /\ wbuf = NoLocs
    /\ inited = FALSE /\ hot = FALSE /\ unsynced = FALSE

\* The kernel keeps to mmu.h: it initialises first and once, gives the CPU a
\* table and an address space, with its own section mapped, before the MMU goes
\* on, and loads and stores through a changed table only after mmu_sync_pte_mods.
MapsKernel(t) == CpuView(<<t, 0>>).tag

Kernel ==
    \/ ~inited /\ vm_mmu_init
    \/ /\ inited
       /\ \/ \E t \in Tables : ~MapsKernel(t) /\ vm_map_sec(t, 0, FALSE, 0)
          \/ \E m \in use.maps : vm_map_sec(m.pt, m.va, TRUE, m.base)
          \/ \E t \in Tables : (mmu_is_enabled => MapsKernel(t)) /\ vm_mmu_switch(t)
          \/ cp15.asid # 0 /\ MapsKernel(cp15.ttbr) /\ vm_mmu_enable
          \/ EnableTwice
          \/ NotEnabled
          \/ vm_mmu_disable
          \/ mmu_sync_pte_mods
          \/ caches_all_on
          \/ /\ ~unsynced
             /\ \E va \in Sections \ {0}, pa \in use.data :
                  Load(va, pa) \/ \E v \in Vals : Store(va, pa, v)

Next == (Hardware \/ Instruction \/ Kernel) /\ UNCHANGED use

Spec == Init /\ [][Next]_vars
-----------------------------------------------------------------------------
TypeOK ==
    /\ \A i \in DOMAIN code : code[i][1] \in Operations
    /\ cp15 \in [ctrl : SUBSET CtrlBits, asid : Asids \cup {0}, ttbr : Tables]
    /\ stale \in [ctrl : SUBSET SUBSET CtrlBits, asid : SUBSET (Asids \cup {0}),
                  ttbr : SUBSET Tables]
    /\ doomed \subseteq tlb

\* Once changed entries have been synchronised, the TLB gives no translation
\* that the current table does not give, whatever walks were made before,
\* between and after the stores of vm_map_sec and in the middle of a switch of
\* address spaces (your-mmu-asm.S:127-153, 237-251, pt-vm.c:91-111).
TranslationsCurrent ==
    Idle /\ mmu_is_enabled /\ ~unsynced =>
      \A e \in tlb, va \in Sections :
        Hits(e, va, cp15.asid) =>
          /\ CpuView(<<cp15.ttbr, va>>).tag
          /\ e = TlbEntry(va, CpuView(<<cp15.ttbr, va>>), cp15.asid)

\* No store is lost or undone when caches and MMU go on and off: every section
\* reads as what was last stored in it, with the MMU on or off
\* (mmu.c:33-45, your-mmu-asm.S:64-101, 156-191).
NoLostWrites ==
    Idle /\ inited => \A s \in use.data : CpuView(<<s>>) = last[s]

\* While the MMU may be on, a walk through any table that may be in effect finds
\* the kernel's own section: no instruction fetch faults when the MMU goes on and
\* when address spaces are switched, although vm_map_kernel stores the entries
\* with no barrier of its own (pt-vm.c:210-227, your-mmu-asm.S:131, 216).  When
\* the tables are cached, only mmu_sync_pte_mods gets a changed entry to memory.
KernelReachable ==
    /\ 0 \in use.cached => Idle /\ ~unsynced
    /\ \E c \in InEffect("ctrl") : "MMU_enabled" \in c
    => \A t \in InEffect("ttbr") : mem[<<t, 0>>].tag

\* A routine returns with everything it did in effect: no cp15 write, no TLB
\* invalidation and no branch prediction of another mapping is left over.
ReturnsInSync ==
    Idle /\ inited => stale = NotStale /\ doomed = {} /\ ~btb
=============================================================================
