--------------------------------- MODULE Vm ---------------------------------
(***************************************************************************)
(* The virtual memory of a program: the routines of pt-vm.c, mmu.c and     *)
(* cache-support.h, procmap.h, the heap, and the loads and stores that     *)
(* show what they did.                                                     *)
(*                                                                         *)
(* A program is a sequence of calls, each of them one step: what the       *)
(* hardware does in the middle of one is the subject of Mmu, whose         *)
(* TranslationsCurrent lets this module translate by the table itself.     *)
(* Addresses are numbers of sections, those in the heap are bytes; a       *)
(* section of memory holds one value.                                      *)
(***************************************************************************)
EXTENDS PageTables, FiniteSets

CONSTANTS
    Sections,        \* the virtual and physical sections
    Tables,          \* page tables
    Vals,            \* contents of a section
    code_start,      \* of the linker: first byte of the program, and its end
    prog_end,
    None

\* pin_t, with domains that have an access in the domain register; the
\* permissions and the asid are what pin_mk checks.
Pin == [G : 0..1, dom : 0..15, asid : Nat, AP_perm : Nat, mem_attr : MemTypes]

Mapping == [pa : Sections, attr : {a \in Pin : pin_mk_demands(a)}]

ASSUME VmAssumption ==
    /\ Sections \subseteq 0..4095 /\ {0, 1, 2} \subseteq Sections
    /\ 0 \in Vals
    /\ code_start \in Nat /\ prog_end \in Nat
    /\ None \notin Mapping

VARIABLES
    todo,        \* calls the program has still to make
    panicked,
    heap,        \* of kmalloc: first byte, size and first free byte
    pts,         \* the page tables, all entries 0 at first
    want,        \* history: what each section was last mapped to, or None
    cp15,        \* MMU_enabled, the caches, asid and ttbr0
    domain_reg,
    dcache,      \* the data cache: contents by physical section
    icache,      \* the sections with code in the instruction cache
    ram,
    handler,     \* what the program's data abort handler does
    aborts,      \* history: address and domain register at the data aborts
    stacks       \* of the threads: first byte and end

ptVars == <<pts, want>>
cacheVars == <<dcache, icache, ram>>
vars == <<todo, panicked, heap, ptVars, cp15, domain_reg, cacheVars, handler, aborts, stacks>>

MB == 1024 * 1024

\* Lines of the cache on top of the memory.
Over(lines, below) ==
    [pa \in DOMAIN lines \cup DOMAIN below |-> IF pa \in DOMAIN lines THEN lines[pa] ELSE below[pa]]
Line(pa, v) == [x \in {pa} |-> v]

DomainReg == [0..15 -> {DOM_no_access, DOM_client, DOM_manager}]

SEG_CODE == 0
SEG_HEAP == 1
SEG_ILLEGAL == 2
SEG_STACK == 127
SEG_INT_STACK == 143
SEG_BCM == {512, 513, 514}

dom_kern == 1
dom_user == 2
dom_bits == dom_perm({dom_kern, dom_user}, DOM_client)

\* Fault: ones in every second bit make clients, not managers.
AllClients == [i \in 0..15 |-> DOM_client]

dom_all_access == [i \in 0..15 |-> DOM_manager]

dom_no_access == [i \in 0..15 |-> DOM_no_access]
-----------------------------------------------------------------------------
(* Translations.                                                           *)

\* Fault: an entry is taken for valid whatever its tag.
LookupAny(pt, va) == TRUE

vm_lookup(pt, va) == pts[pt][va].tag = 2

\* The physical section, or None.
vm_xlate(pt, va) == IF vm_lookup(pt, va) THEN pts[pt][va].sec_base_addr ELSE None

FaultOf(e, mode, access) ==
    CASE e.tag # 2 -> "translation"
      [] e.tag = 2 /\ domain_reg[e.domain] = DOM_no_access -> "domain"
      [] e.tag = 2 /\ domain_reg[e.domain] = DOM_client /\ ~Permits(e, mode, access) -> "permission"
      [] OTHER -> "none"

\* An access of the running program.
Entry(va) == pts[cp15.ttbr][va]
Faults(va, mode, access) == cp15.mmu /\ FaultOf(Entry(va), mode, access) # "none"
PhysAt(va) == IF cp15.mmu THEN Entry(va).sec_base_addr ELSE va
CachedAt(va) == cp15.mmu /\ cp15.caches /\ Entry(va).C = 1

\* The kernel can go on only while its code and its stack are there.
KernelRuns == ~Faults(SEG_CODE, "svc", "fetch") /\ ~Faults(SEG_STACK, "svc", "write")
-----------------------------------------------------------------------------
(* Calls, and what they assert.                                            *)

Calls(op) == todo # <<>> /\ ~panicked /\ KernelRuns /\ Head(todo)[1] = op
Arg(i) == Head(todo)[i + 1]
Returns == todo' = Tail(todo) /\ UNCHANGED panicked

RoundUp(n, align) == ((n + align - 1) \div align) * align
KmallocStart(align) == RoundUp(heap.next, align)
KmallocFits(n, align) == KmallocStart(align) + n <= heap.start + heap.nbytes

PT_BYTES == 4096 * 4

\* eqx_fork allocates the stack and then the thread block, which it writes to.
eqx_stack_size == 8192 * 8
TH_BYTES == 29 * 4
ThreadAt == KmallocStart(8) + eqx_stack_size
StackFits == ThreadAt + TH_BYTES <= heap.start + heap.nbytes

\* No handler, and one that wants the fault at SEG_ILLEGAL.
Handles(va) == handler = "goes_on" \/ (handler = "reboot" /\ va = SEG_ILLEGAL)

\* procmap.h: an entry has an address, a type and a domain.
MAX_ENT == 8
pr_ent_mk(addr, type, dom) == [addr |-> addr, type |-> type, dom |-> dom]
procmap_default_mk(dom) ==
    << pr_ent_mk(512, "MEM_DEVICE", dom), pr_ent_mk(513, "MEM_DEVICE", dom),
       pr_ent_mk(514, "MEM_DEVICE", dom), pr_ent_mk(SEG_CODE, "MEM_RW", dom),
       pr_ent_mk(SEG_HEAP, "MEM_RW", dom), pr_ent_mk(SEG_INT_STACK, "MEM_RW", dom),
       pr_ent_mk(SEG_STACK, "MEM_RW", dom) >>

\* The assertions of a call c.
Asserts(c) ==
    CASE c[1] = "vm_pt_alloc" -> KmallocFits(PT_BYTES, PT_BYTES)
      [] c[1] = "vm_dup" -> KmallocFits(PT_BYTES, PT_BYTES)
      [] c[1] = "vm_mmu_init" -> ~cp15.mmu
      [] c[1] = "vm_map_sec" -> pin_mk_demands(c[5])
      [] c[1] = "lookup" -> vm_lookup(c[2], c[3])
      [] c[1] = "xlate" -> vm_xlate(c[2], c[3]) = c[4]
      [] c[1] = "vm_mmu_switch" -> c[3] \in 1..63
      [] c[1] = "vm_mmu_enable" -> ~cp15.mmu
      [] c[1] = "vm_mmu_disable" -> cp15.mmu
      [] c[1] = "caches_all_on" -> cp15.mmu
      [] c[1] = "mmu_is_enabled" -> cp15.mmu = c[2]
      [] c[1] = "caches_all_on_p" -> cp15.caches
      [] c[1] = "code_in_segment" ->
           prog_end < SEG_CODE * MB + MB /\ code_start >= SEG_CODE * MB
      [] c[1] = "dom_perm" -> c[2] # {} /\ c[2] \subseteq 0..15
      [] c[1] = "procmap_default_mk" -> prog_end <= MB /\ heap.start = 1 * MB /\ heap.nbytes = 1 * MB
      [] c[1] = "procmap_push" -> Len(c[2]) < MAX_ENT /\ c[3].dom < 16
      [] c[1] = "check_vm_structs" ->
           fld_check_offsets /\ control_reg1_check_offsets /\ tlb_config_check_offsets
      [] c[1] = "GET32" ->
           IF Faults(c[2], "svc", "read") THEN Handles(c[2])
           ELSE c[3] = None \/ c[3] = (IF CachedAt(c[2]) THEN Over(dcache, ram)[PhysAt(c[2])]
                                                         ELSE ram[PhysAt(c[2])])
      [] c[1] = "PUT32" -> Faults(c[2], "svc", "write") => Handles(c[2])
      [] c[1] = "eqx_fork" -> StackFits /\ ~Faults((ThreadAt + TH_BYTES - 1) \div MB, "svc", "write")
      [] c[1] = "dcache_should_miss" -> PhysAt(c[2]) \notin DOMAIN dcache
      [] c[1] = "dcache_should_not_miss" -> PhysAt(c[2]) \in DOMAIN dcache
      [] c[1] = "icache_should_miss" -> PhysAt(c[2]) \notin icache
      [] c[1] = "aborted" -> aborts = c[2]
      [] c[1] = "not_reached" -> FALSE
      [] OTHER -> TRUE

\* The types of the arguments; a permission or an address space may be wrong.
CallTyped(c) ==
    /\ c[1] = "kmalloc_init_set_start" => c[2] \in Nat
    /\ c[1] \in {"vm_pt_alloc", "vm_mmu_switch"} => c[2] \in Tables
    /\ c[1] = "vm_dup" => c[2] \in Tables /\ c[3] \in Tables
    /\ c[1] = "vm_map_sec" =>
          c[2] \in Tables /\ c[3] \in Sections /\ c[4] \in Sections /\ c[5] \in Pin
    /\ c[1] \in {"vm_mmu_init", "domain_access_ctrl_set"} => c[2] \in DomainReg
    /\ c[1] \in {"GET32", "PUT32", "dcache_should_miss", "icache_should_miss"} =>
          c[2] \in Sections
    /\ c[1] = "PUT32" => c[3] \in Vals

\* Calls that assert something and change nothing.
Checks == {"lookup", "xlate", "mmu_is_enabled", "caches_all_on_p", "procmap_default_mk",
           "procmap_push", "code_in_segment", "dom_perm", "check_vm_structs", "aborted",
           "dcache_should_not_miss"}

Panic ==
    /\ todo # <<>> /\ ~panicked /\ KernelRuns
    /\ ~Asserts(Head(todo))
    /\ panicked' = TRUE
    /\ UNCHANGED <<todo, heap, ptVars, cp15, domain_reg, cacheVars, handler, aborts, stacks>>

Check ==
    /\ \E op \in Checks : Calls(op)
    /\ Asserts(Head(todo))
    /\ Returns
    /\ UNCHANGED <<heap, ptVars, cp15, domain_reg, cacheVars, handler, aborts, stacks>>
-----------------------------------------------------------------------------
(* Page tables.                                                            *)

kmalloc_init_set_start ==
    /\ Calls("kmalloc_init_set_start")
    /\ heap' = [start |-> 1 * MB, nbytes |-> Arg(1) * MB, next |-> 1 * MB]
    /\ Returns
    /\ UNCHANGED <<ptVars, cp15, domain_reg, cacheVars, handler, aborts, stacks>>

AllocTable(pt, entries, wanted) ==
    /\ Asserts(Head(todo))
    /\ heap' = [heap EXCEPT !.next = KmallocStart(PT_BYTES) + PT_BYTES]
    /\ pts' = [pts EXCEPT ![pt] = entries]
    /\ want' = [want EXCEPT ![pt] = wanted]
    /\ Returns
    /\ UNCHANGED <<cp15, domain_reg, cacheVars, handler, aborts, stacks>>

vm_pt_alloc ==
    /\ Calls("vm_pt_alloc")
    /\ AllocTable(Arg(1), [va \in Sections |-> ZeroPte], [va \in Sections |-> None])

vm_dup == Calls("vm_dup") /\ AllocTable(Arg(2), pts[Arg(1)], want[Arg(1)])

vm_map_sec ==
    /\ Calls("vm_map_sec") /\ Asserts(Head(todo))
    /\ pts' = [pts EXCEPT ![Arg(1)][Arg(2)] = Pte(Arg(3), Arg(4))]
    /\ want' = [want EXCEPT ![Arg(1)][Arg(2)] = [pa |-> Arg(3), attr |-> Arg(4)]]
    /\ Returns
    /\ UNCHANGED <<heap, cp15, domain_reg, cacheVars, handler, aborts, stacks>>
-----------------------------------------------------------------------------
(* The MMU and the caches.                                                 *)

\* mmu_reset invalidates the caches and does not clean them.
vm_mmu_init ==
    /\ Calls("vm_mmu_init") /\ Asserts(Head(todo))
    /\ domain_reg' = Arg(1)
    /\ dcache' = <<>> /\ icache' = {}
    /\ Returns
    /\ UNCHANGED <<heap, ptVars, cp15, ram, handler, aborts, stacks>>

domain_access_ctrl_set ==
    /\ Calls("domain_access_ctrl_set")
    /\ domain_reg' = Arg(1)
    /\ Returns
    /\ UNCHANGED <<heap, ptVars, cp15, cacheVars, handler, aborts, stacks>>

vm_mmu_switch ==
    /\ Calls("vm_mmu_switch") /\ Asserts(Head(todo))
    /\ cp15' = [cp15 EXCEPT !.ttbr = Arg(1), !.asid = Arg(2)]
    /\ Returns
    /\ UNCHANGED <<heap, ptVars, domain_reg, cacheVars, handler, aborts, stacks>>

\* The instruction cache is invalidated.
vm_mmu_enable ==
    /\ Calls("vm_mmu_enable") /\ Asserts(Head(todo))
    /\ cp15' = [cp15 EXCEPT !.mmu = TRUE]
    /\ icache' = {}
    /\ Returns
    /\ UNCHANGED <<heap, ptVars, domain_reg, dcache, ram, handler, aborts, stacks>>

\* Fault: the dirty lines are not written back.
CleanedNot == ram

Cleaned == Over(dcache, ram)

CleanCaches == ram' = Cleaned /\ dcache' = <<>> /\ icache' = {}

\* The bits of the caches in control register 1 stay as they are.
vm_mmu_disable ==
    /\ Calls("vm_mmu_disable") /\ Asserts(Head(todo))
    /\ cp15' = [cp15 EXCEPT !.mmu = FALSE]
    /\ CleanCaches
    /\ Returns
    /\ UNCHANGED <<heap, ptVars, domain_reg, handler, aborts, stacks>>

mmu_sync_pte_mods ==
    /\ Calls("mmu_sync_pte_mods")
    /\ CleanCaches
    /\ Returns
    /\ UNCHANGED <<heap, ptVars, cp15, domain_reg, handler, aborts, stacks>>

caches_all_on ==
    /\ Calls("caches_all_on") /\ Asserts(Head(todo))
    /\ cp15' = [cp15 EXCEPT !.caches = TRUE]
    /\ Returns
    /\ UNCHANGED <<heap, ptVars, domain_reg, cacheVars, handler, aborts, stacks>>
-----------------------------------------------------------------------------
(* Loads, stores and calls of the program, in privileged mode.             *)

Filled(va) == IF CachedAt(va) THEN Over(dcache, Line(PhysAt(va), ram[PhysAt(va)])) ELSE dcache

GET32 ==
    /\ Calls("GET32") /\ Asserts(Head(todo)) /\ ~Faults(Arg(1), "svc", "read")
    /\ dcache' = Filled(Arg(1))
    /\ Returns
    /\ UNCHANGED <<heap, ptVars, cp15, domain_reg, icache, ram, handler, aborts, stacks>>

dcache_should_miss ==
    /\ Calls("dcache_should_miss") /\ Asserts(Head(todo))
    /\ dcache' = Filled(Arg(1))
    /\ Returns
    /\ UNCHANGED <<heap, ptVars, cp15, domain_reg, icache, ram, handler, aborts, stacks>>

\* A routine of nops on the section.
icache_should_miss ==
    /\ Calls("icache_should_miss") /\ Asserts(Head(todo))
    /\ icache' = IF cp15.caches THEN icache \cup {PhysAt(Arg(1))} ELSE icache
    /\ Returns
    /\ UNCHANGED <<heap, ptVars, cp15, domain_reg, dcache, ram, handler, aborts, stacks>>

\* Write-back or write-through; a store that misses allocates a line or does not.
PUT32 ==
    /\ Calls("PUT32") /\ ~Faults(Arg(1), "svc", "write")
    /\ LET pa == PhysAt(Arg(1))
       IN  \E line \in BOOLEAN :
             /\ line => CachedAt(Arg(1))
             /\ CachedAt(Arg(1)) /\ pa \in DOMAIN dcache => line
             /\ dcache' = IF line THEN Over(Line(pa, Arg(2)), dcache) ELSE dcache
             /\ ram' = IF line /\ Entry(Arg(1)).B = 1 THEN ram ELSE [ram EXCEPT ![pa] = Arg(2)]
    /\ Returns
    /\ UNCHANGED <<heap, ptVars, cp15, domain_reg, icache, handler, aborts, stacks>>

\* full_except_set_data_abort
SetHandler ==
    /\ Calls("set_data_abort")
    /\ handler' = Arg(1)
    /\ Returns
    /\ UNCHANGED <<heap, ptVars, cp15, domain_reg, cacheVars, aborts, stacks>>

\* The program's handler: it ends the program, or gives the domains their access
\* back and goes on after the call that faulted.
DataAbort ==
    /\ \/ Calls("GET32") /\ Faults(Arg(1), "svc", "read")
       \/ Calls("PUT32") /\ Faults(Arg(1), "svc", "write")
    /\ Handles(Arg(1))
    /\ aborts' = Append(aborts, <<Arg(1), domain_reg>>)
    /\ IF handler = "reboot" THEN todo' = <<>> /\ UNCHANGED domain_reg
                             ELSE todo' = Tail(todo) /\ domain_reg' = dom_bits
    /\ UNCHANGED <<panicked, heap, ptVars, cp15, cacheVars, handler, stacks>>
-----------------------------------------------------------------------------
(* Threads with stacks of their own.                                       *)

eqx_fork ==
    /\ Calls("eqx_fork") /\ Asserts(Head(todo))
    /\ stacks' = Append(stacks, <<KmallocStart(8), ThreadAt>>)
    /\ heap' = [heap EXCEPT !.next = ThreadAt + TH_BYTES]
    /\ Returns
    /\ UNCHANGED <<ptVars, cp15, domain_reg, cacheVars, handler, aborts>>

Step ==
    \/ Panic \/ Check
    \/ kmalloc_init_set_start \/ vm_pt_alloc \/ vm_dup \/ vm_map_sec
    \/ vm_mmu_init \/ domain_access_ctrl_set \/ vm_mmu_switch \/ vm_mmu_enable
    \/ vm_mmu_disable \/ mmu_sync_pte_mods \/ caches_all_on
    \/ GET32 \/ PUT32 \/ dcache_should_miss \/ icache_should_miss
    \/ SetHandler \/ DataAbort \/ eqx_fork
=============================================================================
