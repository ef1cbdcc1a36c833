----------------------------- MODULE VmPrograms -----------------------------
(***************************************************************************)
(* The programs that set up virtual memory: vm_map_kernel, eqx_init_w_vm   *)
(* and the tests of archive/pt-tests, each a sequence of the calls of Vm,  *)
(* and a client that makes any call at any time.                           *)
(***************************************************************************)
EXTENDS Vm, SequencesExt

CONSTANTS
    Rounds,          \* bound: rounds of a test's loop, 10 or 512 in the source
    MaxForks,        \* bound: threads forked
    ClientCalls      \* calls of the client

ASSUME BoundsAssumption == Rounds \in Nat /\ MaxForks \in Nat

VARIABLE program
allVars == <<vars, program>>

pt1 == 1
pt2 == 2
deadbeef == 3
nop == 4
cache_addr == 10

dev == pin_mk_global(dom_kern, perm_rw_priv, MEM_device)
kern == pin_mk_global(dom_kern, perm_rw_priv, MEM_uncached)

Repeat(calls) == FlattenSeq([i \in 1..Rounds |-> calls])
IsEnabled(b) == <<"mmu_is_enabled", b>>
Map(pt, va, pa, attr) == <<"vm_map_sec", pt, va, pa, attr>>
Read(va, expected) == <<"GET32", va, expected>>
Write(va, val) == <<"PUT32", va, val>>
On == <<"vm_mmu_enable">>
Off == <<"vm_mmu_disable">>
HeapOf(n) == <<"kmalloc_init_set_start", n>>
OnlyKernel == dom_perm({dom_kern}, DOM_client)

\* The default segments, each mapped to itself.
KernelSegs(pt) ==
    << Map(pt, SEG_CODE, SEG_CODE, kern), Map(pt, SEG_HEAP, SEG_HEAP, kern),
       Map(pt, SEG_STACK, SEG_STACK, kern), Map(pt, SEG_INT_STACK, SEG_INT_STACK, kern),
       Map(pt, 512, 512, dev), Map(pt, 513, 513, dev), Map(pt, 514, 514, dev) >>
-----------------------------------------------------------------------------
(* vm_map_kernel and eqx_init_w_vm.                                        *)

attr_mk(e) == CASE e.type = "MEM_DEVICE" -> pin_mk_device(e.dom)
                [] e.type = "MEM_RW" -> pin_mk_global(e.dom, perm_rw_priv, MEM_uncached)

procmap_push(p, e) == Append(p, e)

vm_map_kernel(p, enable_p) ==
    << <<"dom_perm", {p[i].dom : i \in DOMAIN p}>>,
       <<"vm_mmu_init", dom_perm({p[i].dom : i \in DOMAIN p}, DOM_client)>>,
       <<"vm_pt_alloc", pt1>>, <<"vm_mmu_switch", pt1, 1>> >>
    \o FlattenSeq([i \in DOMAIN p |-> << Map(pt1, p[i].addr, p[i].addr, attr_mk(p[i])),
                                         <<"lookup", pt1, p[i].addr>> >>])
    \o (IF enable_p THEN <<On>> ELSE <<>>)

\* The heap is 2MB from 1MB on; the user's section takes the place of the heap's.
eqx_init_w_vm(enable_all_caches) ==
    << HeapOf(2), IsEnabled(FALSE), <<"vm_pt_alloc", pt1>>,
       <<"vm_mmu_init", dom_all_access>>, IsEnabled(FALSE) >>
    \o KernelSegs(pt1)
    \o << Map(pt1, 1, 2, pin_mk_user(dom_user, 1, perm_rw_user, MEM_uncached)),
          <<"vm_mmu_switch", pt1, 1>>, IsEnabled(FALSE), On, IsEnabled(TRUE) >>
    \o (IF enable_all_caches THEN << <<"caches_all_on">>, <<"caches_all_on_p">> >> ELSE <<>>)

Forks == [i \in 1..MaxForks |-> <<"eqx_fork">>]
-----------------------------------------------------------------------------
(* The tests.                                                              *)

test_structs == << <<"check_vm_structs">> >>

test_basic_tutorial ==
    << HeapOf(1), <<"code_in_segment">>, <<"set_data_abort", "reboot">>, <<"vm_pt_alloc", pt1>>,
       <<"vm_mmu_init", dom_no_access>>, IsEnabled(FALSE) >>
    \o KernelSegs(pt1)
    \o << <<"domain_access_ctrl_set", OnlyKernel>>, <<"vm_mmu_switch", pt1, 1>> >>
    \o Repeat(<< IsEnabled(FALSE), On, IsEnabled(TRUE), Off, IsEnabled(FALSE) >>)
    \o << IsEnabled(FALSE), Write(SEG_ILLEGAL, deadbeef), Read(SEG_ILLEGAL, deadbeef),
          On, IsEnabled(TRUE), Write(SEG_ILLEGAL, deadbeef), <<"not_reached">> >>

test_one_addr ==
    << HeapOf(1), <<"vm_pt_alloc", pt1>>, <<"vm_mmu_init", dom_all_access>>, IsEnabled(FALSE) >>
    \o KernelSegs(pt1)
    \o << Map(pt1, 16, 16, pin_mk_user(dom_user, 1, perm_rw_user, MEM_uncached)),
          Write(16, deadbeef), <<"vm_mmu_switch", pt1, 1>>, IsEnabled(FALSE), On, IsEnabled(TRUE),
          <<"xlate", pt1, 16, 16>>, <<"xlate", pt1, SEG_ILLEGAL, None>>,
          Read(16, deadbeef), Write(16, 1), Off, IsEnabled(FALSE), Read(16, 1) >>

\* In address space asid, check what the other one left alone, and write.
InSpace(pt, asid, found) ==
    << <<"vm_mmu_switch", pt, asid>>, On, Read(16, found), Write(16, asid), Off,
       Read(16 + asid, asid) >>

test_two_addr ==
    << HeapOf(1), IsEnabled(FALSE), <<"vm_pt_alloc", pt1>>, <<"vm_mmu_init", dom_bits>>,
       IsEnabled(FALSE) >>
    \o KernelSegs(pt1)
    \o << <<"vm_dup", pt1, pt2>>,
          Map(pt1, 16, 17, pin_mk_user(dom_kern, 1, perm_rw_priv, MEM_uncached)),
          Map(pt2, 16, 18, pin_mk_user(dom_kern, 2, perm_rw_priv, MEM_uncached)),
          Write(17, 11), Write(18, 22) >>
    \o InSpace(pt1, 1, 11) \o InSpace(pt2, 2, 22)
    \o << Write(17, 11), Write(18, 22),
          <<"vm_mmu_switch", pt1, 1>>, On, Read(16, 11), Write(16, 1),
          <<"vm_mmu_switch", pt2, 2>>, Read(16, 22), Write(16, 2), Off,
          Read(17, 1), Read(18, 2) >>

test_procmap ==
    LET user == pr_ent_mk(16, "MEM_RW", dom_user)
        p == procmap_default_mk(dom_kern)
    IN  << HeapOf(1), IsEnabled(FALSE), Write(16, deadbeef), <<"procmap_default_mk">>,
           <<"procmap_push", p, user>> >>
        \o vm_map_kernel(procmap_push(p, user), TRUE)
        \o << IsEnabled(TRUE), Read(16, deadbeef), Write(16, 1), Off, IsEnabled(FALSE),
              Read(16, 1) >>

\* A section that the data cache holds, as four of the tests map it.
CachedSection(enabled_before) ==
    << HeapOf(1) >> \o enabled_before \o << <<"procmap_default_mk">> >>
    \o vm_map_kernel(procmap_default_mk(dom_kern), FALSE)
    \o << IsEnabled(FALSE),
          Map(pt1, cache_addr, cache_addr, pin_mk_global(dom_kern, perm_rw_priv, MEM_wb_alloc)),
          On, IsEnabled(TRUE) >>

test_cache ==
    CachedSection(<<IsEnabled(FALSE)>>)
    \o << <<"mmu_sync_pte_mods">> >>
    \o FlattenSeq([i \in 1..4 |-> << <<"mmu_sync_pte_mods">>, Read(cache_addr, None) >>])

CachesOn == << <<"caches_all_on">>, <<"caches_all_on_p">> >>
OffOn == << <<"caches_all_on_p">>, Off, On, <<"caches_all_on_p">> >>
DMiss == <<"dcache_should_miss", cache_addr>>
DHit == <<"dcache_should_not_miss", cache_addr>>
IMiss == <<"icache_should_miss", cache_addr>>

\* A value written to the cache is there when flush has been called.
Kept(flush) ==
    FlattenSeq([i \in 1..Rounds |->
        << Write(cache_addr, i) >> \o flush \o << <<"caches_all_on_p">>, Read(cache_addr, i) >>])

test_vm_cache_mgmt ==
    << Write(cache_addr, nop) >> \o CachedSection(<<>>) \o CachesOn
    \o << DMiss, DHit, IMiss, <<"caches_all_on_p">>, <<"mmu_sync_pte_mods">>, DMiss, IMiss >>
    \o OffOn \o << DMiss, IMiss >>
    \o Kept(<<Off, On>>) \o Kept(<< <<"mmu_sync_pte_mods">> >>)

test_dcache_inv ==
    << Write(cache_addr, nop) >> \o CachedSection(<<>>) \o CachesOn
    \o << DMiss, DHit, IMiss, <<"caches_all_on_p">>, <<"mmu_sync_pte_mods">>, DMiss >>
    \o OffOn \o << DMiss >>

\* Domain 2 has no section: the heap is mapped as the rest of the kernel, which
\* a fetch never leaves, so the prefetch handler is not called.
test_new ==
    LET read_fault == << <<"domain_access_ctrl_set", OnlyKernel>>, Read(SEG_ILLEGAL, None) >>
        write_fault == << <<"domain_access_ctrl_set", OnlyKernel>>,
                          Write(SEG_ILLEGAL, deadbeef), Read(SEG_ILLEGAL, None) >>
    IN  << HeapOf(1), <<"set_data_abort", "goes_on">>, <<"vm_pt_alloc", pt1>>,
           <<"vm_mmu_init", dom_no_access>>, IsEnabled(FALSE) >>
        \o KernelSegs(pt1)
        \o << <<"domain_access_ctrl_set", dom_bits>>, <<"vm_mmu_switch", pt1, 1>>,
              IsEnabled(FALSE), On, IsEnabled(TRUE), Write(SEG_ILLEGAL, deadbeef) >>
        \o read_fault \o write_fault
        \o << <<"aborted", << <<SEG_ILLEGAL, dom_bits>>, <<SEG_ILLEGAL, OnlyKernel>>,
                              <<SEG_ILLEGAL, OnlyKernel>>, <<SEG_ILLEGAL, dom_bits>> >> >> >>

\* The matrices are in the code's section.
test_matmul_dcache ==
    << Write(cache_addr, nop) >> \o CachedSection(<<>>)
    \o << Write(SEG_CODE, 1), Read(SEG_CODE, 1) >> \o CachesOn
    \o << Write(SEG_CODE, 2), Read(SEG_CODE, 2) >>

Tests == [structs |-> test_structs, basic_tutorial |-> test_basic_tutorial,
          one_addr |-> test_one_addr, two_addr |-> test_two_addr, procmap |-> test_procmap,
          cache |-> test_cache, vm_cache_mgmt |-> test_vm_cache_mgmt,
          dcache_inv |-> test_dcache_inv, new_test |-> test_new,
          matmul_dcache |-> test_matmul_dcache,
          equiv |-> eqx_init_w_vm(FALSE) \o Forks,
          equiv_cached |-> eqx_init_w_vm(TRUE) \o Forks,
          client |-> << HeapOf(1), <<"vm_pt_alloc", pt1>>, <<"vm_mmu_init", dom_bits>> >>
                     \o KernelSegs(pt1) \o << <<"vm_dup", pt1, pt2>>,
                        <<"vm_mmu_switch", pt1, 1>>, On, <<"caches_all_on">> >>]

\* The calls have arguments of their types, those of the client included.
AllCalls == ClientCalls \cup UNION {Range(Tests[p]) : p \in DOMAIN Tests}

ASSUME CallsAssumption ==
    /\ {pt1, pt2} \subseteq Tables
    /\ \A p \in DOMAIN Tests : Tests[p] \in Seq(AllCalls)
    /\ \A c \in AllCalls : CallTyped(c)
-----------------------------------------------------------------------------
Init ==
    /\ program \in DOMAIN Tests
    /\ todo = Tests[program]
    /\ panicked = FALSE
    /\ heap = [start |-> 0, nbytes |-> 0, next |-> 0]
    /\ pts = [pt \in Tables |-> [va \in Sections |-> ZeroPte]]
    /\ want = [pt \in Tables |-> [va \in Sections |-> None]]
    /\ cp15 = [mmu |-> FALSE, caches |-> FALSE, asid |-> 0, ttbr |-> pt1]
    /\ domain_reg = dom_no_access
    /\ dcache = <<>>
    /\ icache = {}
    /\ ram = [pa \in Sections |-> 0]
    /\ handler = "none"
    /\ aborts = <<>>
    /\ stacks = <<>>

ClientInst ==
    /\ program = "client" /\ todo = <<>> /\ ~panicked
    /\ \E c \in ClientCalls : todo' = <<c>>
    /\ UNCHANGED <<panicked, heap, ptVars, cp15, domain_reg, cacheVars, handler, aborts, stacks>>

Next == (Step \/ ClientInst) /\ UNCHANGED program

Spec == Init /\ [][Next]_allVars
-----------------------------------------------------------------------------
(* Properties.                                                             *)

\* The state is of its type: in particular no field of an entry is given more
\* than its bits (armv6-vm.h: fld_t).
TypeOK ==
    /\ panicked \in BOOLEAN
    /\ \A pt \in Tables, va \in Sections, f \in DOMAIN PteWidths :
          pts[pt][va][f] \in 0..(2^PteWidths[f] - 1)
    /\ cp15 \in [mmu : BOOLEAN, caches : BOOLEAN, asid : 0..63, ttbr : Tables]
    /\ domain_reg \in DomainReg
    /\ DOMAIN dcache \subseteq Sections /\ icache \subseteq Sections
    /\ \A pa \in DOMAIN dcache : dcache[pa] \in Vals
    /\ ram \in [Sections -> Vals]
    /\ heap.start + heap.nbytes >= heap.next

\* What mem-attr.h promises of each permission; the kernel may write what the
\* user may only read.
Allowed(perm, mode, access) ==
    \/ perm = perm_rw_user
    \/ perm = perm_ro_user /\ (mode = "usr" => access # "write")
    \/ perm = perm_rw_priv /\ mode = "svc"
    \/ perm = perm_ro_priv /\ mode = "svc" /\ access # "write"

\* After any calls, through whichever table and with whichever domain rights,
\* the hardware finds in an entry the section, the memory type and the rights
\* it was last mapped with, a table that was copied included; and an address
\* never mapped is in no table (vm_map_sec, vm_dup, vm_lookup and vm_xlate).
AccessAsMapped ==
    \A pt \in Tables, va \in Sections :
        LET w == want[pt][va]
            e == pts[pt][va]
        IN  IF w = None THEN ~vm_lookup(pt, va) /\ vm_xlate(pt, va) = None
            ELSE /\ vm_xlate(pt, va) = w.pa
                 /\ TEX_C_B(e.TEX, e.C, e.B) = w.attr.mem_attr
                 /\ e.nG = 1 <=> w.attr.asid # 0
                 /\ \A mode \in {"usr", "svc"}, access \in {"fetch", "read", "write"} :
                      FaultOf(e, mode, access) = "none" <=>
                        \/ domain_reg[w.attr.dom] = DOM_manager
                        \/ /\ domain_reg[w.attr.dom] = DOM_client
                           /\ Allowed(w.attr.AP_perm, mode, access)

\* Each test comes to its end: none of its assertions fails, it misses the
\* caches where it expects to and loses no write, and it never turns the mmu
\* on over a kernel that can not go on (archive/pt-tests).
TestsPass ==
    program \notin {"client", "equiv", "equiv_cached"} => ~panicked /\ (todo # <<>> => KernelRuns)

\* The threads eqx_init_w_vm leaves room for can run: in user mode they fetch
\* the program's code and write each byte of their stacks, whose memory holds
\* no other stack and no part of the page table the mmu walks.
ThreadsCanRun ==
    program \in {"equiv", "equiv_cached"} /\ cp15.mmu =>
        /\ ~Faults(SEG_CODE, "usr", "fetch") /\ ~Faults(SEG_CODE, "usr", "write")
        /\ \A i \in DOMAIN stacks :
             \A b \in {stacks[i][1], stacks[i][2] - 1} :
               /\ ~Faults(b \div MB, "usr", "write")
               /\ PhysAt(b \div MB) * MB + (b % MB) \notin (SEG_HEAP * MB)..(SEG_HEAP * MB + PT_BYTES - 1)
               /\ \A j \in DOMAIN stacks \ {i} : b \notin stacks[j][1]..(stacks[j][2] - 1)

\* "our kernel heap ... it's 1MB, so fits in a segment" (memmap-default.h): a
\* thread that kmalloc has the memory for can be forked with the mmu on.
HeapInSegment ==
    ~(panicked /\ Head(todo)[1] = "eqx_fork" /\ StackFits)
=============================================================================
