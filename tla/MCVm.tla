-------------------------------- MODULE MCVm --------------------------------
(***************************************************************************)
(* VmPrograms for TLC: two tables, the sections the tests use, and a       *)
(* client that maps one section in several ways, some of them not allowed. *)
(***************************************************************************)
EXTENDS VmPrograms

MCSections == {0, 1, 2, 10, 16, 17, 18, 127, 143, 512, 513, 514}
MCVals == {0, 1, 2, 3, 4, 11, 22}

Cached == <<17, pin_mk_user(dom_user, 1, perm_rw_user, MEM_wb_alloc)>>
ReadOnly == <<18, pin_mk_user(dom_user, 2, perm_ro_user, MEM_wt_noalloc)>>
KernelReadOnly == <<17, pin_mk_global(dom_kern, perm_ro_priv, MEM_uncached)>>
NoAccess == <<18, pin_mk_global(dom_user, perm_na_priv, MEM_wb_noalloc)>>
NotLegal == { <<18, pin_mk_user(dom_kern, 64, perm_rw_user, MEM_uncached)>>,
              <<18, pin_mk_global(dom_kern, 4, MEM_uncached)>> }

MCClientCalls ==
    { Map(pt1, 16, a[1], a[2]) : a \in {Cached, ReadOnly, KernelReadOnly, NoAccess} \cup NotLegal }
    \cup { Map(pt2, 16, a[1], a[2]) : a \in {Cached, KernelReadOnly} }
    \cup { <<"vm_mmu_switch", pt1, 1>>, <<"vm_mmu_switch", pt2, 2>>, <<"vm_mmu_switch", pt1, 0>> }
    \cup { <<"domain_access_ctrl_set", d>> : d \in {dom_bits, dom_all_access, OnlyKernel} }
    \cup { On, Off, <<"mmu_sync_pte_mods">>, Write(16, 1), Read(16, None) }
=============================================================================
