----------------------------- MODULE PageTables -----------------------------
(***************************************************************************)
(* Page tables of 1MB sections: the attributes of mem-attr.h and           *)
(* pinned-vm.h, the entries of armv6-vm.h that vm_map_sec makes of them,   *)
(* the permissions the hardware finds in them, and the layout of the       *)
(* hardware's structures.  Addresses are numbers of sections.              *)
(***************************************************************************)
EXTENDS Integers, Sequences

-----------------------------------------------------------------------------
(* Attributes.                                                             *)

\* mem_perm_t
perm_rw_user == 3
perm_ro_user == 2
perm_rw_priv == 1
perm_ro_priv == 5
perm_na_priv == 0
mem_perm_islegal(p) ==
    p \in {perm_rw_user, perm_ro_user, perm_ro_priv, perm_rw_priv, perm_na_priv}

DOM_no_access == 0
DOM_client == 1
DOM_manager == 3

TEX_C_B(tex, c, b) == 4 * tex + 2 * c + b
MEM_device     == TEX_C_B(0, 0, 0)
MEM_uncached   == TEX_C_B(1, 0, 0)
MEM_wb_noalloc == TEX_C_B(0, 1, 1)
MEM_wt_noalloc == TEX_C_B(0, 1, 0)
MEM_wb_alloc   == TEX_C_B(1, 1, 1)
MemTypes == {MEM_device, MEM_uncached, MEM_wb_noalloc, MEM_wt_noalloc, MEM_wb_alloc}

pin_mk(G, dom, asid, perm, mem) ==
    [G |-> G, dom |-> dom, asid |-> asid, AP_perm |-> perm, mem_attr |-> mem]

\* What pin_mk demands: a domain id of 16, which is none, is let through.
pin_mk_demands(attr) ==
    /\ mem_perm_islegal(attr.AP_perm)
    /\ attr.dom <= 16
    /\ IF attr.G = 1 THEN attr.asid = 0 ELSE attr.asid \in 1..63

pin_mk_global(dom, perm, mem) == pin_mk(1, dom, 0, perm, mem)
pin_mk_user(dom, asid, perm, mem) == pin_mk(0, dom, asid, perm, mem)
pin_mk_device(dom) == pin_mk(1, dom, 0, perm_rw_priv, MEM_device)

\* The sixteen fields of the domain register, for the domains in use.
dom_perm(doms, perm) == [i \in 0..15 |-> IF i \in doms THEN perm ELSE DOM_no_access]
-----------------------------------------------------------------------------
(* Entries.                                                                *)

\* The fields of fld_t that are not always zero, with their widths.
PteWidths == [tag |-> 2, B |-> 1, C |-> 1, XN |-> 1, domain |-> 4, AP |-> 2, TEX |-> 3,
              APX |-> 1, nG |-> 1, sec_base_addr |-> 12]
ZeroPte == [f \in DOMAIN PteWidths |-> 0]

bits_get(x, lo, hi) == (x \div 2^lo) % 2^(hi - lo + 1)

\* Fault: APX is taken from the wrong bit.
PteNoAPX(pa, attr) ==
    [tag |-> 2, B |-> bits_get(attr.mem_attr, 0, 0), C |-> bits_get(attr.mem_attr, 1, 1),
     XN |-> 0, domain |-> attr.dom % 16,
     AP |-> bits_get(attr.AP_perm, 0, 1), TEX |-> bits_get(attr.mem_attr, 2, 4),
     APX |-> bits_get(attr.AP_perm, 3, 3), nG |-> 1 - attr.G, sec_base_addr |-> pa]

\* Fault: all three permission bits go into the two of AP.
PteWideAP(pa, attr) ==
    [tag |-> 2, B |-> bits_get(attr.mem_attr, 0, 0), C |-> bits_get(attr.mem_attr, 1, 1),
     XN |-> 0, domain |-> attr.dom % 16,
     AP |-> attr.AP_perm, TEX |-> bits_get(attr.mem_attr, 2, 4),
     APX |-> bits_get(attr.AP_perm, 2, 2), nG |-> 1 - attr.G, sec_base_addr |-> pa]

\* What vm_map_sec stores.
Pte(pa, attr) ==
    [tag |-> 2, B |-> bits_get(attr.mem_attr, 0, 0), C |-> bits_get(attr.mem_attr, 1, 1),
     XN |-> 0, domain |-> attr.dom % 16,
     AP |-> bits_get(attr.AP_perm, 0, 1), TEX |-> bits_get(attr.mem_attr, 2, 4),
     APX |-> bits_get(attr.AP_perm, 2, 2), nG |-> 1 - attr.G, sec_base_addr |-> pa]

\* The table of permissions in armv6-vm.h; with APX, there is no writing.
Permits(e, mode, access) ==
    IF mode = "svc" THEN e.AP # 0 /\ (access = "write" => e.APX = 0)
                    ELSE e.AP \in {2, 3} /\ (access = "write" => e.AP = 3 /\ e.APX = 0)
-----------------------------------------------------------------------------
(* The layout of the hardware's structures, least significant field first. *)

fld_t == << <<"tag", 2>>, <<"B", 1>>, <<"C", 1>>, <<"XN", 1>>, <<"domain", 4>>, <<"IMP", 1>>,
            <<"AP", 2>>, <<"TEX", 3>>, <<"APX", 1>>, <<"S", 1>>, <<"nG", 1>>, <<"super", 1>>,
            <<"_sbz1", 1>>, <<"sec_base_addr", 12>> >>

cp15_ctrl_reg1_t ==
    << <<"MMU_enabled", 1>>, <<"A_alignment", 1>>, <<"C_unified_enable", 1>>,
       <<"W_write_buf", 1>>, <<"_unused1", 3>>, <<"B_endian", 1>>, <<"S_prot", 1>>,
       <<"R_rom_prot", 1>>, <<"F", 1>>, <<"Z_branch_pred", 1>>, <<"I_icache_enable", 1>>,
       <<"V_high_except_v", 1>>, <<"RR_cache_rep", 1>>, <<"L4", 1>>, <<"_dt", 1>>,
       <<"_sbz0", 1>>, <<"_it", 1>>, <<"_sbz1", 1>>, <<"_st", 1>>, <<"F1", 1>>,
       <<"U_unaligned", 1>>, <<"XP_pt", 1>>, <<"VE_vect_int", 1>>, <<"EE", 1>>,
       <<"L2_enabled", 1>>, <<"_reserved0", 1>>, <<"TR_tex_remap", 1>>, <<"FA_force_ap", 1>>,
       <<"_reserved1", 2>> >>

cp15_tlb_config_t ==
    << <<"unified_p", 1>>, <<"_sbz0", 7>>, <<"n_d_lock", 8>>, <<"n_i_lock", 8>>, <<"_sbz1", 8>> >>

Offset(s, i) == LET before[k \in 0..Len(s)] == IF k = 0 THEN 0 ELSE before[k - 1] + s[k][2]
                IN  before[i - 1]
\* The structure is a word, and each field is where the hardware has it.
check_bitfield(s, expected) ==
    /\ Offset(s, Len(s)) + s[Len(s)][2] = 32
    /\ \A e \in expected : \E i \in DOMAIN s : s[i] = <<e[1], e[3]>> /\ Offset(s, i) = e[2]

fld_check_offsets ==
    check_bitfield(fld_t,
        { <<"tag", 0, 2>>, <<"B", 2, 1>>, <<"C", 3, 1>>, <<"XN", 4, 1>>, <<"domain", 5, 4>>,
          <<"IMP", 9, 1>>, <<"AP", 10, 2>>, <<"TEX", 12, 3>>, <<"APX", 15, 1>>, <<"S", 16, 1>>,
          <<"nG", 17, 1>>, <<"super", 18, 1>>, <<"sec_base_addr", 20, 12>> })

control_reg1_check_offsets ==
    check_bitfield(cp15_ctrl_reg1_t,
        { <<f[1], f[2], 1>> : f \in
          { <<"MMU_enabled", 0>>, <<"A_alignment", 1>>, <<"C_unified_enable", 2>>,
            <<"W_write_buf", 3>>, <<"B_endian", 7>>, <<"S_prot", 8>>, <<"R_rom_prot", 9>>,
            <<"F", 10>>, <<"Z_branch_pred", 11>>, <<"I_icache_enable", 12>>,
            <<"V_high_except_v", 13>>, <<"RR_cache_rep", 14>>, <<"L4", 15>>, <<"F1", 21>>,
            <<"U_unaligned", 22>>, <<"XP_pt", 23>>, <<"VE_vect_int", 24>>, <<"EE", 25>>,
            <<"L2_enabled", 26>>, <<"TR_tex_remap", 28>>, <<"FA_force_ap", 29>> } })

tlb_config_check_offsets ==
    check_bitfield(cp15_tlb_config_t,
        { <<"unified_p", 0, 1>>, <<"n_d_lock", 8, 8>>, <<"n_i_lock", 16, 8>> })
=============================================================================
