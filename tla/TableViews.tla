------------------------------ MODULE TableViews ------------------------------
(***************************************************************************)
(* How two memories of Paging compare as the processor sees them.          *)
(***************************************************************************)
EXTENDS PageTables

\* Every address space of lv sees the same through both memories.
SameView(m, m2, lv) ==
  \A q \in lv, vb \in Nat : Translate(m2, q, vb) = Translate(m, q, vb)

\* Two addresses under one page table.
SamePt(va, vb) ==
  PML4_INDEX(va) = PML4_INDEX(vb) /\ PDPT_INDEX(va) = PDPT_INDEX(vb) /\ PD_INDEX(va) = PD_INDEX(vb)

\* The address vb of q is in the page of va of p; a kernel page is in all address spaces.
SamePage(p, va, q, vb) ==
  SamePt(va, vb) /\ PT_INDEX(va) = PT_INDEX(vb) /\ (IsUser(va) => p = q)

\* One page shows something new, and the others what they showed.
Changed(m, m2, lv, p, va, new) ==
  \A q \in lv, vb \in Nat :
    Translate(m2, q, vb) = IF SamePage(p, va, q, vb) THEN new ELSE Translate(m, q, vb)

\* What an entry shows.
Shown(e) == {f \in {e} : Present(f)}

\* The page of va in p may show something new; then the processor forgets it.
ViewChange(p, va, new) ==
  \/ SameView(mem, mem', live) /\ tlb' = tlb
  \/ Changed(mem, mem', live, p, va, new) /\ tlb' = Invalidate(va) /\ IS_PAGE_ALIGNED(va)
===============================================================================
