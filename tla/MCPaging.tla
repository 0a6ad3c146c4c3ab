-------------------------------- MODULE MCPaging ------------------------------
(***************************************************************************)
(* The instance of Paging that TLC checks: tables of four entries, pages   *)
(* of two bytes, 24 frames.  paging_init needs 13 of the 19 free ones; the *)
(* last 6 serve one user and one kernel page in two address spaces, and    *)
(* not all that can be asked of them, so that allocation fails, in         *)
(* paging_map with the levels above already linked.                        *)
(***************************************************************************)
EXTENDS Paging

MCPool == {2 * f : f \in 5 .. 23}
MCMemSize == 48

\* Page numbers: 0 .. 127 user half, 128 .. 255 kernel half.  The PML4 entry
\* of pages 128 .. 191 is used by nothing at boot.
MCHHDM == 2 * 192
MCKernelVirt == 2 * 252
MCSegments ==
  [limine |-> [start |-> 504, end |-> 506], text   |-> [start |-> 506, end |-> 508],
   rodata |-> [start |-> 508, end |-> 510], data   |-> [start |-> 510, end |-> 512]]

\* Stale memory: every entry present and pointing at the kernel image.
MCJunk == Entry(0, Flags)

MCPhyss == {60}

\* Pages of the tables that callers touch and their neighbours, the ends of
\* the HHDM, the kernel image.
MCPages == {0, 4, 6, 8, 126, 128, 130, 254, 256, 258, 382, 384, 430, 432,
            504, 506, 508, 510}
===============================================================================
