------------------------------ MODULE PageTables ------------------------------
(***************************************************************************)
(* The page tables of src/memory/paging.c: the state of paging, the walk   *)
(* down the four levels, and what mapping and unmapping one page does to   *)
(* the tables.  Paging has the functions built from these.                 *)
(*                                                                         *)
(* Tables are kept in frames of the physical memory manager and have RADIX *)
(* entries (512 in the kernel).  Memory is seen through the HHDM, so a     *)
(* table is found at its physical address.  A frame that is not a table    *)
(* holds whatever was written there last.                                  *)
(***************************************************************************)
EXTENDS Mm, Sequences, FiniteSetsExt

CONSTANTS
  RADIX,        \* entries per table
  Pool,         \* the frames pmm_init left free, by address
  MemSize,      \* pmm_get_total_size()
  HHDM,         \* g_hhdm_offset
  KernelPhys,   \* kernel_physical_base
  KernelVirt,   \* kernel_virtual_base
  Segments,     \* segment_info: the start and the end of each section
  Junk,         \* the contents of memory before anybody writes it
  Virts, Physs, Sizes, FlagSets, \* what callers pass
  TlbPages,     \* the pages whose translations the processor may cache
  MaxSpaces,    \* bound: address spaces at a time
  Pages         \* the pages whose mappings the properties watch

VARIABLES
  mem,                  \* the contents of the frames, as tables
  free,                 \* the free frames of the physical memory manager
  phase,                \* where paging_init stands, then "up"; or "panic"
  todo,                 \* the pages that the running range calls still have to do
  kernel_pml4,          \* what paging_init returns
  kernel_pml4_entries,
  live,                 \* the PML4s created and not yet destroyed
  cr3, nxe, tlb         \* the processor

vars == <<mem, free, phase, todo, kernel_pml4, kernel_pml4_entries, live,
          cr3, nxe, tlb>>

PMM_INVALID_ADDRESS == -1

Indices == 0 .. (RADIX - 1)
UserIndices == 0 .. (RADIX \div 2 - 1)
KernelIndices == Indices \ UserIndices
Frames == {a \in 0 .. (MemSize - 1) : IS_PAGE_ALIGNED(a)}

PT_INDEX(va)   == (va \div PAGE_SIZE) % RADIX
PD_INDEX(va)   == (va \div (PAGE_SIZE * RADIX)) % RADIX
PDPT_INDEX(va) == (va \div (PAGE_SIZE * RADIX * RADIX)) % RADIX
PML4_INDEX(va) == (va \div (PAGE_SIZE * RADIX * RADIX * RADIX)) % RADIX

\* The addresses that the four indices tell apart: of a canonical address the
\* bits below the sign extension.
Top == PAGE_SIZE * RADIX * RADIX * RADIX * RADIX

IsUser(va) == PML4_INDEX(va) \in UserIndices

\* PAGE_PRESENT, PAGE_WRITABLE, PAGE_USER, PAGE_GLOBAL, PAGE_NO_EXECUTE.  The
\* two cache bits are carried along and mean nothing to this code.
Flags == {"P", "W", "U", "G", "NX"}
Entry(addr, flags) == [addr |-> addr, flags |-> flags]
Zero == Entry(0, {})
ZeroTable == [i \in Indices |-> Zero]
Present(entry) == "P" \in entry.flags
Entries == [addr : Nat, flags : SUBSET Flags]

\* link.ld begins every section on a page, at or after the base, and none is empty.
ASSUME PagingAssumption ==
  /\ RADIX \in Nat \ {0, 1} /\ MemSize \in Nat \ {0}
  /\ Pool \subseteq Frames
  /\ \A base \in {HHDM, KernelPhys, KernelVirt} : base \in Nat /\ IS_PAGE_ALIGNED(base)
  /\ DOMAIN Segments = {"limine", "text", "rodata", "data"}
  /\ \A name \in DOMAIN Segments :
       /\ Segments[name].start \in Nat /\ Segments[name].end \in Nat
       /\ IS_PAGE_ALIGNED(Segments[name].start)
       /\ KernelVirt <= Segments[name].start /\ Segments[name].start < Segments[name].end
  /\ Junk \in Entries
  /\ \A set \in {Virts, Physs, Sizes, TlbPages, Pages} : set \subseteq Nat
  /\ FlagSets \subseteq SUBSET Flags

-------------------------------------------------------------------------------
(* Walking the tables.  What a walk finds at a level is a set of entries: one
   entry, or none when an entry above it is not present. *)

Below(m, entries, index) == {m[e.addr][index] : e \in {f \in entries : Present(f)}}

Pml4Entries(m, pml4, va) == {m[pml4][PML4_INDEX(va)]}
PdptEntries(m, pml4, va) == Below(m, Pml4Entries(m, pml4, va), PDPT_INDEX(va))
PdEntries(m, pml4, va)   == Below(m, PdptEntries(m, pml4, va), PD_INDEX(va))
PtEntries(m, pml4, va)   == Below(m, PdEntries(m, pml4, va), PT_INDEX(va))

paging_is_mapped(m, pml4, va) == \E e \in PtEntries(m, pml4, va) : Present(e)

paging_get_physical(m, pml4, va) ==
  LET found == {e \in PtEntries(m, pml4, va) : Present(e)}
  IN  IF found = {} THEN PMM_INVALID_ADDRESS
      ELSE (CHOOSE e \in found : TRUE).addr + (va % PAGE_SIZE)

\* External: the translation of the processor, a set of at most one entry.
\* Writing and user access have to be granted at every level.
Translate(m, pml4, va) ==
  LET pml4e == Pml4Entries(m, pml4, va)
      pdpte == Below(m, pml4e, PDPT_INDEX(va))
      pde   == Below(m, pdpte, PD_INDEX(va))
      Granted(f) == \A e \in pml4e \cup pdpte \cup pde : f \in e.flags
  IN  {Entry(e.addr, {f \in e.flags : f \in {"W", "U"} => Granted(f)}) :
         e \in {leaf \in Below(m, pde, PT_INDEX(va)) : Present(leaf)}}

-------------------------------------------------------------------------------
(* paging_map and paging_unmap.  The tables under construction are a record s
   of the memory, the free frames and oom, the panic of pmm_alloc_frame, after
   which nothing more is done. *)

\* Mutants: no memset of the new table; a panic one frame too early.
AllocTableUncleared(s, table, index) ==
  [s EXCEPT !.mem[table][index] = Entry(Min(s.free), {}), !.free = @ \ {Min(s.free)}]

\* pmm_alloc_frame panics.
OutOfFrames(s) == s.free = {}

\* Allocate a frame, clear it and make the entry point to it.
AllocTable(s, table, index) ==
  [s EXCEPT !.mem = [@ EXCEPT ![Min(s.free)] = ZeroTable,
                              ![table][index] = Entry(Min(s.free), {})],
            !.free = @ \ {Min(s.free)}]

\* Mutant: the rights are granted only when the table is new.
GrantNothing(s, table, index, flags) ==
  IF s.mem[table][index].flags = {} THEN [s EXCEPT !.mem[table][index].flags = flags] ELSE s

Grant(s, table, index, flags) == [s EXCEPT !.mem[table][index].flags = @ \cup flags]

\* Make the entry point to a table that grants the rights asked for.
EnsureTable(s, table, index, flags) ==
  IF s.oom THEN s
  ELSE IF Present(s.mem[table][index]) THEN Grant(s, table, index, flags)
  ELSE IF OutOfFrames(s) THEN [s EXCEPT !.oom = TRUE]
  ELSE Grant(AllocTable(s, table, index), table, index, flags)

\* invlpg
Invalidate(va) == {e \in tlb : e.va # va}

NoOom == [mem |-> mem, free |-> free, oom |-> FALSE]

\* Three tables are made sure of, one below the other; then the entry of the
\* page is written.
MapTables(pml4, va, pa, flags) ==
  LET inter == {"P", "W"} \cup (flags \cap {"U"})
      Sub(s, table, index) == s.mem[table][index].addr
  IN  \E s3 \in {EnsureTable(NoOom, pml4, PML4_INDEX(va), inter)} :
      \E pdpt \in {Sub(s3, pml4, PML4_INDEX(va))} :
      \E s2 \in {EnsureTable(s3, pdpt, PDPT_INDEX(va), inter)} :
      \E pd \in {IF s2.oom THEN pdpt ELSE Sub(s2, pdpt, PDPT_INDEX(va))} :
      \E s1 \in {EnsureTable(s2, pd, PD_INDEX(va), inter)} :
        /\ free' = s1.free
        /\ \/ /\ s1.oom
              /\ mem' = s1.mem
              /\ phase' = "panic"
              /\ UNCHANGED tlb
           \/ /\ ~s1.oom
              /\ mem' = [s1.mem EXCEPT ![Sub(s1, pd, PD_INDEX(va))][PT_INDEX(va)] =
                                         Entry(pa, flags)]
              /\ tlb' = Invalidate(va)
              /\ UNCHANGED phase

Aligned(pml4, va, pa) == \A addr \in {pml4, va, pa} : IS_PAGE_ALIGNED(addr)

MapPage(pml4, va, pa, flags) ==
  \/ Aligned(pml4, va, pa) /\ MapTables(pml4, va, pa, flags)
  \/ ~Aligned(pml4, va, pa) /\ UNCHANGED <<mem, free, phase, tlb>>

Unmap(m, pml4, va) ==
  LET pts == {e.addr : e \in {f \in PdEntries(m, pml4, va) : Present(f)}}
  IN  [t \in DOMAIN m |-> IF t \in pts THEN [m[t] EXCEPT ![PT_INDEX(va)] = Zero] ELSE m[t]]

\* Mutant: paging_unmap without the invlpg.
UnmapPageNoInvlpg(pml4, va) ==
  /\ mem' = IF Aligned(pml4, va, 0) /\ paging_is_mapped(mem, pml4, va)
             THEN Unmap(mem, pml4, va) ELSE mem
  /\ UNCHANGED <<free, phase, tlb>>

UnmapPage(pml4, va) ==
  /\ IF Aligned(pml4, va, 0) /\ paging_is_mapped(mem, pml4, va)
     THEN mem' = Unmap(mem, pml4, va) /\ tlb' = Invalidate(va)
     ELSE UNCHANGED <<mem, tlb>>
  /\ UNCHANGED <<free, phase>>

-------------------------------------------------------------------------------
(* The tables that paging_destroy_pml4 gives back. *)

\* The entries that point to tables, and the tables, under these tables.
Links(tables, indices) == {e \in tables \X indices : Present(mem[e[1]][e[2]])}
TablesBelow(tables, indices) == {mem[e[1]][e[2]].addr : e \in Links(tables, indices)}

\* Mutant: the page tables are forgotten.
UserTablesNoPts(pml4) ==
  LET pdpts == TablesBelow({pml4}, UserIndices)
  IN  pdpts \cup TablesBelow(pdpts, Indices)

\* The tables that map the user half of an address space.
UserTables(pml4) ==
  LET pdpts == TablesBelow({pml4}, UserIndices)
      pds   == TablesBelow(pdpts, Indices)
  IN  pdpts \cup pds \cup TablesBelow(pds, Indices)

===============================================================================
