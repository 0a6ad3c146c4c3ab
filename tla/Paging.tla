-------------------------------- MODULE Paging --------------------------------
(***************************************************************************)
(* Four-level paging, src/memory/paging.c and paging.asm: what paging_init *)
(* does, and the calls made after it, over the tables of PageTables. There *)
(* is an address space per PML4, and a kernel half that all address spaces *)
(* share because they hold the same PDPTs.                                 *)
(*                                                                         *)
(* The functions run to completion except for the two range functions,     *)
(* whose loops take one step per page (todo).  A failed allocation panics  *)
(* on the spot.                                                            *)
(***************************************************************************)
EXTENDS PageTables

(* The range functions *)

PageRange(op, pml4, va, pa, size, flags) ==
  [op |-> op, pml4 |-> pml4, va |-> va, pa |-> pa, pages |-> PAGE_COUNT(size),
   flags |-> flags]

\* The early returns, and a loop of no iterations.
HasWork(r) ==
  Aligned(r.pml4, r.va, r.pa) /\ r.pages > 0

StartRange(r) == todo' = IF HasWork(r) THEN <<r>> ELSE <<>>

\* What is left after one iteration.
NextPage(r) ==
  [r EXCEPT !.va = @ + PAGE_SIZE, !.pa = @ + PAGE_SIZE, !.pages = @ - 1]

\* One iteration of the loop of paging_map_range or paging_unmap_range.
RangeStep ==
  /\ todo # <<>>
  /\ phase # "panic"
  /\ LET r == Head(todo)
     IN  /\ \/ r.op = "map" /\ MapPage(r.pml4, r.va, r.pa, r.flags)
            \/ r.op = "unmap" /\ UnmapPage(r.pml4, r.va)
         /\ todo' = IF r.pages = 1 THEN Tail(todo)
                    ELSE [todo EXCEPT ![1] = NextPage(r)]
  /\ UNCHANGED <<kernel_pml4, kernel_pml4_entries, live, cr3, nxe>>

-------------------------------------------------------------------------------
(* paging_init, in the order of its statements *)

\* The PML4 is allocated and cleared.
InitPml4 ==
  /\ phase = "boot"
  /\ IF free = {}
     THEN phase' = "panic" /\ UNCHANGED <<mem, free, kernel_pml4, live>>
     ELSE /\ phase' = "tables"
          /\ kernel_pml4' = Min(free)
          /\ live' = {kernel_pml4'}
          /\ free' = free \ {kernel_pml4'}
          /\ mem' = [mem EXCEPT ![kernel_pml4'] = ZeroTable]
  /\ UNCHANGED <<todo, kernel_pml4_entries, cr3, nxe, tlb>>

\* An iteration of the loop that gives the kernel half its PDPTs.
InitPdpt ==
  /\ phase = "tables"
  /\ \E i \in KernelIndices :
       /\ ~Present(mem[kernel_pml4][i])
       /\ \A j \in KernelIndices : j < i => Present(mem[kernel_pml4][j])
       /\ LET s == EnsureTable(NoOom, kernel_pml4, i, {"P", "W"})
          IN  /\ mem' = s.mem
              /\ free' = s.free
              /\ phase' = IF s.oom THEN "panic" ELSE phase
  /\ UNCHANGED <<todo, kernel_pml4, kernel_pml4_entries, live, cr3, nxe, tlb>>

\* Mutant: PAGE_NO_EXECUTE forgotten for .rodata.
SegmentFlagsExecutable ==
  [limine |-> {"P", "G", "NX"}, text |-> {"P", "G"}, rodata |-> {"P", "G"},
   data |-> {"P", "G", "NX", "W"}]

SegmentFlags ==
  [limine |-> {"P", "G", "NX"},
   text   |-> {"P", "G"},
   rodata |-> {"P", "G", "NX"},
   data   |-> {"P", "G", "NX", "W"}]

HhdmFlags == {"P", "G", "NX", "W"}

SegmentPhys(name) == (Segments[name].start - KernelVirt) + KernelPhys

SegmentRange(name) ==
  PageRange("map", kernel_pml4, Segments[name].start, SegmentPhys(name),
        Segments[name].end - Segments[name].start, SegmentFlags[name])

BootRanges ==
  <<PageRange("map", kernel_pml4, HHDM, 0, MemSize, HhdmFlags),
    SegmentRange("limine"), SegmentRange("text"), SegmentRange("rodata"),
    SegmentRange("data")>>

\* Mutant: the kernel half is not given its PDPTs beforehand.
InitRangesUnfilled ==
  /\ phase = "tables"
  /\ phase' = "ranges"
  /\ todo' = BootRanges
  /\ UNCHANGED <<mem, free, kernel_pml4, kernel_pml4_entries, live, cr3, nxe, tlb>>

\* The HHDM and the sections of the kernel image are to be mapped; by
\* PagingAssumption each of them has pages.
InitRanges ==
  /\ phase = "tables"
  /\ \A i \in KernelIndices : Present(mem[kernel_pml4][i])
  /\ phase' = "ranges"
  /\ todo' = BootRanges
  /\ UNCHANGED <<mem, free, kernel_pml4, kernel_pml4_entries, live, cr3, nxe, tlb>>

\* The kernel half is recorded and NX is enabled.
InitSnapshot ==
  /\ phase = "ranges"
  /\ todo = <<>>
  /\ phase' = "switch"
  /\ kernel_pml4_entries' = [i \in KernelIndices |-> mem[kernel_pml4][i]]
  /\ nxe' = TRUE
  /\ UNCHANGED <<mem, free, todo, kernel_pml4, live, cr3, tlb>>

\* mov cr3: translations that are not global are forgotten.
LoadCr3(pml4) ==
  /\ cr3' = pml4
  /\ tlb' = {e \in tlb : "G" \in e.flags}

InitSwitch ==
  /\ phase = "switch"
  /\ phase' = "up"
  /\ LoadCr3(kernel_pml4)
  /\ UNCHANGED <<mem, free, todo, kernel_pml4, kernel_pml4_entries, live, nxe>>

-------------------------------------------------------------------------------
(* Calls after paging_init.  Callers owe the following: they name PML4s that
   exist; they destroy neither the kernel's nor the current one; they map no
   user page as global and no kernel page as user; and they leave the HHDM and
   the kernel image alone. *)

Idle == phase = "up" /\ todo = <<>>

BootMapped(va) ==
  \/ va \in HHDM .. (HHDM + MemSize - 1)
  \/ \E name \in DOMAIN Segments : va \in Segments[name].start .. (Segments[name].end - 1)

\* The HHDM and the image lie in the kernel half, apart from each other, and
\* link.ld puts one section after the other.  Callers name addresses below Top;
\* what the processor caches, and what the properties watch, are pages.
ASSUME AddressAssumption ==
  /\ HHDM + MemSize <= Top
  /\ \A a \in DOMAIN Segments :
       /\ Segments[a].end <= Top
       /\ HHDM + MemSize <= Segments[a].start \/ Segments[a].end <= HHDM
       /\ \A b \in DOMAIN Segments \ {a} :
            Segments[a].end <= Segments[b].start \/ Segments[b].end <= Segments[a].start
  /\ \A va \in 0 .. (Top - 1) : BootMapped(va) => ~IsUser(va)
  /\ \A va \in Virts : va < Top /\ \A size \in Sizes : va + size <= Top
  /\ \A va \in TlbPages \cup Pages : va < Top /\ IS_PAGE_ALIGNED(va)

MayChange(va, flags) ==
  IF IsUser(va) THEN "G" \notin flags ELSE "U" \notin flags /\ ~BootMapped(va)

paging_switch_pml4(pml4) ==
  /\ Idle
  /\ LoadCr3(pml4)
  /\ UNCHANGED <<mem, free, phase, todo, kernel_pml4, kernel_pml4_entries, live, nxe>>

paging_create_pml4 ==
  /\ Idle
  /\ Cardinality(live) < MaxSpaces
  /\ IF free = {}
     THEN phase' = "panic" /\ UNCHANGED <<mem, free, live>>
     ELSE LET pml4 == Min(free)
          IN  /\ free' = free \ {pml4}
              /\ live' = live \cup {pml4}
              /\ mem' = [mem EXCEPT ![pml4] =
                           [i \in Indices |-> IF i \in UserIndices THEN Zero
                                               ELSE kernel_pml4_entries[i]]]
              /\ UNCHANGED phase
  /\ UNCHANGED <<todo, kernel_pml4, kernel_pml4_entries, cr3, nxe, tlb>>

paging_destroy_pml4(pml4) ==
  /\ Idle
  /\ pml4 \notin {kernel_pml4, cr3}
  /\ free' = free \cup UserTables(pml4) \cup {pml4}
  /\ live' = live \ {pml4}
  /\ UNCHANGED <<mem, phase, todo, kernel_pml4, kernel_pml4_entries, cr3, nxe, tlb>>

paging_map(pml4, va, pa, flags) ==
  /\ Idle
  /\ MayChange(va, flags)
  /\ MapPage(pml4, va, pa, flags)
  /\ UNCHANGED <<todo, kernel_pml4, kernel_pml4_entries, live, cr3, nxe>>

paging_unmap(pml4, va) ==
  /\ Idle
  /\ MayChange(va, {})
  /\ UnmapPage(pml4, va)
  /\ UNCHANGED <<todo, kernel_pml4, kernel_pml4_entries, live, cr3, nxe>>

paging_map_range(pml4, va, pa, size, flags) ==
  /\ Idle
  /\ \A i \in 0 .. (PAGE_COUNT(size) - 1) : MayChange(va + i * PAGE_SIZE, flags)
  /\ StartRange(PageRange("map", pml4, va, pa, size, flags))
  /\ UNCHANGED <<mem, free, phase, kernel_pml4, kernel_pml4_entries, live, cr3, nxe, tlb>>

paging_unmap_range(pml4, va, size) ==
  /\ Idle
  /\ \A i \in 0 .. (PAGE_COUNT(size) - 1) : MayChange(va + i * PAGE_SIZE, {})
  /\ StartRange(PageRange("unmap", pml4, va, 0, size, {}))
  /\ UNCHANGED <<mem, free, phase, kernel_pml4, kernel_pml4_entries, live, cr3, nxe, tlb>>

\* External: the processor may remember the translation of any page it can
\* reach, at any time.
TlbFill(va) ==
  /\ phase = "up"
  /\ \E e \in Translate(mem, cr3, va) :
       tlb' = tlb \cup {[va |-> va, addr |-> e.addr, flags |-> e.flags]}
  /\ UNCHANGED <<mem, free, phase, todo, kernel_pml4, kernel_pml4_entries, live, cr3, nxe>>

-------------------------------------------------------------------------------
Init ==
  /\ mem = [f \in Frames |-> [i \in Indices |-> Junk]]
  /\ free = Pool
  /\ phase = "boot"
  /\ todo = <<>>
  /\ kernel_pml4 = PMM_INVALID_ADDRESS
  /\ kernel_pml4_entries = [i \in KernelIndices |-> Zero]
  /\ live = {}
  /\ cr3 = PMM_INVALID_ADDRESS  \* the tables of the bootloader
  /\ nxe = FALSE
  /\ tlb = {}

paging_init == InitPml4 \/ InitPdpt \/ InitRanges \/ InitSnapshot \/ InitSwitch

Calls ==
  \/ paging_create_pml4
  \/ \E pml4 \in live :
       \/ paging_switch_pml4(pml4)
       \/ paging_destroy_pml4(pml4)
       \/ \E va \in Virts, pa \in Physs, flags \in FlagSets :
            \/ paging_map(pml4, va, pa, flags)
            \/ \E size \in Sizes : paging_map_range(pml4, va, pa, size, flags)
       \/ \E va \in Virts :
            \/ paging_unmap(pml4, va)
            \/ \E size \in Sizes : paging_unmap_range(pml4, va, size)

Halt == phase = "panic" /\ UNCHANGED vars

Next ==
  \/ paging_init
  \/ RangeStep
  \/ Calls
  \/ \E va \in TlbPages : TlbFill(va)
  \/ Halt

Spec == Init /\ [][Next]_vars

-------------------------------------------------------------------------------
(* Properties *)

\* Every frame of the pool is free or is exactly one table: no table in use
\* is ever free (or it would be handed out again while the processor walks
\* it), no two entries share a table, and no frame is lost, through any
\* sequence of create, map and destroy.  The shared half is counted once.
FrameOwnership ==
  live # {} =>
    LET pdpts == TablesBelow(live, UserIndices) \cup TablesBelow({kernel_pml4}, KernelIndices)
        upper == pdpts \cup TablesBelow(pdpts, Indices)
        links == Links(live, UserIndices) \cup Links({kernel_pml4}, KernelIndices)
                   \cup Links(upper, Indices)
        tables == {mem[e[1]][e[2]].addr : e \in links}
    IN  /\ Cardinality(tables) = Cardinality(links)
        /\ tables \cap live = {}
        /\ (tables \cup live) \cap free = {}
        /\ tables \cup live \cup free = Pool

\* The kernel goes on running in every address space: every frame is reached
\* through the HHDM, and the sections of the image are where the linker put
\* them, text alone executable, data alone writable, nothing open to users.
KernelAlwaysMapped ==
  phase = "up" => nxe /\ \A p \in live :
    LET Sees(va, pa, rights) ==
          /\ paging_get_physical(mem, p, va) = pa
          /\ \A e \in Translate(mem, p, va) : e.flags \cap {"W", "U", "NX"} = rights
        PagesOf(name) == {va \in Segments[name].start .. (Segments[name].end - 1) :
                            IS_PAGE_ALIGNED(va)}
        Rights(name) == CASE name = "text" -> {}
                          [] name = "data" -> {"W", "NX"}
                          [] OTHER -> {"NX"}
    IN  /\ \A f \in Frames : Sees(HHDM + f, f, {"W", "NX"})
        /\ \A name \in DOMAIN Segments : \A va \in PagesOf(name) :
             Sees(va, (va - KernelVirt) + KernelPhys, Rights(name))

\* The processor never holds a translation that differs from the tables it
\* runs on.
TlbCoherent ==
  \A e \in tlb : Translate(mem, cr3, e.va) = {Entry(e.addr, e.flags)}

\* When an iteration of a range call has mapped a page, the processor finds
\* the frame and exactly the rights that were asked for, in the address space
\* named and, for a kernel page, in every address space.
MapsAsAsked ==
  [][\A r \in {todo[i] : i \in 1 .. Len(todo)} :
       r = Head(todo) /\ r.op = "map" /\ phase' # "panic" =>
         \A p \in IF IsUser(r.va) THEN {r.pml4} ELSE live' :
           Translate(mem', p, r.va) =
             IF "P" \in r.flags THEN {Entry(r.pa, r.flags)} ELSE {}]_todo

\* The tables implement separate user halves and one kernel half.
UserPages == {va \in Pages : IsUser(va)}
KernelPages == Pages \ UserPages

KernelView ==
  [va \in KernelPages |-> IF live = {} THEN {} ELSE Translate(mem, kernel_pml4, va)]

AS == INSTANCE AddressSpaces WITH
  Unmapped <- {},
  spaces <- live,
  user <- [p \in live |-> [va \in UserPages |-> Translate(mem, p, va)]],
  kernel <- KernelView

ImplementsAddressSpaces == AS!ASSpec

\* The kernel half looks the same from every address space.
KernelHalfShared ==
  phase = "up" =>
    \A p \in live, va \in KernelPages :
      Translate(mem, p, va) = Translate(mem, kernel_pml4, va)

===============================================================================
