------------------------------ MODULE PagingSteps -----------------------------
(***************************************************************************)
(* The inductive invariant of Paging, and that every step keeps it, for    *)
(* every number of entries per table, every pool of frames and every       *)
(* sequence of calls.                                                      *)
(***************************************************************************)
EXTENDS PagingViews, PagingForest

TypeOK ==
  /\ mem \in Memory /\ free \in SUBSET Pool /\ live \in SUBSET Pool
  /\ phase \in {"boot", "tables", "ranges", "switch", "up", "panic"}
  /\ todo \in Seq(RangeRecords)
  /\ kernel_pml4_entries \in [KernelIndices -> Entries]

\* The order of paging_init.
Order ==
  /\ phase = "boot" => live = {} /\ free = Pool
  /\ phase \in {"boot", "tables", "switch"} => todo = <<>>
  /\ phase \in {"tables", "ranges", "switch"} => live = {kernel_pml4}
  /\ phase = "up" => live # {}
  /\ phase \in {"ranges", "switch", "up"} => Full(mem, kernel_pml4)
  /\ phase \in {"switch", "up"} => \A i \in KernelIndices : kernel_pml4_entries[i] = mem[kernel_pml4][i]

\* The range calls under way.
Ranges == \A n \in 1 .. Len(todo) : todo[n].pml4 \in live /\ Proper(phase, kernel_pml4, todo[n])

\* Kinds and owners can be found for the frames.
Sound == \E lev, owner : Good(mem, free, live, kernel_pml4, lev, owner)

IInv == TypeOK /\ Order /\ Ranges /\ (live # {} => Sound)

-------------------------------------------------------------------------------
(* paging_init *)

\* Before paging_init there is no address space.
LEMMA InitIInv ==
  ASSUME Init
  PROVE  IInv
<1>1. TypeOK
  <2>1. Junk \in Entries /\ Zero \in Entries
    BY PagingAssumption, Sets, Zenon
  <2>2. mem \in Memory
    BY <2>1, Zenon DEF Init, Memory
  <2>3. kernel_pml4_entries \in [KernelIndices -> Entries]
    BY <2>1, Zenon DEF Init
  <2>4. todo \in Seq(RangeRecords)
    BY DEF Init
  <2> QED BY <2>2, <2>3, <2>4, Zenon DEF Init, TypeOK
<1>2. Order /\ Ranges /\ live = {}
  BY DEF Init, Order, Ranges
<1> QED BY <1>1, <1>2, Zenon DEF IInv

\* paging_init clears its PML4.
LEMMA InitPml4Step ==
  ASSUME MinIsFree, IInv, InitPml4
  PROVE  IInv' /\ Grown
<1>1. phase = "boot" /\ TypeOK /\ Order /\ Ranges
  BY Zenon DEF InitPml4, IInv
<1>2. live = {} /\ free = Pool /\ todo = <<>> /\ todo' = todo /\ kernel_pml4_entries' = kernel_pml4_entries
  BY <1>1, Zenon DEF Order, InitPml4
<1>3. CASE free = {}
  <2>1. phase' = "panic" /\ mem' = mem /\ free' = free /\ live' = live
    BY <1>3, Zenon DEF InitPml4
  <2>2. TypeOK'
    BY <1>1, <1>2, <2>1, Zenon DEF TypeOK
  <2>3. Order' /\ Ranges'
    BY <1>2, <2>1 DEF Order, Ranges
  <2> QED BY <1>2, <2>1, <2>2, <2>3, Zenon DEF IInv, Grown, SameView
<1>4. CASE free # {}
  <2> DEFINE c == Min(free)
  <2>1. c \in Pool
    BY <1>1, <1>2, <1>4, Zenon DEF MinIsFree, TypeOK
  <2>2. /\ phase' = "tables" /\ kernel_pml4' = c /\ live' = {c} /\ free' = free \ {c}
        /\ mem' = [mem EXCEPT ![c] = ZeroTable]
    BY <1>4, Zenon DEF InitPml4
  <2> HIDE DEF c
  <2>3. PICK lev, owner : Good(mem', free', live', kernel_pml4', lev, owner)
    BY <1>1, <1>2, <2>1, <2>2, FirstSpace, Zenon DEF TypeOK
  <2>4. TypeOK'
    BY <1>1, <1>2, <2>2, <2>3, Zenon DEF TypeOK, Good
  <2>5. Order' /\ Ranges'
    BY <1>2, <2>2 DEF Order, Ranges
  <2>6. Sound'
    BY <2>3, Zenon DEF Sound
  <2>7. ASSUME NEW va \in Nat PROVE Translate(mem', c, va) = {}
    <3>1. mem \in Memory /\ c \in Frames /\ PML4_INDEX(va) \in Indices
      BY <1>1, <2>1, IndexTypes, Sets, Zenon DEF TypeOK
    <3>2. mem'[c] = ZeroTable
      BY <2>2, <3>1, Zenon DEF Memory
    <3>3. ~Present(mem'[c][PML4_INDEX(va)])
      BY <3>1, <3>2, Sets, Zenon DEF ZeroTable
    <3> QED BY <3>3, NothingBelow, Zenon
  <2>8. Grown
    BY <1>2, <2>2, <2>7, Zenon DEF Grown, SameView
  <2> QED BY <2>4, <2>5, <2>6, <2>8, Zenon DEF IInv
<1> QED BY <1>3, <1>4, Zenon

\* The state of a running system.
LEMMA Running ==
  ASSUME IInv, live # {}
  PROVE  \E lev, owner : Good(mem, free, live, kernel_pml4, lev, owner)
BY Zenon DEF IInv, Sound

\* paging_init gives the kernel half a PDPT.
LEMMA InitPdptStep ==
  ASSUME MinIsFree, IInv, InitPdpt
  PROVE  IInv' /\ Grown
<1> DEFINE k == kernel_pml4
<1>1. TypeOK /\ phase = "tables" /\ live = {k} /\ todo = <<>>
  BY Zenon DEF InitPdpt, IInv, Order
<1>2. /\ todo' = todo /\ kernel_pml4' = k /\ kernel_pml4_entries' = kernel_pml4_entries /\ live' = live
  BY Zenon DEF InitPdpt
<1>3. PICK i \in KernelIndices :
        LET s == EnsureTable(NoOom, k, i, {"P", "W"})
        IN  mem' = s.mem /\ free' = s.free /\ phase' = IF s.oom THEN "panic" ELSE phase
  BY Zenon DEF InitPdpt
<1>4. PICK lev, owner : Good(mem, free, live, k, lev, owner)
  BY <1>1, Running, Zenon
<1>5. Ready(NoOom, k, i, {"P", "W"}, live, k, lev, owner, "PDPT")
  <2>1. NoOom \in States /\ ~NoOom.oom /\ NoOom.mem = mem /\ NoOom.free = free
    BY <1>1, Zenon DEF NoOom, States, TypeOK
  <2>2. k \in Pool /\ lev[k] = "PML4" /\ i \in Indices
    BY <1>1, <1>4, Sets, LevelsOf DEF Good
  <2>3. Slot(lev, k, k, i) /\ Rank("PDPT", lev[k])
    BY <2>2, Zenon DEF Slot, Rank, Upper
  <2>4. {"P", "W"} \in SUBSET Flags /\ lev[k] \notin Lower
    BY <2>2, Zenon DEF Flags, Lower
  <2> QED BY <1>1, <1>4, <2>1, <2>2, <2>3, <2>4, Zenon DEF Ready
<1> DEFINE s == EnsureTable(NoOom, k, i, {"P", "W"})
<1>6. Outcome(NoOom, s, live, k, lev, owner, k, k, i, "PDPT", {"P", "W"})
  BY <1>5, EnsureSlot, Zenon
<1>7. mem' = s.mem /\ free' = s.free /\ phase' \in {"tables", "panic"}
  BY <1>1, <1>3, Zenon
<1> HIDE DEF s
<1>8. PICK lev2, owner2 : /\ Good(mem', free', live, k, lev2, owner2)
                          /\ Keeps(mem, mem', k, lev, lev2, owner, owner2)
  <2>1. NoOom.mem = mem
    BY Zenon DEF NoOom
  <2> QED BY <1>6, <1>7, <2>1, Zenon DEF Outcome
<1>9. TypeOK'
  BY <1>1, <1>2, <1>7, <1>8, Zenon DEF TypeOK, Good
<1>10. Order' /\ Ranges'
  BY <1>1, <1>2, <1>7 DEF Order, Ranges
<1>11. Sound'
  BY <1>2, <1>8, Zenon DEF Sound
<1>12. SameView(mem, mem', live)
  <2>1. live \subseteq live
    BY Zenon
  <2> HIDE DEF k
  <2> QED BY <1>4, <1>8, <2>1, KeepsView, Zenon
<1> QED BY <1>2, <1>9, <1>10, <1>11, <1>12, Zenon DEF IInv, Grown

\* The mappings of the kernel are to be made.
LEMMA InitRangesStep ==
  ASSUME IInv, InitRanges
  PROVE  IInv' /\ \A v \in Nat : \A e : IS_PAGE_ALIGNED(v) /\ Wanted(v, e) => Pending(todo', v)
<1>1. TypeOK /\ live = {kernel_pml4} /\ Full(mem, kernel_pml4)
  BY Zenon DEF InitRanges, IInv, Order, Full
<1>2. /\ phase' = "ranges" /\ todo' = BootRanges /\ mem' = mem /\ free' = free /\ live' = live
      /\ kernel_pml4' = kernel_pml4 /\ kernel_pml4_entries' = kernel_pml4_entries
  BY Zenon DEF InitRanges
<1>3. /\ BootRanges \in Seq(RangeRecords)
      /\ \A n \in 1 .. Len(BootRanges) :
           BootRanges[n].pml4 = kernel_pml4 /\ Proper("ranges", kernel_pml4, BootRanges[n])
      /\ \A v \in Nat : \A e : IS_PAGE_ALIGNED(v) /\ Wanted(v, e) => Pending(BootRanges, v)
  <2>1. kernel_pml4 \in Pool
    BY <1>1, Zenon DEF TypeOK
  <2> QED BY <2>1, BootRangesOf, Zenon
<1>4. TypeOK'
  BY <1>1, <1>2, <1>3, Zenon DEF TypeOK
<1>5. Order'
  BY <1>1, <1>2, Zenon DEF Order, Full
<1>6. Ranges'
  BY <1>1, <1>2, <1>3, Zenon DEF Ranges
<1>7. Sound'
  BY <1>1, <1>2, Running, Zenon DEF Sound
<1> QED BY <1>2, <1>3, <1>4, <1>5, <1>6, <1>7, Zenon DEF IInv

\* The kernel half is recorded.
LEMMA InitSnapshotStep ==
  ASSUME IInv, InitSnapshot
  PROVE  IInv'
<1>1. TypeOK /\ live = {kernel_pml4} /\ Full(mem, kernel_pml4) /\ todo = <<>>
  BY Zenon DEF InitSnapshot, IInv, Order
<1>2. /\ phase' = "switch" /\ todo' = todo /\ mem' = mem /\ free' = free /\ live' = live
      /\ kernel_pml4' = kernel_pml4 /\ kernel_pml4_entries' = [i \in KernelIndices |-> mem[kernel_pml4][i]]
  BY Zenon DEF InitSnapshot
<1>3. kernel_pml4_entries' \in [KernelIndices -> Entries]
      /\ \A i \in KernelIndices : kernel_pml4_entries'[i] = mem[kernel_pml4][i]
  <2>1. \A i \in KernelIndices : mem[kernel_pml4][i] \in Entries
    BY <1>1, Sets, Zenon DEF TypeOK, Memory
  <2> QED BY <1>2, <2>1, Zenon
<1>4. TypeOK'
  BY <1>1, <1>2, <1>3, Zenon DEF TypeOK
<1>5. Order'
  BY <1>1, <1>2, <1>3, Zenon DEF Order, Full
<1>6. Ranges'
  BY <1>1, <1>2 DEF Ranges
<1>7. Sound'
  BY <1>1, <1>2, Running, Zenon DEF Sound
<1> QED BY <1>4, <1>5, <1>6, <1>7, Zenon DEF IInv

\* Steps that leave the tables alone: the switch to the new tables, switches between
\* address spaces, and what the processor caches.
LEMMA SameTables ==
  ASSUME IInv, UNCHANGED <<mem, free, todo, kernel_pml4, kernel_pml4_entries, live>>,
         phase' = phase \/ (phase = "switch" /\ phase' = "up")
  PROVE  IInv'
<1>1. TypeOK /\ Order /\ Ranges /\ (live # {} => Sound)
  BY Zenon DEF IInv
<1>2. TypeOK'
  BY <1>1, Zenon DEF TypeOK
<1>3. Order'
  BY <1>1, Zenon DEF Order, Full
<1>4. Ranges'
  <2>1. CASE phase' = phase
    BY <1>1, <2>1, Zenon DEF Ranges
  <2>2. CASE phase = "switch"
    <3>1. Len(todo') = 0
      BY <1>1, <2>2, Zenon DEF Order
    <3> QED BY <3>1 DEF Ranges
  <2> QED BY <2>1, <2>2, Zenon
<1>5. live' # {} => Sound'
  BY <1>1, Zenon DEF Sound
<1> QED BY <1>2, <1>3, <1>4, <1>5, Zenon DEF IInv

\* A page was mapped or unmapped.
LEMMA PageDone ==
  ASSUME IInv, Done, phase \in {"ranges", "up"},
         UNCHANGED <<kernel_pml4, kernel_pml4_entries, live>>,
         todo' \in Seq(RangeRecords), Ranges'
  PROVE  IInv'
<1>1. TypeOK /\ Order /\ live # {} /\ Full(mem, kernel_pml4)
  BY Zenon DEF IInv, Order
<1>2. PICK lev2, owner2 : Good(mem', free', live, kernel_pml4, lev2, owner2)
  BY Zenon DEF Done
<1>3. Kept(mem, mem', kernel_pml4) /\ phase' \in {phase, "panic"}
  BY Zenon DEF Done
<1>4. TypeOK'
  <2>1. mem' \in Memory /\ free' \in SUBSET Pool
    BY <1>2, Zenon DEF Good
  <2>2. phase' \in {"boot", "tables", "ranges", "switch", "up", "panic"}
    BY <1>3, Zenon
  <2> QED BY <1>1, <2>1, <2>2, Zenon DEF TypeOK
<1>5. Order'
  <2>1. Full(mem', kernel_pml4)
    BY <1>1, <1>3, Zenon DEF Full, Kept
  <2>2. phase = "up" => \A i \in KernelIndices : kernel_pml4_entries[i] = mem'[kernel_pml4][i]
    BY <1>1, <1>3, Zenon DEF Order, Kept
  <2> QED BY <1>1, <1>3, <2>1, <2>2, Zenon DEF Order, Full
<1>6. Sound'
  BY <1>2, Zenon DEF Sound
<1> QED BY <1>4, <1>5, <1>6, Zenon DEF IInv

\* The first page of a range call under way.
LEMMA HeadPage ==
  ASSUME IInv, todo # <<>>, phase # "panic", NEW r, r = Head(todo)
  PROVE  /\ r \in RangeRecords /\ r.pml4 \in live /\ Aligned(r.pml4, r.va, r.pa)
         /\ PageFine(phase, kernel_pml4, r.op, r.pml4, r.va, r.pa, r.flags)
         /\ phase \in {"ranges", "up"} /\ live # {} /\ Full(mem, kernel_pml4)
<1>1. TypeOK /\ Order /\ Ranges
  BY Zenon DEF IInv
<1>2. todo \in Seq(RangeRecords) /\ Len(todo) \in Nat /\ Len(todo) >= 1 /\ r = todo[1]
  BY <1>1 DEF TypeOK
<1>3. r \in RangeRecords /\ r.pml4 \in live /\ Proper(phase, kernel_pml4, r)
  BY <1>1, <1>2 DEF Ranges
<1>4. phase \in {"ranges", "up"}
  BY <1>1, Zenon DEF TypeOK, Order
<1>5. live # {} /\ Full(mem, kernel_pml4)
  BY <1>1, <1>4, Zenon DEF Order
<1>6. PageFine(phase, kernel_pml4, r.op, r.pml4, r.va, r.pa, r.flags)
  <2>1. r.va \in Nat /\ r.pa \in Nat /\ r.pages \in Nat \ {0} /\ PAGE_SIZE \in Nat
    BY <1>3, Sets, Zenon DEF RangeRecords
  <2>2. 0 \in 0 .. (r.pages - 1) /\ r.va + 0 * PAGE_SIZE = r.va /\ r.pa + 0 * PAGE_SIZE = r.pa
    BY <2>1
  <2>3. PageFine(phase, kernel_pml4, r.op, r.pml4, r.va + 0 * PAGE_SIZE, r.pa + 0 * PAGE_SIZE, r.flags)
    BY <1>3, <2>2, Zenon DEF Proper
  <2> QED BY <2>2, <2>3, Zenon
<1> QED BY <1>3, <1>4, <1>5, <1>6, Zenon DEF Proper

\* The page of an iteration of paging_map_range or paging_unmap_range.
LEMMA RangePage ==
  ASSUME MinIsFree, IInv, RangeStep, NEW r, r = Head(todo)
  PROVE  /\ Remapped(r.pml4, r.va, Asked(r.op, r.pa, r.flags))
         /\ r.op = "map" => Mapped(r.pml4, r.va, r.pa, r.flags)
<1>1. todo # <<>> /\ phase # "panic"
  BY Zenon DEF RangeStep
<1>2. /\ r \in RangeRecords /\ r.pml4 \in live /\ Aligned(r.pml4, r.va, r.pa)
      /\ PageFine(phase, kernel_pml4, r.op, r.pml4, r.va, r.pa, r.flags)
      /\ live # {} /\ Full(mem, kernel_pml4)
  BY <1>1, HeadPage, Zenon
<1>3. PICK lev, owner : Good(mem, free, live, kernel_pml4, lev, owner)
  BY <1>2, Running, Zenon
<1>4. r.va \in Nat /\ r.pa \in Nat /\ r.flags \in SUBSET Flags /\ (~IsUser(r.va) => "U" \notin r.flags)
  BY <1>2, Zenon DEF RangeRecords, PageFine
<1>5. CASE r.op = "map" /\ MapPage(r.pml4, r.va, r.pa, r.flags)
  <2>1. /\ Remapped(r.pml4, r.va, Shown(Entry(r.pa, r.flags)))
        /\ Aligned(r.pml4, r.va, r.pa) => Mapped(r.pml4, r.va, r.pa, r.flags)
    BY <1>2, <1>3, <1>4, <1>5, MapPageStep, Zenon
  <2> QED BY <1>2, <1>5, <2>1, Zenon DEF Asked
<1>6. CASE r.op = "unmap" /\ UnmapPage(r.pml4, r.va)
  <2>1. Remapped(r.pml4, r.va, {})
    BY <1>2, <1>3, <1>4, <1>6, UnmapPageStep, Zenon
  <2> QED BY <1>6, <2>1, Zenon DEF Asked
<1> QED BY <1>5, <1>6, Zenon DEF RangeStep

\* An iteration of paging_map_range or paging_unmap_range.
LEMMA RangeStepKeeps ==
  ASSUME MinIsFree, IInv, RangeStep
  PROVE  IInv'
<1> DEFINE r == Head(todo)
<1>1. todo # <<>> /\ phase # "panic" /\ UNCHANGED <<kernel_pml4, kernel_pml4_entries, live>>
      /\ todo' = IF r.pages = 1 THEN Tail(todo) ELSE [todo EXCEPT ![1] = NextPage(r)]
  BY Zenon DEF RangeStep
<1>2. phase \in {"ranges", "up"}
  BY <1>1, HeadPage, Zenon
<1>3. Done
  BY RangePage, Zenon DEF Remapped, ViewChange
<1>4. todo' \in Seq(RangeRecords) /\ Ranges'
  <2>1. /\ todo \in Seq(RangeRecords)
        /\ \A n \in 1 .. Len(todo) : todo[n].pml4 \in live /\ Proper(phase, kernel_pml4, todo[n])
    BY Zenon DEF IInv, TypeOK, Ranges
  <2>2. /\ todo' \in Seq(RangeRecords)
        /\ \A n \in 1 .. Len(todo') : todo'[n].pml4 \in live /\ Proper(phase, kernel_pml4, todo'[n])
    BY <1>1, <2>1, RangesLeft, Zenon
  <2>3. phase' \in {phase, "panic"}
    BY <1>3, Zenon DEF Done
  <2>4. \A n \in 1 .. Len(todo') : Proper(phase', kernel_pml4, todo'[n])
    BY <2>2, <2>3, ProperPanic, Zenon
  <2> QED BY <1>1, <2>2, <2>4, Zenon DEF Ranges
<1> QED BY <1>1, <1>2, <1>3, <1>4, PageDone, Zenon

\* What holds between two calls.
LEMMA IdleFacts ==
  ASSUME IInv, Idle
  PROVE  /\ TypeOK /\ phase = "up" /\ todo = <<>> /\ live # {} /\ Full(mem, kernel_pml4)
         /\ \A i \in KernelIndices : kernel_pml4_entries[i] = mem[kernel_pml4][i]
BY Zenon DEF IInv, Idle, Order

\* A step after which the kernel's half and the record of it are what they were.
LEMMA SpacesChange ==
  ASSUME IInv, Idle, UNCHANGED <<phase, todo, kernel_pml4, kernel_pml4_entries>>,
         Fits(mem', free', live', kernel_pml4), SameTable(mem, mem', kernel_pml4)
  PROVE  IInv'
<1>1. /\ TypeOK /\ phase = "up" /\ todo = <<>> /\ Full(mem, kernel_pml4)
      /\ \A i \in KernelIndices : kernel_pml4_entries[i] = mem[kernel_pml4][i]
  BY IdleFacts, Zenon
<1>2. mem' \in Memory /\ free' \in SUBSET Pool /\ live' \in SUBSET Pool /\ kernel_pml4 \in live'
  BY Zenon DEF Fits, Good, Half
<1>3. TypeOK'
  BY <1>1, <1>2, Zenon DEF TypeOK
<1>4. Order'
  BY <1>1, <1>2, Zenon DEF Order, Full, SameTable
<1>5. Ranges'
  BY <1>1 DEF Ranges
<1>6. Sound'
  BY Zenon DEF Sound, Fits
<1> QED BY <1>3, <1>4, <1>5, <1>6, Zenon DEF IInv

\* A panic stops everything.
LEMMA PanicKeeps ==
  ASSUME IInv, phase' = "panic", UNCHANGED <<mem, free, todo, kernel_pml4, kernel_pml4_entries, live>>
  PROVE  IInv'
<1>1. TypeOK'
  BY Zenon DEF IInv, TypeOK
<1>2. Order'
  BY Zenon DEF Order
<1>3. Ranges'
  <2>1. \A n \in 1 .. Len(todo) : todo[n].pml4 \in live /\ Proper(phase, kernel_pml4, todo[n])
    BY Zenon DEF IInv, Ranges
  <2>2. \A n \in 1 .. Len(todo) : Proper("panic", kernel_pml4, todo[n])
    BY <2>1, ProperPanic, Zenon
  <2> QED BY <2>1, <2>2, Zenon DEF Ranges
<1>4. live' # {} => Sound'
  BY Zenon DEF IInv, Sound
<1> QED BY <1>1, <1>2, <1>3, <1>4, Zenon DEF IInv

\* paging_create_pml4.
LEMMA CreateKeeps ==
  ASSUME MinIsFree, IInv, paging_create_pml4
  PROVE  IInv' /\ Grown
<1>1. /\ Idle /\ UNCHANGED <<todo, kernel_pml4, kernel_pml4_entries>>
      /\ TypeOK /\ live # {} /\ \A i \in KernelIndices : kernel_pml4_entries[i] = mem[kernel_pml4][i]
  BY IdleFacts, Zenon DEF paging_create_pml4
<1>2. CASE free = {}
  <2>1. phase' = "panic" /\ UNCHANGED <<mem, free, live>>
    BY <1>2, Zenon DEF paging_create_pml4
  <2>2. Grown
    BY <2>1, Zenon DEF Grown, SameView
  <2> QED BY <1>1, <2>1, <2>2, PanicKeeps, Zenon
<1>3. CASE free # {}
  <2> DEFINE c == Min(free)
             table == [i \in Indices |-> IF i \in UserIndices THEN Zero ELSE kernel_pml4_entries[i]]
  <2>1. /\ free' = free \ {c} /\ live' = live \cup {c} /\ mem' = [mem EXCEPT ![c] = table]
        /\ phase' = phase
    BY <1>3, Zenon DEF paging_create_pml4
  <2>2. c \in free
    BY <1>1, <1>3, Zenon DEF MinIsFree, TypeOK
  <2>3. NewTable(mem, kernel_pml4, table)
    <3>1. \A i \in Indices : i \in UserIndices \/ i \in KernelIndices
      BY Zenon DEF KernelIndices
    <3>2. \A i \in KernelIndices : i \in Indices /\ i \notin UserIndices /\ kernel_pml4_entries[i] \in Entries
      BY <1>1, Zenon DEF TypeOK, KernelIndices
    <3> QED BY <1>1, <3>1, <3>2, Sets, Zenon DEF NewTable
  <2>4. PICK lev, owner : Good(mem, free, live, kernel_pml4, lev, owner)
    BY <1>1, Running, Zenon
  <2> HIDE DEF c, table
  <2>5. Created(mem, free, live, mem', free', live', c, table)
    BY <2>1, <2>2, Zenon DEF Created
  <2>6. /\ Fits(mem', free', live', kernel_pml4) /\ SameTable(mem, mem', kernel_pml4)
        /\ SameView(mem, mem', live) /\ \A va \in Nat : IsUser(va) => Translate(mem', c, va) = {}
    BY <2>3, <2>4, <2>5, NewSpace, Zenon
  <2>7. Grown
    BY <1>1, <2>1, <2>6, Zenon DEF Grown
  <2> QED BY <1>1, <2>1, <2>6, <2>7, SpacesChange, Zenon
<1> QED BY <1>2, <1>3, Zenon

\* paging_destroy_pml4.
LEMMA DestroyKeeps ==
  ASSUME IInv, NEW p \in live, paging_destroy_pml4(p)
  PROVE  IInv'
<1> DEFINE D == UserTables(p) \cup {p}
           k == kernel_pml4
<1>1. /\ Idle /\ p # k /\ mem' = mem /\ free' = free \cup D /\ live' = live \ {p}
      /\ UNCHANGED <<phase, todo, kernel_pml4, kernel_pml4_entries>>
  BY Zenon DEF paging_destroy_pml4
<1>2. PICK lev, owner : Good(mem, free, live, k, lev, owner)
  BY Running, Zenon
<1>3. Subtree(lev, owner, p, D)
  BY <1>1, <1>2, UserTablesOwned, Zenon
<1> HIDE DEF D
<1>4. /\ mem \in Memory /\ free \in SUBSET Pool /\ live \in SUBSET Pool /\ p \in Pool
      /\ Half(mem, live, k) /\ Forest(mem, free, live, k, lev, owner) /\ Rights(mem, k, lev, owner)
  BY <1>2, Zenon DEF Good
<1>5. Forest(mem, free \cup D, live \ {p}, k, Freed(lev, D), owner)
  BY <1>1, <1>3, <1>4, DropSpace, Zenon
<1>6. Half(mem, live \ {p}, k)
  BY <1>1, <1>4, Zenon DEF Half
<1>7. Good(mem', free', live', k, Freed(lev, D), owner)
  <2>1. free \cup D \in SUBSET Pool /\ live \ {p} \in SUBSET Pool
    BY <1>3, <1>4, Zenon DEF Subtree
  <2>2. \A t \in Pool : Freed(lev, D)[t] # "free" => Freed(lev, D)[t] = lev[t]
    BY Zenon DEF Freed
  <2>3. Rights(mem, k, Freed(lev, D), owner)
    BY <1>4, <2>2, Zenon DEF Rights, Slot, Upper, Lower
  <2> QED BY <1>1, <1>4, <1>5, <1>6, <2>1, <2>3, Zenon DEF Good
<1>8. Fits(mem', free', live', k) /\ SameTable(mem, mem', k)
  BY <1>1, <1>7, Zenon DEF Fits, SameTable
<1> QED BY <1>1, <1>8, SpacesChange, Zenon

\* One of the two calls.
PageOp(op, p, va, pa, flags) ==
  \/ op = "map" /\ MapPage(p, va, pa, flags)
  \/ op = "unmap" /\ UnmapPage(p, va)

\* paging_map and paging_unmap.
LEMMA PageCallKeeps ==
  ASSUME MinIsFree, IInv, Idle, UNCHANGED <<todo, kernel_pml4, kernel_pml4_entries, live>>,
         NEW p \in live, NEW va \in Nat, NEW pa \in Nat, NEW flags \in SUBSET Flags,
         MayChange(va, flags), NEW op,
         PageOp(op, p, va, pa, flags)
  PROVE  IInv' /\ Remapped(p, va, Asked(op, pa, flags))
<1>1. TypeOK /\ phase = "up" /\ todo = <<>> /\ Full(mem, kernel_pml4)
  BY IdleFacts, Zenon
<1>2. ~IsUser(va) => "U" \notin flags
  BY Zenon DEF MayChange
<1>3. PICK lev, owner : Good(mem, free, live, kernel_pml4, lev, owner)
  BY Running, Zenon
<1>4. Remapped(p, va, Asked(op, pa, flags))
  <2>1. CASE op = "map" /\ MapPage(p, va, pa, flags)
    BY <1>1, <1>2, <1>3, <2>1, MapPageStep, Zenon DEF Asked
  <2>2. CASE op = "unmap" /\ UnmapPage(p, va)
    <3>1. Remapped(p, va, {})
      BY <1>3, <2>2, UnmapPageStep, Zenon
    <3> QED BY <2>2, <3>1, Zenon DEF Asked
  <2> QED BY <2>1, <2>2, Zenon DEF PageOp
<1>5. todo' \in Seq(RangeRecords) /\ Ranges'
  BY <1>1 DEF Ranges
<1>6. Done
  BY <1>4, Zenon DEF Remapped, ViewChange
<1> QED BY <1>1, <1>4, <1>5, <1>6, PageDone, Zenon

\* paging_map_range and paging_unmap_range, up to their loops.
LEMMA RangeCallKeeps ==
  ASSUME IInv, Idle, UNCHANGED <<mem, free, phase, kernel_pml4, kernel_pml4_entries, live>>,
         NEW p \in live, NEW va \in Nat, NEW pa \in Nat, NEW size \in Nat, NEW flags \in SUBSET Flags,
         va + size <= Top,
         \A i \in 0 .. (PAGE_COUNT(size) - 1) : MayChange(va + i * PAGE_SIZE, flags),
         NEW op \in {"map", "unmap"}, NEW r, r = PageRange(op, p, va, pa, size, flags), StartRange(r)
  PROVE  IInv'
<1>1. TypeOK /\ phase = "up" /\ live # {} /\ Full(mem, kernel_pml4)
  BY IdleFacts, Zenon
<1>2. /\ todo' \in Seq(RangeRecords)
      /\ \A n \in 1 .. Len(todo') : todo'[n].pml4 \in live /\ Proper("up", kernel_pml4, todo'[n])
  <2>1. CASE ~HasWork(r)
    <3>1. todo' = <<>>
      BY <2>1, Zenon DEF StartRange
    <3> QED BY <3>1
  <2>2. CASE HasWork(r)
    <3>1. todo' = <<r>>
      BY <2>2, Zenon DEF StartRange
    <3>2. /\ r.op = op /\ r.pml4 = p /\ r.va = va /\ r.pa = pa /\ r.pages = PAGE_COUNT(size) /\ r.flags = flags
      BY Zenon DEF PageRange
    <3>3. PAGE_COUNT(size) \in Nat \ {0}
      <4>1. size + PAGE_SIZE - 1 \in Nat /\ PAGE_SIZE \in Nat \ {0}
        BY Sets
      <4>2. PAGE_COUNT(size) \in Nat
        BY <4>1 DEF PAGE_COUNT
      <4> QED BY <2>2, <3>2, <4>2 DEF HasWork
    <3>4. r \in RangeRecords
      <4>1. p \in Pool
        BY <1>1, Zenon DEF TypeOK
      <4> QED BY <3>3, <4>1, Zenon DEF PageRange, RangeRecords
    <3>5. ASSUME NEW j \in 0 .. (PAGE_COUNT(size) - 1)
          PROVE  PageFine("up", kernel_pml4, op, p, va + j * PAGE_SIZE, pa + j * PAGE_SIZE, flags)
      <4>1. j * PAGE_SIZE \in Nat /\ j * PAGE_SIZE < size
        BY PagesOfSize, Zenon
      <4>2. va + j * PAGE_SIZE \in Nat /\ va + j * PAGE_SIZE < Top
        BY <4>1, TopSize
      <4> QED BY <4>2, CallFine, Zenon
    <3>6. Proper("up", kernel_pml4, r)
      BY <2>2, <3>2, <3>5, Zenon DEF Proper, HasWork
    <3> QED BY <3>1, <3>2, <3>4, <3>6
  <2> QED BY <2>1, <2>2, Zenon
<1>3. TypeOK'
  BY <1>1, <1>2, Zenon DEF TypeOK
<1>4. Order'
  BY <1>1, Zenon DEF IInv, Order, Full
<1>5. Ranges'
  BY <1>1, <1>2, Zenon DEF Ranges
<1>6. Sound'
  BY <1>1, Running, Zenon DEF Sound
<1> QED BY <1>3, <1>4, <1>5, <1>6, Zenon DEF IInv

\* A call after paging_init.
LEMMA CallsKeep ==
  ASSUME MinIsFree, IInv, Calls
  PROVE  IInv'
<1>1. CASE paging_create_pml4
  BY <1>1, CreateKeeps, Zenon
<1>2. ASSUME NEW p \in live, paging_switch_pml4(p) PROVE IInv'
  BY <1>2, SameTables, Zenon DEF paging_switch_pml4
<1>3. ASSUME NEW p \in live, paging_destroy_pml4(p) PROVE IInv'
  BY <1>3, DestroyKeeps, Zenon
<1>4. Virts \subseteq Nat /\ Physs \subseteq Nat /\ Sizes \subseteq Nat /\ FlagSets \subseteq SUBSET Flags
  BY PagingAssumption, Zenon
<1>5. ASSUME NEW p \in live, NEW va \in Virts, NEW pa \in Physs, NEW flags \in FlagSets,
             paging_map(p, va, pa, flags)
      PROVE  IInv'
  <2>1. va \in Nat /\ pa \in Nat /\ flags \in SUBSET Flags
    BY <1>4, Zenon
  <2>2. PageOp("map", p, va, pa, flags)
    BY <1>5, Zenon DEF paging_map, PageOp
  <2> QED BY <1>5, <2>1, <2>2, PageCallKeeps, Zenon DEF paging_map
<1>6. ASSUME NEW p \in live, NEW va \in Virts, paging_unmap(p, va)
      PROVE  IInv'
  <2>1. va \in Nat /\ 0 \in Nat /\ {} \in SUBSET Flags
    BY <1>4, Zenon
  <2>2. PageOp("unmap", p, va, 0, {})
    BY <1>6, Zenon DEF paging_unmap, PageOp
  <2> QED BY <1>6, <2>1, <2>2, PageCallKeeps, Zenon DEF paging_unmap
<1>7. ASSUME NEW p \in live, NEW va \in Virts, NEW pa \in Physs, NEW flags \in FlagSets, NEW size \in Sizes,
             paging_map_range(p, va, pa, size, flags)
      PROVE  IInv'
  <2>1. /\ va \in Nat /\ pa \in Nat /\ flags \in SUBSET Flags /\ size \in Nat /\ "map" \in {"map", "unmap"}
        /\ va + size <= Top
    BY <1>4, AddressAssumption, Zenon
  <2> QED BY <1>7, <2>1, RangeCallKeeps, Zenon DEF paging_map_range
<1>8. ASSUME NEW p \in live, NEW va \in Virts, NEW size \in Sizes, paging_unmap_range(p, va, size)
      PROVE  IInv'
  <2>1. /\ va \in Nat /\ 0 \in Nat /\ {} \in SUBSET Flags /\ size \in Nat /\ "unmap" \in {"map", "unmap"}
        /\ va + size <= Top
    BY <1>4, AddressAssumption, Zenon
  <2> QED BY <1>8, <2>1, RangeCallKeeps, Zenon DEF paging_unmap_range
<1> QED BY <1>1, <1>2, <1>3, <1>5, <1>6, <1>7, <1>8, Zenon DEF Calls

\* Every step keeps the invariant.
LEMMA NextIInv ==
  ASSUME MinIsFree, IInv, [Next]_vars
  PROVE  IInv'
<1>1. CASE paging_init
  <2>1. CASE InitPml4
    BY <2>1, InitPml4Step, Zenon
  <2>2. CASE InitPdpt
    BY <2>2, InitPdptStep, Zenon
  <2>3. CASE InitRanges
    BY <2>3, InitRangesStep, Zenon
  <2>4. CASE InitSnapshot
    BY <2>4, InitSnapshotStep, Zenon
  <2>5. CASE InitSwitch
    BY <2>5, SameTables, Zenon DEF InitSwitch
  <2> QED BY <1>1, <2>1, <2>2, <2>3, <2>4, <2>5, Zenon DEF paging_init
<1>2. CASE RangeStep
  BY <1>2, RangeStepKeeps, Zenon
<1>3. CASE Calls
  BY <1>3, CallsKeep, Zenon
<1>4. CASE \E va \in TlbPages : TlbFill(va)
  BY <1>4, SameTables, Zenon DEF TlbFill
<1>5. CASE UNCHANGED vars
  BY <1>5, SameTables, Zenon DEF vars
<1> QED BY <1>1, <1>2, <1>3, <1>4, <1>5, Zenon DEF Next, Halt

-------------------------------------------------------------------------------
(* The steps as the processor sees them *)

\* The kernel's PML4 is one of them.
LEMMA KernelLive ==
  ASSUME IInv, live # {}
  PROVE  kernel_pml4 \in live
<1>1. PICK lev, owner : Good(mem, free, live, kernel_pml4, lev, owner)
  BY Running, Zenon
<1> QED BY <1>1, Zenon DEF Good, Half

\* A kernel page is the same in every address space.
LEMMA SharedPage ==
  ASSUME IInv, NEW p \in live, NEW q \in live, NEW va \in Nat, ~IsUser(va)
  PROVE  Translate(mem, p, va) = Translate(mem, q, va)
<1>1. PML4_INDEX(va) \in KernelIndices
  <2>1. PML4_INDEX(va) \in Indices
    BY IndexTypes, Zenon
  <2> QED BY <2>1, Zenon DEF IsUser, KernelIndices
<1>2. PICK lev, owner : Good(mem, free, live, kernel_pml4, lev, owner)
  BY Running, Zenon
<1>3. Pml4Entries(mem, p, va) = Pml4Entries(mem, q, va)
  BY <1>1, <1>2, Zenon DEF Good, Half, Pml4Entries
<1> QED BY <1>3, Zenon DEF Translate

\* The address spaces share the kernel half.
LEMMA IsShared ==
  ASSUME IInv
  PROVE  Shared
<1>1. live # {} => kernel_pml4 \in live
  BY KernelLive, Zenon
<1>2. \A p \in live, q \in live, va \in Nat : ~IsUser(va) => Translate(mem, p, va) = Translate(mem, q, va)
  BY SharedPage, Zenon
<1> QED BY <1>1, <1>2, Zenon DEF Shared, IInv, Order

\* An iteration of a range call.
LEMMA RangeViews ==
  ASSUME MinIsFree, IInv, RangeStep
  PROVE  \E p, va, op, pa, flags : PageStep(p, va, op, pa, flags)
<1> DEFINE r == Head(todo)
<1>1. todo # <<>> /\ phase # "panic" /\ UNCHANGED <<live, kernel_pml4, cr3, nxe>>
      /\ todo' = IF r.pages = 1 THEN Tail(todo) ELSE [todo EXCEPT ![1] = NextPage(r)]
  BY Zenon DEF RangeStep
<1>2. /\ r \in RangeRecords /\ r.pml4 \in live
      /\ PageFine(phase, kernel_pml4, r.op, r.pml4, r.va, r.pa, r.flags) /\ phase \in {"ranges", "up"}
  BY <1>1, HeadPage, Zenon
<1>3. /\ Remapped(r.pml4, r.va, Asked(r.op, r.pa, r.flags))
      /\ r.op = "map" => Mapped(r.pml4, r.va, r.pa, r.flags)
  BY RangePage, Zenon
<1>4. r.va \in Nat /\ r.pa \in Nat
  BY <1>2, Zenon DEF RangeRecords
<1>5. \A v \in Nat : Pending(todo, v) => v = r.va \/ Pending(todo', v)
  <2>1. todo \in Seq(RangeRecords)
    BY Zenon DEF IInv, TypeOK
  <2> QED BY <1>1, <2>1, PendingLeft, Zenon
<1>6. phase = "ranges" => r.op = "map"
  BY <1>2, Zenon DEF PageFine
<1>7. PageStep(r.pml4, r.va, r.op, r.pa, r.flags)
  BY <1>1, <1>2, <1>3, <1>4, <1>5, <1>6, Zenon DEF PageStep, Remapped, ViewChange, Done, Mapped
<1> QED BY <1>7, Zenon

\* paging_map and paging_unmap.
LEMMA PageCallViews ==
  ASSUME MinIsFree, IInv, Idle, UNCHANGED <<todo, kernel_pml4, kernel_pml4_entries, live, cr3, nxe>>,
         NEW p \in live, NEW va \in Virts, NEW pa \in Nat, NEW flags \in SUBSET Flags,
         MayChange(va, flags), NEW op, PageOp(op, p, va, pa, flags)
  PROVE  PageStep(p, va, op, pa, flags)
<1>1. va \in Nat /\ va < Top
  BY PagingAssumption, AddressAssumption, Zenon
<1>2. Remapped(p, va, Asked(op, pa, flags))
  BY <1>1, PageCallKeeps, Zenon
<1>3. phase = "up"
  BY Zenon DEF Idle
<1>4. PageFine(phase, kernel_pml4, op, p, va, pa, flags)
  BY <1>1, <1>3, CallFine, Zenon
<1> QED BY <1>1, <1>2, <1>3, <1>4, Zenon DEF PageStep, Remapped, ViewChange, Done

\* The steps of paging_init but for the loops of its range calls.
LEMMA InitViews ==
  ASSUME MinIsFree, IInv, paging_init
  PROVE  GrowStep \/ StillStep
<1>1. CASE InitPml4
  <2>1. Grown
    BY <1>1, InitPml4Step, Zenon
  <2>2. live = {}
    BY <1>1, Zenon DEF InitPml4, IInv, Order
  <2>3. /\ phase = "boot" /\ phase' \in {"tables", "panic"} /\ UNCHANGED <<cr3, nxe, tlb>>
    BY <1>1, Zenon DEF InitPml4
  <2> QED BY <2>1, <2>2, <2>3, Zenon DEF GrowStep
<1>2. CASE InitPdpt
  <2>1. Grown
    BY <1>2, InitPdptStep, Zenon
  <2>2. /\ phase = "tables" /\ phase' \in {"tables", "panic"} /\ UNCHANGED <<kernel_pml4, cr3, nxe, tlb>>
    BY <1>2, Zenon DEF InitPdpt
  <2> QED BY <2>1, <2>2, Zenon DEF GrowStep
<1>3. CASE InitRanges
  BY <1>3, InitRangesStep, Zenon DEF InitRanges, StillStep, CacheStep
<1>4. CASE InitSnapshot
  BY <1>4, Zenon DEF InitSnapshot, StillStep, CacheStep
<1>5. CASE InitSwitch
  <2>1. live = {kernel_pml4}
    BY <1>5, Zenon DEF InitSwitch, IInv, Order
  <2> QED BY <1>5, <2>1, Zenon DEF InitSwitch, StillStep, CacheStep
<1> QED BY <1>1, <1>2, <1>3, <1>4, <1>5, Zenon DEF paging_init

\* Every step is one of the three.
LEMMA NextViews ==
  ASSUME MinIsFree, IInv, [Next]_vars
  PROVE  GrowStep \/ StillStep \/ \E p, va, op, pa, flags : PageStep(p, va, op, pa, flags)
<1>1. CASE paging_init
  BY <1>1, InitViews, Zenon
<1>2. CASE RangeStep
  BY <1>2, RangeViews, Zenon
<1>3. CASE Calls
  <2>1. CASE paging_create_pml4
    <3>1. Grown
      BY <2>1, CreateKeeps, Zenon
    <3>2. /\ phase = "up" /\ phase' \in {"up", "panic"} /\ UNCHANGED <<kernel_pml4, cr3, nxe, tlb>>
      BY <2>1, Zenon DEF paging_create_pml4, Idle
    <3> QED BY <3>1, <3>2, Zenon DEF GrowStep
  <2>2. ASSUME NEW p \in live, paging_switch_pml4(p) PROVE StillStep
    BY <2>2, Zenon DEF paging_switch_pml4, StillStep, CacheStep, Idle
  <2>3. ASSUME NEW p \in live, paging_destroy_pml4(p) PROVE StillStep
    <3>1. kernel_pml4 \in live
      BY KernelLive, Zenon
    <3> QED BY <2>3, <3>1, Zenon DEF paging_destroy_pml4, StillStep, CacheStep, Idle
  <2>4. Physs \subseteq Nat /\ FlagSets \subseteq SUBSET Flags
    BY PagingAssumption, Zenon
  <2>5. ASSUME NEW p \in live, NEW va \in Virts, NEW pa \in Physs, NEW flags \in FlagSets,
               paging_map(p, va, pa, flags)
        PROVE  PageStep(p, va, "map", pa, flags)
    <3>1. pa \in Nat /\ flags \in SUBSET Flags /\ PageOp("map", p, va, pa, flags)
      BY <2>4, <2>5, Zenon DEF paging_map, PageOp
    <3> QED BY <2>5, <3>1, PageCallViews, Zenon DEF paging_map
  <2>6. ASSUME NEW p \in live, NEW va \in Virts, paging_unmap(p, va)
        PROVE  PageStep(p, va, "unmap", 0, {})
    <3>1. 0 \in Nat /\ {} \in SUBSET Flags /\ PageOp("unmap", p, va, 0, {})
      BY <2>6, Zenon DEF paging_unmap, PageOp
    <3> QED BY <2>6, <3>1, PageCallViews, Zenon DEF paging_unmap
  <2>7. ASSUME NEW p \in live, NEW va, NEW pa, NEW flags, NEW size, paging_map_range(p, va, pa, size, flags)
        PROVE  StillStep
    BY <2>7, Zenon DEF paging_map_range, StillStep, CacheStep, Idle
  <2>8. ASSUME NEW p \in live, NEW va, NEW size, paging_unmap_range(p, va, size)
        PROVE  StillStep
    BY <2>8, Zenon DEF paging_unmap_range, StillStep, CacheStep, Idle
  <2> QED BY <1>3, <2>1, <2>2, <2>3, <2>5, <2>6, <2>7, <2>8, Zenon DEF Calls
<1>4. ASSUME NEW va \in TlbPages, TlbFill(va) PROVE StillStep
  BY <1>4, Zenon DEF TlbFill, StillStep, CacheStep
<1>5. CASE UNCHANGED vars
  BY <1>5, Zenon DEF vars, StillStep, CacheStep
<1> QED BY <1>1, <1>2, <1>3, <1>4, <1>5, Zenon DEF Next, Halt

\* Only an iteration of a range call changes what there is left to do.
LEMMA TodoChanges ==
  ASSUME IInv, [Next]_vars, todo # <<>>, todo' # todo
  PROVE  RangeStep
<1>1. ~paging_init
  BY Zenon DEF paging_init, InitPml4, InitPdpt, InitRanges, InitSnapshot, InitSwitch, IInv, Order
<1>2. ~Calls
  BY Zenon DEF Calls, paging_create_pml4, paging_switch_pml4, paging_destroy_pml4, paging_map, paging_unmap,
               paging_map_range, paging_unmap_range, Idle
<1>3. ~\E va \in TlbPages : TlbFill(va)
  BY Zenon DEF TlbFill
<1>4. vars' # vars
  BY Zenon DEF vars
<1> QED BY <1>1, <1>2, <1>3, <1>4, Zenon DEF Next, Halt

\* What an iteration of paging_map_range maps.
LEMMA RangeMaps ==
  ASSUME MinIsFree, IInv, RangeStep, NEW r, r = Head(todo), r.op = "map", phase' # "panic",
         NEW p \in IF IsUser(r.va) THEN {r.pml4} ELSE live'
  PROVE  Translate(mem', p, r.va) = IF "P" \in r.flags THEN {Entry(r.pa, r.flags)} ELSE {}
<1> DEFINE e == Entry(r.pa, r.flags)
<1>1. Mapped(r.pml4, r.va, r.pa, r.flags)
  BY RangePage, Zenon
<1>2. Changed(mem, mem', live, r.pml4, r.va, Shown(e))
  BY <1>1, Zenon DEF Mapped
<1>3. todo # <<>> /\ phase # "panic" /\ live' = live
  BY Zenon DEF RangeStep
<1>4. r \in RangeRecords /\ r.pml4 \in live
  BY <1>3, HeadPage, Zenon
<1>5. p \in live /\ r.va \in Nat /\ SamePage(r.pml4, r.va, p, r.va)
  <2>1. r.va \in Nat
    BY <1>4, Zenon DEF RangeRecords
  <2>2. p \in live /\ (IsUser(r.va) => p = r.pml4)
    BY <1>3, <1>4, Zenon
  <2> QED BY <2>1, <2>2, Zenon DEF SamePage, SamePt
<1>6. Present(e) <=> "P" \in r.flags
  BY DEF Present, Entry
<1> HIDE DEF e
<1>7. Translate(mem', p, r.va) = Shown(e)
  BY <1>2, <1>5, Zenon DEF Changed
<1>8. Shown(e) = IF "P" \in r.flags THEN {e} ELSE {}
  BY <1>6, Zenon DEF Shown
<1> QED BY <1>7, <1>8, Zenon DEF e
===============================================================================
