------------------------------- MODULE PmmProofs ------------------------------
(***************************************************************************)
(* The physical memory manager, for every instance: it keeps its books for *)
(* every page size, every memory map the bootloader may pass and every     *)
(* sequence of calls; and its search loops return the lowest run of free   *)
(* frames, for every bitmap, every number of frames and every count.       *)
(***************************************************************************)
EXTENDS Pmm, PmmScan, TLAPS

(* What setting and clearing bits does to the set of free frames, for a bitmap of
   any size *)

\* A frame number splits into a byte and a bit of the bitmap.
LEMMA ByteAndBit ==
  ASSUME NEW f \in Nat
  PROVE  f \div 8 \in Nat /\ f % 8 \in Bits /\ 8 * (f \div 8) + (f % 8) = f
BY DEF Bits

\* The byte of a tracked frame exists: pmm_init rounds the size up.
LEMMA ByteExists ==
  ASSUME NEW n \in Nat, NEW f \in 0 .. (n - 1)
  PROVE  f \div 8 \in 0 .. (bitmap_size_from_frames(n) - 1)
BY DEF bitmap_size_from_frames

\* Setting and clearing bits keeps a bitmap a bitmap.
LEMMA SetBitsType ==
  ASSUME NEW D, NEW bm \in [D -> SUBSET Bits], NEW F
  PROVE  SetBits(bm, F) \in [D -> SUBSET Bits]
BY Zenon DEF SetBits

\* The same for clearing.
LEMMA ClearBitsType ==
  ASSUME NEW D, NEW bm \in [D -> SUBSET Bits], NEW F
  PROVE  ClearBits(bm, F) \in [D -> SUBSET Bits]
BY Zenon DEF ClearBits

\* Setting the bits of F takes F out of the free frames.
LEMMA ZeroBitsOfSetBits ==
  ASSUME NEW D, NEW bm \in [D -> SUBSET Bits], NEW F, NEW n \in Nat
  PROVE  ZeroBits(SetBits(bm, F), n) = ZeroBits(bm, n) \ F
<1>1. ASSUME NEW f \in 0 .. (n - 1), f \div 8 \in D
      PROVE  IsSet(SetBits(bm, F), f) <=> IsSet(bm, f) \/ f \in F
  BY <1>1, ByteAndBit DEF IsSet, SetBits
<1>2. DOMAIN SetBits(bm, F) = D /\ DOMAIN bm = D
  BY Zenon DEF SetBits
<1> QED
  BY <1>1, <1>2, Zenon DEF ZeroBits

\* Clearing the bits of F adds the tracked frames of F to the free frames.
LEMMA ZeroBitsOfClearBits ==
  ASSUME NEW n \in Nat,
         NEW bm \in [0 .. (bitmap_size_from_frames(n) - 1) -> SUBSET Bits],
         NEW F \in SUBSET (0 .. (n - 1))
  PROVE  ZeroBits(ClearBits(bm, F), n) = ZeroBits(bm, n) \cup F
<1> DEFINE D == 0 .. (bitmap_size_from_frames(n) - 1)
<1>1. ASSUME NEW f \in 0 .. (n - 1), f \div 8 \in D
      PROVE  IsSet(ClearBits(bm, F), f) <=> IsSet(bm, f) /\ f \notin F
  BY <1>1, ByteAndBit DEF IsSet, ClearBits
<1>2. DOMAIN ClearBits(bm, F) = D /\ DOMAIN bm = D
  BY Zenon DEF ClearBits
<1>3. \A f \in 0 .. (n - 1) : f \div 8 \in D
  BY ByteExists, Zenon
<1> HIDE DEF D
<1> QED
  BY <1>1, <1>2, <1>3, Zenon DEF ZeroBits

\* A bitmap of ones, padding included, has no free frame.
LEMMA ZeroBitsOfOnes ==
  ASSUME NEW D, NEW n \in Nat
  PROVE  ZeroBits([b \in D |-> Bits], n) = {}
BY ByteAndBit DEF ZeroBits, IsSet

\* Setting bits never clears a padding bit.
LEMMA PaddingOfSetBits ==
  ASSUME NEW D, NEW bm \in [D -> SUBSET Bits], NEW F, NEW n,
         PaddingSet(bm, n)
  PROVE  PaddingSet(SetBits(bm, F), n)
BY Zenon DEF PaddingSet, SetBits

\* Clearing the bits of tracked frames does not either.
LEMMA PaddingOfClearBits ==
  ASSUME NEW n \in Nat, NEW D \in SUBSET Nat, NEW bm \in [D -> SUBSET Bits],
         NEW F \in SUBSET (0 .. (n - 1)), PaddingSet(bm, n)
  PROVE  PaddingSet(ClearBits(bm, F), n)
BY DEF PaddingSet, ClearBits, Bits

-------------------------------------------------------------------------------
(* The allocator *)

\* The page arithmetic stays in the natural numbers.
LEMMA PageCountType ==
  ASSUME NEW size \in Nat
  PROVE  PAGE_COUNT(size) \in Nat
BY PageSizeAssumption DEF PAGE_COUNT

\* So does the size of the bitmap.
LEMMA BitmapSizeType ==
  ASSUME NEW n \in Nat
  PROVE  bitmap_size_from_frames(n) \in Nat
BY DEF bitmap_size_from_frames

\* So do the ends of the tracked entries.
LEMMA TrackedEndsType ==
  ASSUME memmap \in MemMaps
  PROVE  {0} \cup TrackedEnds \subseteq Nat
BY MemMapAssumption DEF TrackedEnds, MemMapEntry

\* A bitmap fresh from pmm_init: free are the usable frames without the
\* frames of the bitmap itself.
LEMMA InitialBitmapFrees ==
  ASSUME NEW n \in Nat, NEW first
  PROVE  LET size == bitmap_size_from_frames(n)
         IN  /\ InitialBitmap(first, n) \in [0 .. (size - 1) -> SUBSET Bits]
             /\ ZeroBits(InitialBitmap(first, n), n) =
                  TrackedFrames(UsableAddrs, n)
                    \ TrackedFrames(BitmapAddrs(first, size), n)
             /\ PaddingSet(InitialBitmap(first, n), n)
<1> DEFINE size  == bitmap_size_from_frames(n)
           D     == 0 .. (size - 1)
           ones  == [b \in D |-> Bits]
           U     == TrackedFrames(UsableAddrs, n)
           B     == TrackedFrames(BitmapAddrs(first, size), n)
           clear == ClearBits(ones, U)
<1>1. ones \in [D -> SUBSET Bits]
  BY Zenon
<1>2. U \in SUBSET (0 .. (n - 1))
  BY Zenon DEF TrackedFrames
<1>3. clear \in [D -> SUBSET Bits]
  BY <1>1, ClearBitsType, Zenon
<1>4. ZeroBits(clear, n) = U
  <2>1. ZeroBits(ones, n) = {}
    BY ZeroBitsOfOnes, Zenon
  <2> HIDE DEF ones, U
  <2>2. ZeroBits(clear, n) = ZeroBits(ones, n) \cup U
    BY <1>1, <1>2, ZeroBitsOfClearBits, Zenon
  <2> QED
    BY <2>1, <2>2, Zenon
<1>5. InitialBitmap(first, n) = SetBits(clear, B)
  BY Zenon DEF InitialBitmap
<1>6. SetBits(clear, B) \in [D -> SUBSET Bits]
  BY <1>3, SetBitsType, Zenon
<1>7. ZeroBits(SetBits(clear, B), n) = U \ B
  <2> HIDE DEF clear, U, B, D
  <2> QED
    BY <1>3, <1>4, ZeroBitsOfSetBits, Zenon
<1>8. PaddingSet(ones, n)
  BY Zenon DEF PaddingSet
<1>9. PaddingSet(SetBits(clear, B), n)
  <2>1. D \in SUBSET Nat
    BY BitmapSizeType
  <2> HIDE DEF ones, U, B, D
  <2>2. PaddingSet(clear, n)
    BY <1>1, <1>2, <1>8, <2>1, PaddingOfClearBits, Zenon
  <2> HIDE DEF clear
  <2> QED
    BY <1>3, <2>2, PaddingOfSetBits, Zenon
<1> QED
  BY <1>5, <1>6, <1>7, <1>9, Zenon

-------------------------------------------------------------------------------

\* Before pmm_init there is nothing to account for.
LEMMA InitInv == Init => PmmInv
BY DEF Init, PmmInv, TypeOK, bitmap_size_from_frames

\* pmm_init establishes the books, or panics before it places the bitmap.
LEMMA pmm_initInv == PmmInv /\ pmm_init => PmmInv'
<1> SUFFICES ASSUME PmmInv, pmm_init
             PROVE  PmmInv'
  BY Zenon
<1> USE DEF PmmInv, TypeOK
<1>1. total_frames' \in Nat
  BY TrackedEndsType, PageCountType, Zenon DEF pmm_init
<1>2. bitmap_start_phys = 0 /\ held = {} /\ held' = {} /\ memmap' = memmap
  BY Zenon DEF pmm_init
<1>3. CASE phase' = "panic"
  BY <1>1, <1>2, <1>3, Zenon DEF pmm_init
<1>4. CASE phase' = "up"
  <2>1. PICK e \in BitmapEntries(bitmap_size_from_frames(total_frames')) :
          /\ memmap[e].base # 0
          /\ bitmap_start_phys' = memmap[e].base
          /\ bitmap' = InitialBitmap(memmap[e].base, total_frames')
    BY <1>4, Zenon DEF pmm_init
  <2>2. memmap[e].base \in Nat
    BY MemMapAssumption, Zenon DEF BitmapEntries, UsableEntries, MemMapEntry
  <2> DEFINE size == bitmap_size_from_frames(total_frames')
             D    == 0 .. (size - 1)
  <2>3. bitmap' \in [D -> SUBSET Bits]
    BY <1>1, <2>1, InitialBitmapFrees, Zenon
  <2>4. FreeFrames' = Pool'
    BY <1>1, <1>2, <2>1, InitialBitmapFrees
    DEF FreeFrames, Pool, UsableAddrs, UsableEntries
  <2>5. PaddingSet(bitmap', total_frames')
    BY <1>1, <2>1, InitialBitmapFrees, Zenon
  <2>6. \E k \in BitmapEntries(bitmap_size_from_frames(total_frames))' :
           bitmap_start_phys' = memmap'[k].base
    BY <1>2, <2>1, Zenon DEF BitmapEntries, UsableEntries
  <2> QED
    BY <1>1, <1>2, <1>4, <2>1, <2>2, <2>3, <2>4, <2>5, <2>6, Zenon
<1> QED
  BY <1>3, <1>4, Zenon DEF pmm_init

\* Every other operation changes the bitmap and held together, and nothing
\* else but the phase.
LEMMA BooksKept ==
  ASSUME PmmInv, phase = "up", phase' \in {"up", "panic"},
         UNCHANGED <<memmap, total_frames, bitmap_start_phys>>,
         held' \in SUBSET Nat,
         bitmap' \in [DOMAIN bitmap -> SUBSET Bits],
         held' \cap FreeFrames' = {},
         held' \cup FreeFrames' = held \cup FreeFrames,
         PaddingSet(bitmap', total_frames)
  PROVE  PmmInv'
<1>1. /\ Pool' = Pool
      /\ \A n : BitmapEntries(n)' = BitmapEntries(n)
  BY Zenon DEF Pool, UsableAddrs, UsableEntries, BitmapEntries
<1> QED
  BY <1>1, Zenon DEF PmmInv, TypeOK

\* The state an operation starts from, as the operations need it.
LEMMA UpState ==
  ASSUME PmmInv, phase = "up"
  PROVE  /\ total_frames \in Nat
         /\ DOMAIN bitmap = 0 .. (bitmap_size_from_frames(total_frames) - 1)
         /\ bitmap \in [DOMAIN bitmap -> SUBSET Bits]
         /\ FreeFrames \in SUBSET (0 .. (total_frames - 1))
         /\ held \in SUBSET Nat
         /\ held \cap FreeFrames = {}
         /\ PaddingSet(bitmap, total_frames)
         /\ DOMAIN bitmap \in SUBSET Nat
BY BitmapSizeType DEF PmmInv, TypeOK, FreeFrames, ZeroBits

\* Taking a run of free frames.
LEMMA TakeLowestRunInv ==
  ASSUME PmmInv, phase = "up", NEW pages \in Nat, TakeLowestRun(pages),
         UNCHANGED <<memmap, total_frames, bitmap_start_phys>>
  PROVE  PmmInv'
<1>1. CASE UNCHANGED <<bitmap, held>>
  <2>1. FreeFrames' = FreeFrames
    BY <1>1, Zenon DEF FreeFrames
  <2>2. phase' \in {"up", "panic"}
    BY Zenon DEF TakeLowestRun
  <2> QED
    BY <1>1, <2>1, <2>2, UpState, BooksKept, Zenon
<1>2. CASE \E s \in Runs(pages) :
             /\ bitmap' = SetBits(bitmap, s .. (s + pages - 1))
             /\ held' = held \cup (s .. (s + pages - 1))
             /\ UNCHANGED phase
  <2>1. PICK s \in Runs(pages) :
             /\ bitmap' = SetBits(bitmap, s .. (s + pages - 1))
             /\ held' = held \cup (s .. (s + pages - 1))
             /\ UNCHANGED phase
    BY <1>2, Zenon
  <2> DEFINE run == s .. (s + pages - 1)
  <2>2. run \subseteq FreeFrames
    BY Zenon DEF Runs, RunsOf
  <2>3. FreeFrames' = FreeFrames \ run
    BY <2>1, UpState, ZeroBitsOfSetBits, Zenon DEF FreeFrames
  <2>4. bitmap' \in [DOMAIN bitmap -> SUBSET Bits]
    BY <2>1, UpState, SetBitsType, Zenon
  <2>6. PaddingSet(bitmap', total_frames)
    BY <2>1, UpState, PaddingOfSetBits, Zenon
  <2> HIDE DEF run
  <2>5. /\ held' \in SUBSET Nat
        /\ held' \cap FreeFrames' = {}
        /\ held' \cup FreeFrames' = held \cup FreeFrames
    BY <2>1, <2>2, <2>3, UpState DEF run
  <2> QED
    BY <2>1, <2>4, <2>5, <2>6, BooksKept, Zenon
<1> QED
  BY <1>1, <1>2, Zenon DEF TakeLowestRun

\* Giving frames back.
LEMMA FreeAllInv ==
  ASSUME PmmInv, phase = "up", NEW addrs, FreeAll(addrs)
  PROVE  PmmInv'
<1> DEFINE F == TrackedFrames(addrs, total_frames)
<1>1. F \in SUBSET (0 .. (total_frames - 1))
  BY Zenon DEF TrackedFrames
<1>2. /\ F \subseteq held \cup FreeFrames
      /\ bitmap' = ClearBits(bitmap, F)
      /\ held' = held \ F
      /\ UNCHANGED <<memmap, phase, total_frames, bitmap_start_phys>>
  BY Zenon DEF FreeAll
<1> HIDE DEF F
<1>3. FreeFrames' = FreeFrames \cup F
  BY <1>1, <1>2, UpState, ZeroBitsOfClearBits, Zenon DEF FreeFrames
<1>4. bitmap' \in [DOMAIN bitmap -> SUBSET Bits]
  BY <1>2, UpState, ClearBitsType, Zenon
<1>5. /\ held' \in SUBSET Nat
      /\ held' \cap FreeFrames' = {}
      /\ held' \cup FreeFrames' = held \cup FreeFrames
  BY <1>2, <1>3, UpState, Zenon
<1>6. PaddingSet(bitmap', total_frames)
  BY <1>1, <1>2, UpState, PaddingOfClearBits, Zenon
<1> QED
  BY <1>2, <1>4, <1>5, <1>6, BooksKept, Zenon

\* Marking a frame.
LEMMA pmm_mark_allocatedInv ==
  ASSUME PmmInv, NEW phys_addr, pmm_mark_allocated(phys_addr)
  PROVE  PmmInv'
<1> DEFINE F == TrackedFrames({phys_addr}, total_frames)
<1>1. /\ phase = "up"
      /\ bitmap' = SetBits(bitmap, F)
      /\ held' = held \cup (F \cap FreeFrames)
      /\ UNCHANGED <<memmap, phase, total_frames, bitmap_start_phys>>
  BY Zenon DEF pmm_mark_allocated
<1> HIDE DEF F
<1>2. FreeFrames' = FreeFrames \ F
  BY <1>1, UpState, ZeroBitsOfSetBits, Zenon DEF FreeFrames
<1>3. bitmap' \in [DOMAIN bitmap -> SUBSET Bits]
  BY <1>1, UpState, SetBitsType, Zenon
<1>4. /\ held' \in SUBSET Nat
      /\ held' \cap FreeFrames' = {}
      /\ held' \cup FreeFrames' = held \cup FreeFrames
  BY <1>1, <1>2, UpState
<1>5. PaddingSet(bitmap', total_frames)
  BY <1>1, UpState, PaddingOfSetBits, Zenon
<1> QED
  BY <1>1, <1>3, <1>4, <1>5, BooksKept, Zenon

\* Every step of the manager and its callers keeps the books.
LEMMA StepInv == PmmInv /\ [Next]_vars => PmmInv'
<1> SUFFICES ASSUME PmmInv, [Next]_vars
             PROVE  PmmInv'
  BY Zenon
<1>1. CASE pmm_init
  BY <1>1, pmm_initInv, Zenon
<1>2. CASE pmm_alloc_frame
  BY <1>2, TakeLowestRunInv, Zenon DEF pmm_alloc_frame
<1>3. ASSUME NEW pages \in Counts, pmm_alloc_frames(pages)
      PROVE  PmmInv'
  <2>1. CASE TakeLowestRun(pages)
    BY <1>3, <2>1, TakeLowestRunInv, ClientAssumption, Zenon DEF pmm_alloc_frames
  <2>2. CASE UNCHANGED <<bitmap, held, phase>>
    BY <1>3, <2>2, UpState, BooksKept, Zenon DEF pmm_alloc_frames, FreeFrames
  <2> QED
    BY <1>3, <2>1, <2>2, Zenon DEF pmm_alloc_frames
<1>4. ASSUME NEW a \in ClientAddrs, pmm_free_frame(a)
      PROVE  PmmInv'
  BY <1>4, FreeAllInv, Zenon DEF pmm_free_frame
<1>5. ASSUME NEW a \in ClientAddrs, NEW pages \in Counts, pmm_free_frames(a, pages)
      PROVE  PmmInv'
  BY <1>5, FreeAllInv, Zenon DEF pmm_free_frames
<1>6. ASSUME NEW a \in ClientAddrs, pmm_mark_allocated(a)
      PROVE  PmmInv'
  BY <1>6, pmm_mark_allocatedInv, Zenon
<1>7. CASE UNCHANGED vars
  BY <1>7 DEF vars, PmmInv, TypeOK, FreeFrames, Pool, UsableAddrs,
       UsableEntries, BitmapEntries, PaddingSet
<1> QED
  BY <1>1, <1>2, <1>3, <1>4, <1>5, <1>6, <1>7, Zenon DEF Next, Halt

\* The invariant of the bitmap allocator.
THEOREM PmmInvariant == Spec => []PmmInv
<1>1. PmmInv /\ [Next]_vars => PmmInv'
  BY StepInv, Zenon
<1> QED
  BY <1>1, InitInv, PTL DEF Spec

-------------------------------------------------------------------------------
(* From the loops of pmm_init to the byte ranges of the memory map. *)

\* An aligned address is its frame number times the page size.
LEMMA AlignedIsMultiple ==
  ASSUME NEW addr \in Nat, IS_PAGE_ALIGNED(addr)
  PROVE  addr \div PAGE_SIZE \in Nat /\ addr = (addr \div PAGE_SIZE) * PAGE_SIZE
BY PageSizeAssumption DEF IS_PAGE_ALIGNED

\* The pages of a range that starts on a page boundary are the frames that
\* share a byte with it.
LEMMA PagesOfRange ==
  ASSUME NEW base \in Nat, NEW length \in Nat, NEW f \in Nat,
         IS_PAGE_ALIGNED(base)
  PROVE  (\E a \in PageAddrs(base, PAGE_COUNT(length)) :
            IS_PAGE_ALIGNED(a) /\ f = a \div PAGE_SIZE)
         <=> Overlaps(f, base, length)
<1> DEFINE P == PAGE_SIZE
           b == base \div P
           n == PAGE_COUNT(length)
<1>1. P \in Nat \ {0} /\ b \in Nat /\ base = b * P
  BY PageSizeAssumption, AlignedIsMultiple, Zenon
<1>2. n \in Nat /\ n * P >= length /\ n * P < length + P
  BY PageSizeAssumption DEF PAGE_COUNT
<1> HIDE DEF P, b, n
<1>3. ASSUME NEW e \in Nat
      PROVE  /\ (base + e * P) = (b + e) * P
             /\ ((b + e) * P) % P = 0
             /\ ((b + e) * P) \div P = b + e
  BY <1>1, <1>3
<1>4. (\E a \in PageAddrs(base, n) : IS_PAGE_ALIGNED(a) /\ f = a \div P)
        <=> \E e \in 0 .. (n - 1) : f = b + e
  <2>1. \A e \in 0 .. (n - 1) : /\ IS_PAGE_ALIGNED(base + e * P)
                                /\ (base + e * P) \div P = b + e
    BY <1>2, <1>3 DEF IS_PAGE_ALIGNED, P
  <2> QED
    BY <2>1, Zenon DEF PageAddrs, P
<1>5. (\E e \in 0 .. (n - 1) : f = b + e) <=> b <= f /\ f < b + n
  <2>1. b <= f /\ f < b + n => f - b \in 0 .. (n - 1) /\ f = b + (f - b)
    BY <1>1, <1>2
  <2> QED
    BY <1>1, <1>2, <2>1
<1>6. b <= f <=> base < (f + 1) * P
  BY <1>1
<1>7. f < b + n <=> f * P < base + length
  <2>1. ASSUME f < b + n PROVE f * P < base + length
    <3>1. f <= b + n - 1
      BY <1>1, <1>2, <2>1
    <3>2. f * P <= (b + n - 1) * P
      BY <1>1, <1>2, <3>1
    <3>3. (b + n - 1) * P = base + n * P - P
      BY <1>1, <1>2
    <3> QED
      BY <1>1, <1>2, <3>2, <3>3
  <2>2. ASSUME f >= b + n PROVE f * P >= base + length
    <3>1. f * P >= (b + n) * P
      BY <1>1, <1>2, <2>2
    <3>2. (b + n) * P = base + n * P
      BY <1>1, <1>2
    <3> QED
      BY <1>1, <1>2, <3>1, <3>2
  <2> QED
    BY <1>1, <1>2, <2>1, <2>2
<1> QED
  BY <1>4, <1>5, <1>6, <1>7, Zenon DEF Overlaps, P, n

\* Frames of usable entries share no byte with another entry: both ends of a
\* usable entry lie on page boundaries.
LEMMA UsableIsExclusive ==
  ASSUME memmap \in MemMaps, NEW f \in Nat,
         NEW e \in UsableEntries, NEW j \in DOMAIN memmap \ UsableEntries,
         Overlaps(f, memmap[e].base, memmap[e].length)
  PROVE  ~Overlaps(f, memmap[j].base, memmap[j].length)
<1> DEFINE P == PAGE_SIZE
           base == memmap[e].base
           len  == memmap[e].length
           b    == base \div P
           l    == len \div P
<1>1. P \in Nat \ {0}
  BY PageSizeAssumption, Zenon
<1>2. /\ base \in Nat /\ len \in Nat
      /\ memmap[j].base \in Nat /\ memmap[j].length \in Nat
      /\ base % P = 0 /\ len % P = 0
      /\ \/ base + len <= memmap[j].base
         \/ memmap[j].base + memmap[j].length <= base
  BY MemMapAssumption, Zenon DEF UsableEntries, WellFormed, MemMapEntry, IS_PAGE_ALIGNED
<1>3. b \in Nat /\ l \in Nat /\ base = b * P /\ len = l * P
  BY <1>2, AlignedIsMultiple, Zenon DEF IS_PAGE_ALIGNED
<1>4. f * P < base + len /\ base < (f + 1) * P
  BY Zenon DEF Overlaps
<1> HIDE DEF P, base, len, b, l
<1>5. (f + 1) * P <= base + len
  <2>1. base + len = (b + l) * P
    BY <1>1, <1>3
  <2>2. f < b + l
    BY <1>1, <1>3, <1>4, <2>1
  <2>3. f + 1 <= b + l
    BY <1>3, <2>2
  <2> QED
    BY <1>1, <1>3, <2>1, <2>3
<1>6. base <= f * P
  <2>1. b < f + 1
    BY <1>1, <1>3, <1>4
  <2>2. b <= f
    BY <1>3, <2>1
  <2> QED
    BY <1>1, <1>3, <2>2
<1>7. f * P \in Nat /\ (f + 1) * P \in Nat
  BY <1>1
<1> QED
  BY <1>2, <1>5, <1>6, <1>7 DEF Overlaps, P

\* What the two loops of pmm_init leave free is what may be managed.
LEMMA PoolIsManageable ==
  ASSUME PmmInv, bitmap_start_phys # 0
  PROVE  Pool = Manageable
<1> DEFINE n    == total_frames
           size == bitmap_size_from_frames(n)
<1>1. n \in Nat /\ size \in Nat /\ memmap \in MemMaps
  BY BitmapSizeType, Zenon DEF PmmInv, TypeOK
<1>2. \A e \in UsableEntries : /\ e \in DOMAIN memmap
                               /\ memmap[e].base \in Nat
                               /\ memmap[e].length \in Nat
                               /\ IS_PAGE_ALIGNED(memmap[e].base)
  BY <1>1, MemMapAssumption, Zenon DEF UsableEntries, MemMapEntry, WellFormed
<1>3. bitmap_start_phys \in Nat /\ IS_PAGE_ALIGNED(bitmap_start_phys)
  BY <1>2, Zenon DEF PmmInv, BitmapEntries
<1> SUFFICES ASSUME NEW f \in 0 .. (n - 1)
             PROVE  f \in Pool <=> f \in Manageable
  BY Zenon DEF Pool, Manageable, TrackedFrames
<1> HIDE DEF size
<1>4. f \in Nat
  BY <1>1
<1>5. f \in TrackedFrames(UsableAddrs, n)
        <=> \E e \in UsableEntries : Overlaps(f, memmap[e].base, memmap[e].length)
  <2>1. f \in TrackedFrames(UsableAddrs, n)
          <=> \E e \in UsableEntries :
                \E a \in PageAddrs(memmap[e].base, PAGE_COUNT(memmap[e].length)) :
                  IS_PAGE_ALIGNED(a) /\ f = a \div PAGE_SIZE
    BY Zenon DEF TrackedFrames, UsableAddrs
  <2>2. \A e \in UsableEntries :
          (\E a \in PageAddrs(memmap[e].base, PAGE_COUNT(memmap[e].length)) :
             IS_PAGE_ALIGNED(a) /\ f = a \div PAGE_SIZE)
          <=> Overlaps(f, memmap[e].base, memmap[e].length)
    BY <1>2, <1>4, PagesOfRange, Zenon
  <2> QED
    BY <2>1, <2>2, Zenon
<1>6. f \in TrackedFrames(BitmapAddrs(bitmap_start_phys, size), n)
        <=> Overlaps(f, bitmap_start_phys, size)
  BY <1>1, <1>3, <1>4, PagesOfRange DEF TrackedFrames, BitmapAddrs
<1>7. (\E e \in UsableEntries : Overlaps(f, memmap[e].base, memmap[e].length))
        => \A j \in DOMAIN memmap \ UsableEntries :
             ~Overlaps(f, memmap[j].base, memmap[j].length)
  BY <1>1, <1>4, UsableIsExclusive, Zenon
<1> QED
  BY <1>5, <1>6, <1>7, Zenon DEF Pool, Manageable, size

\* The books balance at every moment: the free frames and the frames callers
\* own partition the usable memory outside the bitmap (pmm_init, and every
\* operation after it).
THEOREM PmmAccounting == Spec => []Accounting
<1>1. PmmInv => Accounting
  BY PoolIsManageable, Zenon DEF PmmInv, Accounting
<1> QED
  BY <1>1, PmmInvariant, PTL

\* The place pmm_init chooses for the bitmap belongs to nobody else.
THEOREM PmmBitmapPlaced == Spec => []BitmapInUsableMemory
<1>1. PmmInv => BitmapInUsableMemory
  <2> SUFFICES ASSUME PmmInv, bitmap_start_phys # 0
               PROVE  BitmapInUsableMemory
    BY Zenon DEF BitmapInUsableMemory
  <2> DEFINE size == bitmap_size_from_frames(total_frames)
  <2>1. PICK e \in UsableEntries : /\ bitmap_start_phys = memmap[e].base
                                  /\ memmap[e].length >= size
    BY Zenon DEF PmmInv, BitmapEntries
  <2>2. /\ memmap[e].base \in Nat /\ memmap[e].length \in Nat /\ size \in Nat
        /\ DOMAIN bitmap = 0 .. (size - 1)
    BY MemMapAssumption, BitmapSizeType, Zenon DEF PmmInv, TypeOK, UsableEntries, MemMapEntry
  <2> HIDE DEF size
  <2> QED
    BY <2>1, <2>2 DEF BitmapInUsableMemory
<1> QED
  BY <1>1, PmmInvariant, PTL

-------------------------------------------------------------------------------
(* Refinement *)

\* Before pmm_init the abstract pool is empty.
LEMMA NoBitmapNoFrames ==
  ASSUME DOMAIN bitmap = {}
  PROVE  FreeFrames = {}
BY Zenon DEF FreeFrames, ZeroBits

\* Taking a run is an abstract Alloc, or a stutter.
LEMMA TakeLowestRunRefines ==
  ASSUME PmmInv, phase = "up", NEW pages \in Nat \ {0}, TakeLowestRun(pages),
         UNCHANGED total_frames
  PROVE  FA!FANext \/ UNCHANGED FA!faVars
<1>1. CASE UNCHANGED <<bitmap, held>>
  BY <1>1, Zenon DEF FA!faVars, FreeFrames
<1>2. CASE \E s \in Runs(pages) :
             /\ bitmap' = SetBits(bitmap, s .. (s + pages - 1))
             /\ held' = held \cup (s .. (s + pages - 1))
  <2>1. PICK s \in Runs(pages) :
             /\ bitmap' = SetBits(bitmap, s .. (s + pages - 1))
             /\ held' = held \cup (s .. (s + pages - 1))
    BY <1>2, Zenon
  <2> DEFINE last == s + pages - 1
  <2>2. s .. last \subseteq FreeFrames /\ s \in FreeFrames /\ s \in Nat
    BY UpState DEF Runs, RunsOf
  <2>3. last \in FreeFrames
    BY <2>2
  <2>4. FreeFrames' = FreeFrames \ (s .. last)
    BY <2>1, UpState, ZeroBitsOfSetBits, Zenon DEF FreeFrames
  <2> HIDE DEF last
  <2>5. held' \cup FreeFrames' = held \cup FreeFrames
    BY <2>1, <2>2, <2>4, Zenon DEF last
  <2> QED
    BY <2>2, <2>3, <2>4, <2>5, Zenon DEF FA!FANext, FA!Alloc
<1> QED
  BY <1>1, <1>2, Zenon DEF TakeLowestRun

\* Freeing is an abstract Release.
LEMMA FreeAllRefines ==
  ASSUME PmmInv, phase = "up", NEW addrs, FreeAll(addrs)
  PROVE  FA!FANext
<1> DEFINE F == TrackedFrames(addrs, total_frames)
<1>1. F \in SUBSET (0 .. (total_frames - 1))
  BY Zenon DEF TrackedFrames
<1>2. /\ F \subseteq held \cup FreeFrames
      /\ bitmap' = ClearBits(bitmap, F)
      /\ held' = held \ F
      /\ UNCHANGED total_frames
  BY Zenon DEF FreeAll
<1> HIDE DEF F
<1>3. FreeFrames' = FreeFrames \cup F
  BY <1>1, <1>2, UpState, ZeroBitsOfClearBits, Zenon DEF FreeFrames
<1> QED
  BY <1>2, <1>3, Zenon DEF FA!FANext, FA!Release

\* Marking a free frame is an abstract Alloc of that frame.
LEMMA pmm_mark_allocatedRefines ==
  ASSUME PmmInv, NEW phys_addr, pmm_mark_allocated(phys_addr)
  PROVE  FA!FANext \/ UNCHANGED FA!faVars
<1> DEFINE F == TrackedFrames({phys_addr}, total_frames)
           f == phys_addr \div PAGE_SIZE
<1>1. /\ phase = "up"
      /\ bitmap' = SetBits(bitmap, F)
      /\ held' = held \cup (F \cap FreeFrames)
      /\ UNCHANGED total_frames
  BY Zenon DEF pmm_mark_allocated
<1>2. F \subseteq {f}
  BY Zenon DEF TrackedFrames
<1> HIDE DEF F
<1>3. FreeFrames' = FreeFrames \ F
  BY <1>1, UpState, ZeroBitsOfSetBits, Zenon DEF FreeFrames
<1>4. CASE F \cap FreeFrames = {}
  BY <1>1, <1>3, <1>4, Zenon DEF FA!faVars
<1>5. CASE F = {f} /\ f \in FreeFrames
  <2>1. f \in Nat /\ f .. f = {f}
    BY <1>1, <1>5, UpState
  <2> HIDE DEF f
  <2>2. FA!Alloc(f, f)
    BY <1>1, <1>3, <1>5, <2>1, Zenon DEF FA!Alloc
  <2> QED
    BY <1>5, <2>2, Zenon DEF FA!FANext
<1> QED
  BY <1>2, <1>4, <1>5, Zenon

\* pmm_init is the abstract Setup.
LEMMA pmm_initRefines ==
  ASSUME PmmInv, pmm_init
  PROVE  FA!FANext
<1>1. bitmap_start_phys = 0
  BY Zenon DEF PmmInv, pmm_init
<1>2. held = {} /\ held' = {} /\ DOMAIN bitmap = {}
  BY <1>1, Zenon DEF PmmInv, pmm_init
<1>3. FreeFrames = {}
  BY <1>2, NoBitmapNoFrames, Zenon
<1>4. FreeFrames' \subseteq Nat
  <2>1. PmmInv'
    BY pmm_initInv, Zenon
  <2> QED
    BY <2>1 DEF PmmInv, TypeOK, FreeFrames, ZeroBits
<1> QED
  BY <1>2, <1>3, <1>4, Zenon DEF FA!FANext, FA!Setup

\* Every step of the bitmap allocator is a step of the abstract one.
LEMMA StepRefines ==
  ASSUME PmmInv, [Next]_vars
  PROVE  [FA!FANext]_(FA!faVars)
<1>1. CASE pmm_init
  BY <1>1, pmm_initRefines, Zenon
<1>2. CASE pmm_alloc_frame
  BY <1>2, TakeLowestRunRefines DEF pmm_alloc_frame
<1>3. ASSUME NEW pages \in Counts, pmm_alloc_frames(pages)
      PROVE  FA!FANext \/ UNCHANGED FA!faVars
  <2>1. CASE pages > 0 /\ TakeLowestRun(pages)
    BY <1>3, <2>1, TakeLowestRunRefines, ClientAssumption DEF pmm_alloc_frames
  <2>2. CASE UNCHANGED <<bitmap, held, phase>>
    BY <1>3, <2>2, Zenon DEF pmm_alloc_frames, FreeFrames, FA!faVars
  <2> QED
    BY <1>3, <2>1, <2>2, Zenon DEF pmm_alloc_frames
<1>4. ASSUME NEW a \in ClientAddrs, pmm_free_frame(a)
      PROVE  FA!FANext
  BY <1>4, FreeAllRefines, Zenon DEF pmm_free_frame
<1>5. ASSUME NEW a \in ClientAddrs, NEW pages \in Counts, pmm_free_frames(a, pages)
      PROVE  FA!FANext
  BY <1>5, FreeAllRefines, Zenon DEF pmm_free_frames
<1>6. ASSUME NEW a \in ClientAddrs, pmm_mark_allocated(a)
      PROVE  FA!FANext \/ UNCHANGED FA!faVars
  BY <1>6, pmm_mark_allocatedRefines, Zenon
<1>7. CASE UNCHANGED vars
  BY <1>7, Zenon DEF vars, FreeFrames, FA!faVars
<1> QED
  BY <1>1, <1>2, <1>3, <1>4, <1>5, <1>6, <1>7, Zenon DEF Next, Halt

\* The bitmap implementation of pmm.c keeps the promise of FrameAllocator.
THEOREM PmmRefinement == Spec => ImplementsFrameAllocator
<1>1. Init => FA!FAInit
  BY NoBitmapNoFrames, Zenon DEF Init, FA!FAInit
<1>2. PmmInv /\ [Next]_vars => [FA!FANext]_(FA!faVars)
  BY StepRefines, Zenon
<1> QED
  BY <1>1, <1>2, PmmInvariant, PTL DEF Spec, ImplementsFrameAllocator, FA!FASpec

-------------------------------------------------------------------------------
(* The search loops *)

\* The size of a bitmap is a natural number, and its bytes are its domain.
LEMMA SizeType ==
  ASSUME ScanTypeOK
  PROVE  /\ bitmap_size \in Nat
         /\ DOMAIN bitmap = 0 .. (bitmap_size - 1)
         /\ DOMAIN start = 0 .. (bitmap_size - 1)
         /\ InitiallyFree \in SUBSET (0 .. (total_frames - 1))
BY DEF ScanTypeOK, Bitmaps, bitmap_size, bitmap_size_from_frames,
       InitiallyFree, ZeroBits

\* What the allocators test is whether the frame was free at the call.
LEMMA TestedBit ==
  ASSUME ScanTypeOK, NEW f \in 0 .. (total_frames - 1)
  PROVE  /\ f \in Nat /\ f \div 8 \in DOMAIN start
         /\ f \in InitiallyFree <=> ~IsSet(start, f)
<1>1. f \in Nat /\ total_frames \in Nat
  BY DEF ScanTypeOK
<1>2. f \div 8 \in 0 .. (bitmap_size - 1)
  BY <1>1, ByteExists, Zenon DEF bitmap_size
<1> QED
  BY <1>1, <1>2, SizeType, Zenon DEF InitiallyFree, ZeroBits

\* The byte and the bit that stand for a frame.
LEMMA FrameOfBit ==
  ASSUME NEW y \in Nat, NEW t \in 0 .. 7
  PROVE  (8 * y + t) \div 8 = y /\ (8 * y + t) % 8 = t
OBVIOUS

\* A call starts with the loop variables at 0.
LEMMA ScanInitInv == ScanInit => ScanInv
BY ScanAssumption DEF ScanInit, ScanInv, ScanTypeOK, Bits, ReturnsLowestRun,
                      PanicsOnlyWhenExhausted

\* Nothing but the type is left to show when the call moves inside a loop.
LEMMA CallInv == ASSUME ScanInv, Call PROVE ScanInv'
<1>1. InitiallyFree' = InitiallyFree
  BY Zenon DEF Call, Fixed, InitiallyFree
<1>2. InitiallyFree \in SUBSET Nat
  BY SizeType DEF ScanInv, ScanTypeOK
<1>3. ScanTypeOK'
  BY Zenon DEF ScanInv, ScanTypeOK, Call, Fixed
<1>4. \A s \in RunsOf(InitiallyFree, count) : s \in Nat
  BY <1>2, Zenon DEF RunsOf
<1> QED
  BY <1>1, <1>2, <1>3, <1>4 DEF ScanInv, ScanTypeOK, Call, Fixed, ReturnsLowestRun,
     PanicsOnlyWhenExhausted, CurrentRun

\* A byte of 0xFF holds no free frame; past the last byte there is none.
LEMMA ByteLoopInv == ASSUME ScanInv, ByteLoop PROVE ScanInv'
<1> USE DEF ByteLoop, Fixed
<1>1. InitiallyFree' = InitiallyFree /\ bitmap_size' = bitmap_size
  BY Zenon DEF InitiallyFree, bitmap_size
<1>2. ScanTypeOK /\ ScanTypeOK'
  BY DEF ScanInv, ScanTypeOK, OutOfMemory
<1>3. /\ InitiallyFree \in SUBSET Nat /\ byte \in Nat /\ count = 1 /\ bitmap = start
      /\ \A f \in InitiallyFree : 8 * byte <= f
  BY <1>2, SizeType DEF ScanInv, ScanTypeOK
<1>4. ASSUME NEW f \in InitiallyFree
      PROVE  f \div 8 < bitmap_size /\ f % 8 \notin start[f \div 8] /\ f % 8 \in Bits
  <2>1. f \in 0 .. (total_frames - 1)
    BY <1>2, SizeType, Zenon
  <2>2. f \in Nat /\ f \div 8 \in DOMAIN start /\ ~IsSet(start, f)
    BY <1>2, <2>1, TestedBit, Zenon
  <2>3. f \div 8 < bitmap_size
    BY <1>2, <2>2, SizeType, ByteAndBit
  <2> QED
    BY <2>2, <2>3, ByteAndBit, Zenon DEF IsSet
<1>5. CASE byte >= bitmap_size /\ OutOfMemory
  <2>1. InitiallyFree = {}
    BY <1>2, <1>3, <1>4, <1>5, SizeType
  <2>2. RunsOf(InitiallyFree, count) = {}
    BY <2>1, Zenon DEF RunsOf
  <2> QED
    BY <1>1, <1>2, <1>3, <1>5, <2>2, Zenon
    DEF OutOfMemory, ScanInv, ReturnsLowestRun, PanicsOnlyWhenExhausted
<1>6. CASE /\ byte < bitmap_size /\ bitmap[byte] = Bits
           /\ byte' = byte + 1 /\ UNCHANGED pc
  <2>1. ASSUME NEW f \in InitiallyFree
        PROVE  8 * (byte + 1) <= f
    <3>1. f \div 8 # byte
      BY <1>3, <1>4, <1>6, Zenon
    <3> QED
      BY <1>3, <3>1
  <2> QED
    BY <1>1, <1>2, <1>3, <1>6, <2>1, Zenon
    DEF ScanInv, ReturnsLowestRun, PanicsOnlyWhenExhausted
<1>7. CASE /\ byte < bitmap_size /\ bitmap[byte] # Bits
           /\ pc' = "bit" /\ UNCHANGED byte
  BY <1>1, <1>2, <1>3, <1>7
  DEF ScanInv, ReturnsLowestRun, PanicsOnlyWhenExhausted
<1> QED
  BY <1>5, <1>6, <1>7, Zenon

\* After the last bit of a byte, or the last frame, the byte is done.
LEMMA NextByteInv == ASSUME ScanInv, NextByte PROVE ScanInv'
<1> USE DEF NextByte, Fixed
<1>1. InitiallyFree' = InitiallyFree /\ bitmap_size' = bitmap_size
  BY Zenon DEF InitiallyFree, bitmap_size
<1>2. ScanTypeOK /\ ScanTypeOK'
  BY DEF ScanInv, ScanTypeOK
<1>3. /\ InitiallyFree \in SUBSET (0 .. (total_frames - 1))
      /\ byte \in Nat /\ bit \in Nat /\ total_frames \in Nat
      /\ count = 1 /\ bitmap = start
      /\ \A f \in InitiallyFree : 8 * byte + bit <= f
  BY <1>2, SizeType DEF ScanInv, ScanTypeOK
<1>4. ASSUME NEW f \in InitiallyFree
      PROVE  8 * (byte + 1) <= f
  BY <1>3
<1> QED
  BY <1>1, <1>2, <1>3, <1>4, Zenon
  DEF ScanInv, ReturnsLowestRun, PanicsOnlyWhenExhausted

\* A set bit is the bit of an allocated frame; the first clear bit is the
\* bit of the lowest free frame.
LEMMA BitLoopInv == ASSUME ScanInv, BitLoop PROVE ScanInv'
<1> USE DEF BitLoop, Fixed
<1> DEFINE g == 8 * byte + bit
<1>1. InitiallyFree' = InitiallyFree /\ bitmap_size' = bitmap_size
  BY Zenon DEF InitiallyFree, bitmap_size
<1>2. ScanTypeOK
  BY Zenon DEF ScanInv
<1>3. /\ byte \in Nat /\ bit \in Bits /\ g \in 0 .. (total_frames - 1)
      /\ byte \in DOMAIN bitmap /\ count = 1 /\ bitmap = start
      /\ bitmap \in Bitmaps(total_frames)
      /\ \A f \in InitiallyFree : g <= f
  BY <1>2, SizeType DEF ScanInv, ScanTypeOK, Bits
<1>4. g \in InitiallyFree <=> bit \notin bitmap[byte]
  BY <1>2, <1>3, TestedBit, FrameOfBit DEF IsSet, Bits
<1>5. InitiallyFree \in SUBSET (0 .. (total_frames - 1)) /\ total_frames \in Nat
  BY <1>2, SizeType, Zenon DEF ScanTypeOK
<1>6. CASE bit \in bitmap[byte] /\ bit' = bit + 1 /\ UNCHANGED <<pc, bitmap, run_start>>
  <2>1. \A f \in InitiallyFree : 8 * byte + bit' <= f
    BY <1>3, <1>4, <1>5, <1>6 DEF Bits
  <2>2. ScanTypeOK'
    BY <1>2, <1>3, <1>6 DEF ScanTypeOK, Bits
  <2> QED
    BY <1>1, <1>3, <1>6, <2>1, <2>2, Zenon
    DEF ScanInv, ReturnsLowestRun, PanicsOnlyWhenExhausted
<1>7. CASE /\ bit \notin bitmap[byte]
           /\ bitmap' = [bitmap EXCEPT ![byte] = @ \cup {bit}]
           /\ run_start' = g /\ pc' = "return" /\ UNCHANGED bit
  <2>1. g .. (g + count - 1) = {g}
    BY <1>3, <1>5
  <2>2. bitmap' = SetBits(start, {g})
    <3>1. ASSUME NEW y \in DOMAIN bitmap
          PROVE  {t \in Bits : 8 * y + t \in {g}} = IF y = byte THEN {bit} ELSE {}
      <4>1. y \in Nat
        BY <1>2, <3>1, SizeType
      <4>2. ASSUME NEW t \in Bits
            PROVE  8 * y + t = g <=> y = byte /\ t = bit
        BY <1>3, <4>1 DEF Bits
      <4> HIDE DEF g
      <4> QED
        BY <1>3, <4>2, Zenon
    <3> HIDE DEF g
    <3> QED
      BY <1>3, <1>7, <3>1, Zenon DEF SetBits, Bitmaps
  <2>3. ScanTypeOK'
    BY <1>2, <1>3, <1>5, <1>7 DEF ScanTypeOK, Bitmaps
  <2>4. RunsOf(InitiallyFree, count) = InitiallyFree
    BY <1>3, <1>5 DEF RunsOf
  <2> HIDE DEF g
  <2>5. ReturnsLowestRun'
    <3>1. count' = count /\ count # 0 /\ start' = start /\ run_start' = g
      BY <1>3, <1>7
    <3>2. RunsOf(InitiallyFree, count)' = InitiallyFree
      BY <1>1, <2>4, <3>1, Zenon
    <3> HIDE DEF BitLoop
    <3> QED
      BY <1>3, <1>4, <1>7, <2>1, <2>2, <3>1, <3>2, Zenon DEF ReturnsLowestRun
  <2> QED
    BY <1>7, <2>3, <2>5, Zenon DEF ScanInv, PanicsOnlyWhenExhausted
<1> QED
  BY <1>6, <1>7, Zenon

\* The state of the run search, as its steps need it.
LEMMA ScanState ==
  ASSUME ScanInv, pc = "scan"
  PROVE  /\ ScanTypeOK /\ bitmap = start
         /\ total_frames \in Nat /\ count \in Nat /\ frame \in Nat
         /\ run_start \in Nat /\ run_len \in Nat /\ CurrentRun \in Nat
         /\ run_len < count /\ frame <= total_frames
         /\ CurrentRun + run_len = frame
         /\ CurrentRun .. (frame - 1) \subseteq InitiallyFree
         /\ \A s \in RunsOf(InitiallyFree, count) : CurrentRun <= s
         /\ InitiallyFree \in SUBSET (0 .. (total_frames - 1))
BY SizeType, Zenon DEF ScanInv, ScanTypeOK, CurrentRun

\* No run contains the allocated frame, and all runs that could start below
\* it would.
LEMMA ScanAllocatedInv == ASSUME ScanInv, ScanAllocated PROVE ScanInv'
<1> USE DEF ScanAllocated, Fixed
<1>1. InitiallyFree' = InitiallyFree
  BY Zenon DEF InitiallyFree
<1>2. frame \notin InitiallyFree
  BY ScanState, TestedBit, Zenon
<1>3. ASSUME NEW s \in RunsOf(InitiallyFree, count)
      PROVE  frame + 1 <= s
  <2>1. s \in Nat /\ CurrentRun <= s /\ s .. (s + count - 1) \subseteq InitiallyFree
    BY ScanState DEF RunsOf
  <2>2. frame \notin s .. (s + count - 1)
    BY <1>2, <2>1, Zenon
  <2> QED
    BY <2>1, <2>2, ScanState
<1>4. ScanTypeOK'
  BY ScanState DEF ScanTypeOK
<1>5. /\ CurrentRun' = frame + 1
      /\ (CurrentRun .. (frame - 1))' = {}
  BY ScanState DEF CurrentRun
<1> QED
  BY <1>1, <1>3, <1>4, <1>5, ScanState
  DEF ScanInv, ReturnsLowestRun, PanicsOnlyWhenExhausted

\* A free frame extends the run, which is still the lowest candidate.
LEMMA ScanFreeInv == ASSUME ScanInv, ScanFree PROVE ScanInv'
<1> USE DEF ScanFree, Fixed
<1>1. InitiallyFree' = InitiallyFree
  BY Zenon DEF InitiallyFree
<1>2. frame \in InitiallyFree
  BY ScanState, TestedBit
<1>3. run_start' = CurrentRun /\ run_len' = run_len + 1
  BY ScanState, Zenon DEF CurrentRun
<1>4. CurrentRun .. frame \subseteq InitiallyFree
  BY <1>2, ScanState
<1>5. CASE run_len' # count /\ frame' = frame + 1 /\ UNCHANGED <<pc, i>>
  <2>1. CurrentRun' = CurrentRun
    BY <1>3, <1>5, ScanState DEF CurrentRun
  <2>2. ScanTypeOK'
    BY <1>3, <1>5, ScanState DEF ScanTypeOK
  <2>3. (CurrentRun .. (frame - 1))' = CurrentRun .. frame
    BY <1>5, <2>1, ScanState
  <2>4. /\ run_len' < count' /\ frame' <= total_frames'
        /\ CurrentRun' + run_len' = frame'
    BY <1>3, <1>5, <2>1, ScanState
  <2>5. bitmap' = start' /\ pc' = "scan"
    BY <1>5, ScanState, Zenon
  <2> QED
    BY <1>1, <1>4, <2>1, <2>2, <2>3, <2>4, <2>5, ScanState, Zenon
    DEF ScanInv, ReturnsLowestRun, PanicsOnlyWhenExhausted
<1>6. CASE run_len' = count /\ pc' = "mark" /\ i' = run_start' /\ UNCHANGED frame
  <2>1. run_start' + count - 1 = frame
    BY <1>3, <1>6, ScanState
  <2>2. run_start' \in RunsOf(InitiallyFree, count)
    BY <1>3, <1>4, <2>1, ScanState DEF RunsOf
  <2>3. ScanTypeOK'
    BY <1>3, <1>6, ScanState, Zenon DEF ScanTypeOK
  <2>4. bitmap' = SetBits(start, run_start' .. (i' - 1))
    <3>1. run_start' .. (i' - 1) = {}
      BY <1>3, <1>6, ScanState
    <3>2. SetBits(start, {}) = start
      BY ScanState, Zenon DEF SetBits, ScanTypeOK, Bitmaps
    <3> QED
      BY <3>1, <3>2, ScanState, Zenon
  <2>5. i' \in run_start' .. (run_start' + count)
    BY <1>3, <1>6, ScanState
  <2>6. count > 0
    BY ScanState
  <2> QED
    BY <1>1, <1>3, <1>6, <2>2, <2>3, <2>4, <2>5, <2>6, ScanState, Zenon
    DEF ScanInv, ReturnsLowestRun, PanicsOnlyWhenExhausted
<1> QED
  BY <1>5, <1>6, Zenon

\* At the end a run would have to reach past the last frame.
LEMMA ScanEndInv == ASSUME ScanInv, ScanEnd PROVE ScanInv'
<1> USE DEF ScanEnd, Fixed
<1>1. InitiallyFree' = InitiallyFree
  BY Zenon DEF InitiallyFree
<1>2. RunsOf(InitiallyFree, count) = {}
  <2> SUFFICES ASSUME NEW s \in RunsOf(InitiallyFree, count)
               PROVE  FALSE
    BY Zenon
  <2>1. s \in Nat /\ CurrentRun <= s /\ s .. (s + count - 1) \subseteq InitiallyFree
    BY ScanState DEF RunsOf
  <2>2. s + count - 1 \in s .. (s + count - 1) /\ s + count - 1 >= total_frames
    BY <2>1, ScanState
  <2> QED
    BY <2>1, <2>2, ScanState
<1>3. ScanTypeOK'
  BY ScanState, Zenon DEF ScanTypeOK
<1> QED
  BY <1>1, <1>2, <1>3, ScanState, Zenon
  DEF ScanInv, ReturnsLowestRun, PanicsOnlyWhenExhausted

\* The marking loop sets the bits of the run one by one.
LEMMA MarkInv == ASSUME ScanInv, Mark PROVE ScanInv'
<1> USE DEF Mark, Fixed
<1>1. InitiallyFree' = InitiallyFree
  BY Zenon DEF InitiallyFree
<1>2. /\ ScanTypeOK /\ count \in Nat \ {0} /\ run_start \in Nat /\ i \in Nat
      /\ run_start \in RunsOf(InitiallyFree, count)
      /\ \A s \in RunsOf(InitiallyFree, count) : run_start <= s
      /\ i \in run_start .. (run_start + count)
      /\ bitmap = SetBits(start, run_start .. (i - 1))
      /\ start \in [DOMAIN start -> SUBSET Bits]
  BY DEF ScanInv, ScanTypeOK, Bitmaps
<1>3. CASE /\ i < run_start + count /\ bitmap' = SetBits(bitmap, {i})
           /\ i' = i + 1 /\ UNCHANGED pc
  <2>1. run_start .. i = (run_start .. (i - 1)) \cup {i}
    BY <1>2
  <2>2. bitmap' = SetBits(start, run_start .. i)
    BY <1>2, <1>3, <2>1, Zenon DEF SetBits
  <2>3. i' - 1 = i
    BY <1>2, <1>3
  <2>4. bitmap' = SetBits(start', run_start' .. (i' - 1))
    BY <2>2, <2>3, Zenon
  <2>5. bitmap' \in Bitmaps(total_frames)
    BY <1>2, <1>3, SetBitsType, Zenon DEF ScanTypeOK, Bitmaps
  <2>6. ScanTypeOK'
    BY <1>2, <1>3, <2>5 DEF ScanTypeOK
  <2>7. i' \in run_start' .. (run_start' + count')
    BY <1>2, <1>3
  <2> QED
    BY <1>1, <1>2, <1>3, <2>4, <2>6, <2>7, Zenon
    DEF ScanInv, ReturnsLowestRun, PanicsOnlyWhenExhausted
<1>4. CASE i >= run_start + count /\ pc' = "return" /\ UNCHANGED <<bitmap, i>>
  <2>1. i - 1 = run_start + count - 1
    BY <1>2, <1>4
  <2>2. ScanTypeOK'
    BY <1>2, <1>4, Zenon DEF ScanTypeOK
  <2> QED
    BY <1>1, <1>2, <1>4, <2>1, <2>2, Zenon
    DEF ScanInv, ReturnsLowestRun, PanicsOnlyWhenExhausted
<1> QED
  BY <1>3, <1>4, Zenon

\* Every iteration keeps the loop invariants.
LEMMA ScanStepInv == ASSUME ScanInv, [ScanNext]_scanVars PROVE ScanInv'
<1>1. CASE UNCHANGED scanVars
  BY <1>1, Zenon DEF scanVars, ScanInv, ScanTypeOK, InitiallyFree, CurrentRun, bitmap_size,
     ReturnsLowestRun, PanicsOnlyWhenExhausted
<1> QED
  BY <1>1, CallInv, ByteLoopInv, NextByteInv, BitLoopInv, ScanAllocatedInv,
     ScanFreeInv, ScanEndInv, MarkInv, Zenon
  DEF ScanNext, Step, Finished

\* The loop invariants of pmm_alloc_frame and pmm_alloc_frames.
THEOREM ScanInvariant == ScanSpec => []ScanInv
<1>1. ScanInv /\ [ScanNext]_scanVars => ScanInv'
  BY ScanStepInv, Zenon
<1> QED
  BY <1>1, ScanInitInv, PTL DEF ScanSpec

\* pmm_alloc_frames returns the lowest run of "count" free frames and marks
\* exactly that run, whatever the bitmap.
THEOREM ScanReturnsLowestRun == ScanSpec => []ReturnsLowestRun
<1>1. ScanInv => ReturnsLowestRun
  BY Zenon DEF ScanInv
<1> QED
  BY <1>1, ScanInvariant, PTL

\* It panics only when there is no such run.
THEOREM ScanPanicsOnlyWhenExhausted == ScanSpec => []PanicsOnlyWhenExhausted
<1>1. ScanInv => PanicsOnlyWhenExhausted
  BY Zenon DEF ScanInv
<1> QED
  BY <1>1, ScanInvariant, PTL

\* The loops read and write only bytes of the bitmap.
THEOREM ScanInBounds == ScanSpec => []InBounds
<1>1. ScanInv => InBounds
  <2> SUFFICES ASSUME ScanInv
               PROVE  InBounds
    BY Zenon
  <2>1. ScanTypeOK /\ total_frames \in Nat /\ DOMAIN bitmap = 0 .. (bitmap_size - 1)
    BY SizeType, Zenon DEF ScanInv, ScanTypeOK
  <2>2. pc = "bit" => byte \in DOMAIN bitmap
    BY <2>1, SizeType DEF ScanInv, ScanTypeOK
  <2>3. ASSUME NEW f \in 0 .. (total_frames - 1)
        PROVE  f \div 8 \in DOMAIN bitmap
    BY <2>1, ByteExists, Zenon DEF bitmap_size
  <2>4. pc = "scan" /\ frame < total_frames => frame \div 8 \in DOMAIN bitmap
    BY <2>1, <2>3 DEF ScanTypeOK
  <2>5. pc = "mark" /\ i < run_start + count => i \div 8 \in DOMAIN bitmap
    <3> SUFFICES ASSUME pc = "mark", i < run_start + count
                 PROVE  i \div 8 \in DOMAIN bitmap
      BY Zenon
    <3>1. i \in run_start .. (run_start + count - 1) /\ run_start \in Nat /\ count \in Nat
      BY DEF ScanInv, ScanTypeOK
    <3>2. i \in InitiallyFree
      BY <3>1, Zenon DEF ScanInv, RunsOf
    <3> QED
      BY <2>1, <2>3, <3>2, SizeType, Zenon
  <2> QED
    BY <2>2, <2>4, <2>5, Zenon DEF InBounds
<1> QED
  BY <1>1, ScanInvariant, PTL
===============================================================================
