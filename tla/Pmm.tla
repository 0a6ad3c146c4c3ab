---------------------------------- MODULE Pmm ---------------------------------
(***************************************************************************)
(* The physical memory manager, src/memory/pmm.c: a bitmap with one bit    *)
(* per frame, placed by pmm_init in the memory it manages.                 *)
(*                                                                         *)
(* Every operation is one step: the kernel runs on one processor, never    *)
(* enables interrupts, and none of these functions calls back into the     *)
(* manager.  The search loops inside the two allocators are the subject    *)
(* of PmmScan.                                                             *)
(***************************************************************************)
EXTENDS Mm, Bitmap, FiniteSetsExt

CONSTANTS
  MemMaps,      \* the memory maps the bootloader may pass
  ClientAddrs   \* the addresses callers pass

VARIABLES
  memmap,             \* memmap_request.response: never changes
  phase,              \* "boot", then "up"; "panic" once kpanic is called
  bitmap_start_phys,
  held                \* the frames callers own (history: no variable of pmm.c)

vars == <<memmap, phase, total_frames, bitmap_start_phys, bitmap, held>>

MemMapTypes ==
  {"USABLE", "RESERVED", "ACPI_RECLAIMABLE", "ACPI_NVS", "BAD_MEMORY",
   "BOOTLOADER_RECLAIMABLE", "EXECUTABLE_AND_MODULES", "FRAMEBUFFER",
   "RESERVED_MAPPED"}

MemMapEntry == [base : Nat, length : Nat, type : MemMapTypes]

\* External: the Limine boot protocol.  Usable entries are page aligned,
\* overlap no other entry, and do not contain page 0.
WellFormed(map) ==
  \A i \in DOMAIN map : map[i].type = "USABLE" =>
    /\ IS_PAGE_ALIGNED(map[i].base)
    /\ IS_PAGE_ALIGNED(map[i].length)
    /\ map[i].base # 0
    /\ \A j \in DOMAIN map \ {i} :
         \/ map[i].base + map[i].length <= map[j].base
         \/ map[j].base + map[j].length <= map[i].base

ASSUME MemMapAssumption ==
  \A map \in MemMaps :
    /\ DOMAIN map \subseteq Nat
    /\ \A i \in DOMAIN map : map[i] \in MemMapEntry
    /\ WellFormed(map)

ASSUME ClientAssumption == ClientAddrs \subseteq Nat /\ Counts \subseteq Nat

-------------------------------------------------------------------------------
(* pmm_init *)

UsableEntries == {i \in DOMAIN memmap : memmap[i].type = "USABLE"}

\* The ends of the entries that bound the tracked address range.
TrackedEnds ==
  {memmap[i].base + memmap[i].length :
     i \in {j \in DOMAIN memmap :
              memmap[j].type \notin {"RESERVED", "FRAMEBUFFER", "BAD_MEMORY"}}}

\* The usable entries long enough for the bitmap; the code takes the first.
BitmapEntries(bitmap_size) ==
  {i \in UsableEntries : memmap[i].length >= bitmap_size}

\* The addresses of "count" consecutive pages.
PageAddrs(base, count) == {base + i * PAGE_SIZE : i \in 0 .. (count - 1)}

\* The frames below "frames" that calls with these addresses reach: an
\* address that is not aligned or not tracked is logged and ignored.
TrackedFrames(addrs, frames) ==
  {f \in 0 .. (frames - 1) :
     \E a \in addrs : IS_PAGE_ALIGNED(a) /\ f = a \div PAGE_SIZE}

\* What the first loop passes to pmm_free_frame.
UsableAddrs ==
  UNION {PageAddrs(memmap[i].base, PAGE_COUNT(memmap[i].length)) :
           i \in UsableEntries}

\* What the second loop passes to pmm_mark_allocated.
BitmapAddrs(start, bitmap_size) == PageAddrs(start, PAGE_COUNT(bitmap_size))

\* Mutants: memset of total_frames / 8 bytes, rounded down; the frames of the
\* bitmap are not marked.
InitialBitmapRoundedDown(start, frames) ==
  LET bitmap_size == bitmap_size_from_frames(frames)
      ones == [byte \in 0 .. (bitmap_size - 1) |-> IF byte < frames \div 8 THEN Bits ELSE {}]
  IN  SetBits(ClearBits(ones, TrackedFrames(UsableAddrs, frames)),
              TrackedFrames(BitmapAddrs(start, bitmap_size), frames))

InitialBitmapUnmarked(start, frames) ==
  ClearBits([byte \in 0 .. (bitmap_size_from_frames(frames) - 1) |-> Bits],
            TrackedFrames(UsableAddrs, frames))

\* memset to 0xFF, then the two loops.
InitialBitmap(start, frames) ==
  LET bitmap_size == bitmap_size_from_frames(frames)
      ones        == [byte \in 0 .. (bitmap_size - 1) |-> Bits]
  IN  SetBits(ClearBits(ones, TrackedFrames(UsableAddrs, frames)),
              TrackedFrames(BitmapAddrs(start, bitmap_size), frames))

pmm_init ==
  /\ phase = "boot"
  /\ \E highest_addr \in {0} \cup TrackedEnds :
       /\ \A end \in TrackedEnds : end <= highest_addr
       /\ total_frames' = PAGE_COUNT(highest_addr)
  /\ LET entries == BitmapEntries(bitmap_size_from_frames(total_frames'))
         IsFirst(i) == \A j \in entries : i <= j
     IN  \/ \E i \in entries :
              /\ IsFirst(i)
              /\ memmap[i].base # 0
              /\ phase' = "up"
              /\ bitmap_start_phys' = memmap[i].base
              /\ bitmap' = InitialBitmap(memmap[i].base, total_frames')
         \/ \* kpanic: bitmap_start_phys is still 0
            /\ \A i \in entries : IsFirst(i) => memmap[i].base = 0
            /\ phase' = "panic"
            /\ UNCHANGED <<bitmap_start_phys, bitmap>>
  /\ UNCHANGED <<memmap, held>>

-------------------------------------------------------------------------------
(* Allocation *)

FreeFrames == ZeroBits(bitmap, total_frames)

\* Mutant: only the ends of the run are looked at.
RunsUnchecked(count) == {s \in FreeFrames : s + count - 1 \in FreeFrames}

Runs(count) == RunsOf(FreeFrames, count)

\* Mark the lowest run of "count" free frames and return its address, or
\* panic: the loop of pmm_alloc_frame (count = 1) and of pmm_alloc_frames.
TakeLowestRun(count) ==
  \/ \E s \in Runs(count) :
       /\ \A t \in Runs(count) : s <= t
       /\ bitmap' = SetBits(bitmap, s .. (s + count - 1))
       /\ held' = held \cup (s .. (s + count - 1))
       /\ UNCHANGED phase
  \/ /\ Runs(count) = {}
     /\ phase' = "panic"
     /\ UNCHANGED <<bitmap, held>>

pmm_alloc_frame ==
  /\ phase = "up"
  /\ TakeLowestRun(1)
  /\ UNCHANGED <<memmap, total_frames, bitmap_start_phys>>

pmm_alloc_frames(count) ==
  /\ phase = "up"
  /\ \/ count = 0 /\ UNCHANGED <<bitmap, held, phase>>
     \/ count > 0 /\ TakeLowestRun(count)
  /\ UNCHANGED <<memmap, total_frames, bitmap_start_phys>>

-------------------------------------------------------------------------------
(* Release and marking *)

\* pmm_free_frame for each of the addresses.  The bitmap does not record who
\* owns a frame: not freeing another owner's frame is the caller's duty.
\* Unaligned, untracked and already free addresses are logged and ignored.
FreeAll(addrs) ==
  /\ TrackedFrames(addrs, total_frames) \subseteq held \cup FreeFrames
  /\ bitmap' = ClearBits(bitmap, TrackedFrames(addrs, total_frames))
  /\ held' = held \ TrackedFrames(addrs, total_frames)
  /\ UNCHANGED <<memmap, phase, total_frames, bitmap_start_phys>>

pmm_free_frame(phys_addr) == phase = "up" /\ FreeAll({phys_addr})

pmm_free_frames(phys_addr, count) ==
  phase = "up" /\ FreeAll(PageAddrs(phys_addr, count))

\* Marking a free frame makes the caller its owner; marking an allocated one
\* changes nothing.
pmm_mark_allocated(phys_addr) ==
  /\ phase = "up"
  /\ LET F == TrackedFrames({phys_addr}, total_frames)
     IN  /\ bitmap' = SetBits(bitmap, F)
         /\ held' = held \cup (F \cap FreeFrames)
  /\ UNCHANGED <<memmap, phase, total_frames, bitmap_start_phys>>

\* The endless hlt loop at the end of kpanic.
Halt == phase = "panic" /\ UNCHANGED vars

-------------------------------------------------------------------------------
(* Queries *)

pmm_is_frame_free(phys_addr) ==
  TrackedFrames({phys_addr}, total_frames) \cap FreeFrames # {}

\* The bits a byte adds to pmm_get_free_size: 0x00 and 0xFF are fast paths.
ClearCount(byte) ==
  IF byte = {} THEN 8 ELSE IF byte = Bits THEN 0 ELSE Cardinality(Bits \ byte)

pmm_get_free_size ==
  PAGE_SIZE * MapThenSumSet(LAMBDA byte : ClearCount(bitmap[byte]), DOMAIN bitmap)

pmm_get_total_size == PAGE_SIZE * total_frames

-------------------------------------------------------------------------------
Init ==
  /\ memmap \in MemMaps
  /\ phase = "boot"
  /\ total_frames = 0
  /\ bitmap_start_phys = 0
  /\ bitmap = [byte \in {} |-> Bits]
  /\ held = {}

Next ==
  \/ pmm_init
  \/ pmm_alloc_frame
  \/ \E count \in Counts : pmm_alloc_frames(count)
  \/ \E a \in ClientAddrs : pmm_free_frame(a)
  \/ \E a \in ClientAddrs, count \in Counts : pmm_free_frames(a, count)
  \/ \E a \in ClientAddrs : pmm_mark_allocated(a)
  \/ Halt

Spec == Init /\ [][Next]_vars

-------------------------------------------------------------------------------
TypeOK ==
  /\ memmap \in MemMaps
  /\ phase \in {"boot", "up", "panic"}
  /\ total_frames \in Nat
  /\ bitmap_start_phys \in Nat
  /\ bitmap \in [DOMAIN bitmap -> SUBSET Bits]
  /\ DOMAIN bitmap \in {{}, 0 .. (bitmap_size_from_frames(total_frames) - 1)}
  /\ held \in SUBSET Nat

-------------------------------------------------------------------------------
(* Properties *)

\* The frames that lie wholly in usable memory outside the bitmap, from the
\* byte ranges of the memory map alone.
Overlaps(frame, base, length) ==
  /\ frame * PAGE_SIZE < base + length
  /\ base < (frame + 1) * PAGE_SIZE

Manageable ==
  {f \in 0 .. (total_frames - 1) :
     /\ \E i \in UsableEntries : Overlaps(f, memmap[i].base, memmap[i].length)
     /\ \A i \in DOMAIN memmap \ UsableEntries :
          ~Overlaps(f, memmap[i].base, memmap[i].length)
     /\ ~Overlaps(f, bitmap_start_phys, bitmap_size_from_frames(total_frames))}

\* Once pmm_init has returned, a frame can be allocated exactly when it lies
\* in usable memory, holds no byte of the bitmap and no caller owns it; a
\* caller owns only such frames.  Nothing is lost and nothing that belongs to
\* firmware, the kernel image or the bitmap is ever handed out.
Accounting ==
  bitmap_start_phys # 0 =>
    /\ held \subseteq Manageable
    /\ FreeFrames = Manageable \ held

\* pmm_get_free_size counts bits of whole bytes, the padding bits past
\* total_frames included; it is right because those bits stay 1.
FreeSizeExact == pmm_get_free_size = PAGE_SIZE * Cardinality(FreeFrames)

\* Every byte of the bitmap lies inside one usable region, so that writing
\* the bitmap changes no memory that somebody else owns.
BitmapInUsableMemory ==
  bitmap_start_phys # 0 =>
    \E i \in UsableEntries : \A byte \in DOMAIN bitmap :
      /\ memmap[i].base <= bitmap_start_phys + byte
      /\ bitmap_start_phys + byte < memmap[i].base + memmap[i].length

\* The frames pmm_init clears and does not mark again.
Pool ==
  TrackedFrames(UsableAddrs, total_frames)
    \ TrackedFrames(BitmapAddrs(bitmap_start_phys,
                                bitmap_size_from_frames(total_frames)),
                    total_frames)

\* The inductive invariant behind Accounting: the bitmap fits the usable
\* entry at whose base it lies, every tracked bit is the bit of a free frame
\* of the pool, of a frame of the pool that a caller owns, or 1 for ever, and
\* the padding bits are 1 for ever.
PmmInv ==
  /\ TypeOK
  /\ bitmap_start_phys = 0 =>
       phase # "up" /\ DOMAIN bitmap = {} /\ held = {}
  /\ bitmap_start_phys # 0 =>
       /\ phase # "boot"
       /\ DOMAIN bitmap = 0 .. (bitmap_size_from_frames(total_frames) - 1)
       /\ \E i \in BitmapEntries(bitmap_size_from_frames(total_frames)) :
            bitmap_start_phys = memmap[i].base
       /\ held \cap FreeFrames = {}
       /\ held \cup FreeFrames = Pool
       /\ PaddingSet(bitmap, total_frames)

\* The bitmap implements the abstract allocator.
FA == INSTANCE FrameAllocator WITH pool <- held \cup FreeFrames, free <- FreeFrames

ImplementsFrameAllocator == FA!FASpec

===============================================================================
