-------------------------------- MODULE PmmScan -------------------------------
(***************************************************************************)
(* One call of pmm_alloc_frames (src/memory/pmm.c), loop iteration by loop *)
(* iteration: the search for a run of free frames, the byte-wise search of *)
(* pmm_alloc_frame that serves count = 1, and the marking loop.  Pmm takes *)
(* the whole call as the one step TakeLowestRun; here that is justified.   *)
(***************************************************************************)
EXTENDS Bitmap

CONSTANTS
  FrameCounts,      \* the values of total_frames
  StartBitmaps(_)   \* the bitmaps of so many frames a call may find

Bitmaps(n) == [0 .. (bitmap_size_from_frames(n) - 1) -> SUBSET Bits]

\* The padding bits need not be 1: the search does not rely on that.
ASSUME ScanAssumption ==
  /\ FrameCounts \subseteq Nat
  /\ Counts \subseteq Nat
  /\ \A n \in FrameCounts : StartBitmaps(n) \subseteq Bitmaps(n)

VARIABLES
  count,                     \* the argument
  start,                     \* the bitmap at the call (history)
  pc,                        \* "call", "byte", "bit", "scan", "mark", "return", "panic"
  byte, bit,                 \* the loop variables of pmm_alloc_frame
  frame, run_start, run_len, \* those of pmm_alloc_frames
  i                          \* that of its marking loop

scanVars == <<total_frames, count, start, bitmap, pc, byte, bit,
              frame, run_start, run_len, i>>

bitmap_size == bitmap_size_from_frames(total_frames)

ScanInit ==
  /\ total_frames \in FrameCounts
  /\ count \in Counts
  /\ start \in StartBitmaps(total_frames)
  /\ bitmap = start
  /\ pc = "call"
  /\ byte = 0 /\ bit = 0
  /\ frame = 0 /\ run_start = 0 /\ run_len = 0 /\ i = 0

Fixed == UNCHANGED <<total_frames, count, start>>

Call ==
  /\ pc = "call"
  /\ pc' = IF count = 0 THEN "return" ELSE IF count = 1 THEN "byte" ELSE "scan"
  /\ Fixed
  /\ UNCHANGED <<bitmap, byte, bit, frame, run_start, run_len, i>>

-------------------------------------------------------------------------------
(* pmm_alloc_frame *)

\* Leave the byte loop: kpanic.
OutOfMemory == pc' = "panic" /\ UNCHANGED byte

\* The head of the byte loop: skip a byte of eight allocated frames.
ByteLoop ==
  /\ pc = "byte"
  /\ \/ byte >= bitmap_size /\ OutOfMemory
     \/ byte < bitmap_size /\ bitmap[byte] = Bits
        /\ byte' = byte + 1 /\ UNCHANGED pc
     \/ byte < bitmap_size /\ bitmap[byte] # Bits
        /\ pc' = "bit" /\ UNCHANGED byte
  /\ bit' = 0
  /\ Fixed
  /\ UNCHANGED <<bitmap, frame, run_start, run_len, i>>

\* Mutant: the bit loop does not stop at the last frame but leaves the search.
NextBytePanics ==
  /\ pc = "bit"
  /\ bit >= 8 \/ 8 * byte + bit >= total_frames - 1
  /\ pc' = "panic"
  /\ Fixed
  /\ UNCHANGED <<bitmap, byte, bit, frame, run_start, run_len, i>>

\* The bit loop ends after bit 7, or at the first bit that stands for no frame.
NextByte ==
  /\ pc = "bit"
  /\ bit >= 8 \/ 8 * byte + bit >= total_frames
  /\ pc' = "byte"
  /\ byte' = byte + 1
  /\ Fixed
  /\ UNCHANGED <<bitmap, bit, frame, run_start, run_len, i>>

\* One bit: go on when it is set, else set it and return.
BitLoop ==
  /\ pc = "bit"
  /\ bit < 8 /\ 8 * byte + bit < total_frames
  /\ \/ /\ bit \in bitmap[byte]
        /\ bit' = bit + 1
        /\ UNCHANGED <<pc, bitmap, run_start>>
     \/ /\ bit \notin bitmap[byte]
        /\ bitmap' = [bitmap EXCEPT ![byte] = @ \cup {bit}]
        /\ run_start' = 8 * byte + bit
        /\ pc' = "return"
        /\ UNCHANGED bit
  /\ Fixed
  /\ UNCHANGED <<byte, frame, run_len, i>>

-------------------------------------------------------------------------------
(* pmm_alloc_frames *)

\* Mutant: the run is not given up at an allocated frame.
ScanAllocatedKeepsRun ==
  /\ pc = "scan"
  /\ frame < total_frames
  /\ IsSet(bitmap, frame)
  /\ frame' = frame + 1
  /\ Fixed
  /\ UNCHANGED <<bitmap, pc, byte, bit, run_start, run_len, i>>

\* An allocated frame ends the run.
ScanAllocated ==
  /\ pc = "scan"
  /\ frame < total_frames
  /\ IsSet(bitmap, frame)
  /\ run_len' = 0
  /\ frame' = frame + 1
  /\ Fixed
  /\ UNCHANGED <<bitmap, pc, byte, bit, run_start, i>>

\* A free frame starts or extends a run; "count" of them are enough.
ScanFree ==
  /\ pc = "scan"
  /\ frame < total_frames
  /\ ~IsSet(bitmap, frame)
  /\ run_start' = IF run_len = 0 THEN frame ELSE run_start
  /\ run_len' = run_len + 1
  /\ \/ run_len' # count /\ frame' = frame + 1 /\ UNCHANGED <<pc, i>>
     \/ run_len' = count /\ pc' = "mark" /\ i' = run_start' /\ UNCHANGED frame
  /\ Fixed
  /\ UNCHANGED <<bitmap, byte, bit>>

\* The end of the loop: kpanic.
ScanEnd ==
  /\ pc = "scan"
  /\ frame >= total_frames
  /\ pc' = "panic"
  /\ Fixed
  /\ UNCHANGED <<bitmap, byte, bit, frame, run_start, run_len, i>>

\* Mutant: i does not advance.
MarkStuck ==
  /\ pc = "mark"
  /\ \/ i < run_start + count /\ bitmap' = SetBits(bitmap, {i}) /\ UNCHANGED <<pc, i>>
     \/ i >= run_start + count /\ pc' = "return" /\ UNCHANGED <<bitmap, i>>
  /\ Fixed
  /\ UNCHANGED <<byte, bit, frame, run_start, run_len>>

Mark ==
  /\ pc = "mark"
  /\ \/ i < run_start + count /\ bitmap' = SetBits(bitmap, {i}) /\ i' = i + 1
        /\ UNCHANGED pc
     \/ i >= run_start + count /\ pc' = "return" /\ UNCHANGED <<bitmap, i>>
  /\ Fixed
  /\ UNCHANGED <<byte, bit, frame, run_start, run_len>>

\* The call is over.
Finished == pc \in {"return", "panic"} /\ UNCHANGED scanVars

Step ==
  \/ Call
  \/ ByteLoop \/ NextByte \/ BitLoop
  \/ ScanAllocated \/ ScanFree \/ ScanEnd
  \/ Mark

ScanNext == Step \/ Finished

\* The processor executes the loop: fairness.
ScanSpec == ScanInit /\ [][ScanNext]_scanVars /\ WF_scanVars(Step)

-------------------------------------------------------------------------------
ScanTypeOK ==
  /\ total_frames \in Nat /\ count \in Nat
  /\ start \in Bitmaps(total_frames)
  /\ bitmap \in Bitmaps(total_frames)
  /\ pc \in {"call", "byte", "bit", "scan", "mark", "return", "panic"}
  /\ byte \in Nat /\ bit \in 0 .. 8
  /\ frame \in Nat /\ run_start \in Nat /\ run_len \in Nat /\ i \in Nat

InitiallyFree == ZeroBits(start, total_frames)

\* A call that returns has taken the lowest run of "count" frames that were
\* free when it was made, and has changed no other bit; a call of no frames
\* has changed nothing.
ReturnsLowestRun ==
  pc = "return" =>
    IF count = 0
    THEN bitmap = start
    ELSE /\ run_start \in RunsOf(InitiallyFree, count)
         /\ \A s \in RunsOf(InitiallyFree, count) : run_start <= s
         /\ bitmap = SetBits(start, run_start .. (run_start + count - 1))

\* The kernel panics for want of memory only when no run is long enough.
PanicsOnlyWhenExhausted ==
  pc = "panic" => bitmap = start /\ RunsOf(InitiallyFree, count) = {}

\* No loop variable leads outside the bitmap.
InBounds ==
  /\ pc = "bit" => byte \in DOMAIN bitmap
  /\ pc = "scan" /\ frame < total_frames => frame \div 8 \in DOMAIN bitmap
  /\ pc = "mark" /\ i < run_start + count => i \div 8 \in DOMAIN bitmap

\* Every call returns or panics.
CallEnds == <>(pc \in {"return", "panic"})

\* The loop invariants.  No run starts below the current run, or below the
\* current frame when there is no current run.
CurrentRun == IF run_len = 0 THEN frame ELSE run_start

ScanInv ==
  /\ ScanTypeOK
  /\ pc = "call" => byte = 0 /\ frame = 0 /\ run_len = 0
  /\ pc \in {"call", "byte", "bit", "scan", "panic"} => bitmap = start
  /\ pc \in {"byte", "bit"} => count = 1
  /\ pc = "byte" => \A f \in InitiallyFree : 8 * byte <= f
  /\ pc = "bit" => /\ byte < bitmap_size
                   /\ \A f \in InitiallyFree : 8 * byte + bit <= f
  /\ pc = "scan" =>
       /\ run_len < count /\ frame <= total_frames
       /\ CurrentRun + run_len = frame
       /\ CurrentRun .. (frame - 1) \subseteq InitiallyFree
       /\ \A s \in RunsOf(InitiallyFree, count) : CurrentRun <= s
  /\ pc = "mark" =>
       /\ count > 0
       /\ run_start \in RunsOf(InitiallyFree, count)
       /\ \A s \in RunsOf(InitiallyFree, count) : run_start <= s
       /\ i \in run_start .. (run_start + count)
       /\ bitmap = SetBits(start, run_start .. (i - 1))
  /\ ReturnsLowestRun
  /\ PanicsOnlyWhenExhausted

===============================================================================
