-------------------------------- MODULE Bitmap --------------------------------
(***************************************************************************)
(* The frame bitmap of src/memory/pmm.c: an array of bytes in which bit    *)
(* f % 8 of byte f / 8 is set when frame f is allocated.  A byte is the    *)
(* set of its bits that are 1, so 0xFF is Bits and 0x00 is {}.             *)
(***************************************************************************)
EXTENDS Integers

CONSTANT Counts  \* the frame counts callers pass

VARIABLES
  total_frames,
  bitmap  \* bitmap_start, bitmap_size: the bytes of the bitmap

Bits == 0 .. 7

bitmap_size_from_frames(frame_count) == (frame_count + 7) \div 8

\* bitmap_start[frame / 8] & (1 << (frame % 8))
IsSet(bm, frame) == frame % 8 \in bm[frame \div 8]

\* bitmap_start[f / 8] |= (1 << (f % 8)) for every f in F
SetBits(bm, F) ==
  [byte \in DOMAIN bm |-> bm[byte] \cup {bit \in Bits : 8 * byte + bit \in F}]

\* bitmap_start[f / 8] &= ~(1 << (f % 8)) for every f in F
ClearBits(bm, F) ==
  [byte \in DOMAIN bm |-> bm[byte] \ {bit \in Bits : 8 * byte + bit \in F}]

\* The frames below "frames" whose bit exists and is 0.
ZeroBits(bm, frames) ==
  {f \in 0 .. (frames - 1) : f \div 8 \in DOMAIN bm /\ ~IsSet(bm, f)}

\* The starts of the runs of "count" frames that are all free.
RunsOf(free, count) == {s \in free : s .. (s + count - 1) \subseteq free}

\* The bits of the last byte that stand for no frame are 1.
PaddingSet(bm, frames) ==
  \A byte \in DOMAIN bm, bit \in Bits : 8 * byte + bit >= frames => bit \in bm[byte]

===============================================================================
