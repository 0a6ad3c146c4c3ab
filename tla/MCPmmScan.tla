------------------------------- MODULE MCPmmScan ------------------------------
(***************************************************************************)
(* The instance of PmmScan that TLC checks: every set of free frames among *)
(* up to 9, so that the last byte has one, no or seven padding bits, with  *)
(* the padding bits all 1 or all 0.                                        *)
(***************************************************************************)
EXTENDS PmmScan

MCFrameCounts == {0, 6, 8, 9}
MCStartBitmaps(n) ==
  LET zero == [byte_ \in 0 .. (bitmap_size_from_frames(n) - 1) |-> {}]
  IN  {SetBits(zero, F \cup pad) : F \in SUBSET (0 .. (n - 1)), pad \in {{}, n .. (n + 7)}}
MCCounts == 0 .. 4
===============================================================================
