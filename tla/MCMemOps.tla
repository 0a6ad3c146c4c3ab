------------------------------- MODULE MCMemOps -------------------------------
(* Model values for MemOps: quadwords of two bytes, so that a copy of up to  *)
(* five bytes has both whole quadwords and a tail.                           *)
EXTENDS MemOps

MCSize == 6

\* A memory of distinct bytes shows where each byte comes from; memories of few
\* values make memcmp find equal prefixes.
MCContents ==
  {[a \in 0 .. (MCSize - 1) |-> a + 1]} \cup
  {[a \in 0 .. (MCSize - 1) |-> IF a \in S THEN 7 ELSE 3] : S \in SUBSET {0, 2, 3, 5}}

\* 3, -3 and a value wider than 16 bits, for bytes of 8 values.
MCValues == {3, -3, 85}
===============================================================================
