------------------------------ MODULE MCUndoLog -------------------------------
(* A device of three blocks of two bytes.  Every buffer has a value of its own, *)
(* so that what a byte holds tells which write it comes from.                   *)
EXTENDS UndoLog

MCOriginal == [a \in Bytes |-> 0]

Fill(from, n, v) == [loc |-> from, count |-> n, data |-> [a \in Span(from, n) |-> v]]

\* A sector over a block and a half, a table inside it, and a stage that follows.
MCBuffers == {Fill(0, 3, 1), Fill(1, 1, 2), Fill(2, 3, 3)}
===============================================================================
