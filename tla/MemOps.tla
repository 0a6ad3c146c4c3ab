-------------------------------- MODULE MemOps --------------------------------
(***************************************************************************)
(* The memory routines of src/utils/memory.c and memory.asm, one loop      *)
(* iteration (or one string move) per step, on a memory of bytes.          *)
(***************************************************************************)
EXTENDS Integers

CONSTANTS
  BYTE,      \* the number of values of a byte
  WORD,      \* the bytes of a quadword, the unit of movsq
  Size,      \* the bytes of the memory
  Contents,  \* the memories a call may find
  Values     \* the int arguments of memset and memsetw

Addrs == 0 .. (Size - 1)
Bytes == 0 .. (BYTE - 1)

ASSUME MemAssumption ==
  /\ BYTE \in Nat \ {0} /\ WORD \in Nat \ {0} /\ Size \in Nat
  /\ Contents \subseteq [Addrs -> Bytes]
  /\ Values \subseteq Int

VARIABLES
  mem,
  start,             \* the memory at the call (history)
  op,                \* the routine called
  dest, src, count,  \* its arguments (s1, s2 for memcmp)
  value,
  pc,                \* "call", "up", "down", "words", "done"
  i,                 \* the loop variable; for memcpy, the bytes moved
  result             \* of memcmp

memVars == <<mem, start, op, dest, src, count, value, pc, i, result>>
args == <<start, op, dest, src, count, value>>

\* The n objects of k bytes at a lie in the memory.
Fits(a, n, k) == a + k * n <= Size

\* memcpy's parameters are restrict: its areas do not overlap.
Disjoint(a, b, n) == a + n <= b \/ b + n <= a

\* What a caller may pass.
ValidCall ==
  /\ Fits(dest, count, IF op = "memsetw" THEN 2 ELSE 1)
  /\ op \in {"memmove", "memcpy", "memcmp"} => Fits(src, count, 1)
  /\ op = "memcpy" => Disjoint(dest, src, count)

MemInit ==
  /\ start \in Contents
  /\ mem = start
  /\ op \in {"memmove", "memset", "memsetw", "memcmp", "memcpy"}
  /\ dest \in 0 .. Size /\ src \in 0 .. Size /\ count \in 0 .. Size
  /\ value \in Values
  /\ pc = "call" /\ i = 0 /\ result = 0
  /\ ValidCall

Store(a, v) == mem' = [mem EXCEPT ![a] = v]

-------------------------------------------------------------------------------
(* memmove *)

\* Mutant: the areas are always copied upwards.
MoveUpwards ==
  /\ pc = "call" /\ op = "memmove"
  /\ pc' = "up" /\ i' = 0
  /\ UNCHANGED <<args, mem, result>>

\* Copy upwards unless dest lies inside the source area.
MoveDirection ==
  /\ pc = "call" /\ op = "memmove"
  /\ \/ (dest < src \/ dest >= src + count) /\ pc' = "up" /\ i' = 0
     \/ ~(dest < src \/ dest >= src + count) /\ pc' = "down" /\ i' = count
  /\ UNCHANGED <<args, mem, result>>

MoveUp ==
  /\ pc = "up" /\ op = "memmove" /\ i < count
  /\ Store(dest + i, mem[src + i])
  /\ i' = i + 1
  /\ UNCHANGED <<args, pc, result>>

MoveDown ==
  /\ pc = "down" /\ i # 0
  /\ Store(dest + i - 1, mem[src + i - 1])
  /\ i' = i - 1
  /\ UNCHANGED <<args, pc, result>>

-------------------------------------------------------------------------------
(* memset, memsetw, memcmp *)

StartLoop ==
  /\ pc = "call" /\ op \in {"memset", "memsetw", "memcmp"}
  /\ pc' = "up" /\ i' = 0
  /\ UNCHANGED <<args, mem, result>>

\* (uint8_t)value
SetByte ==
  /\ pc = "up" /\ op = "memset" /\ i < count
  /\ Store(dest + i, value % BYTE)
  /\ i' = i + 1
  /\ UNCHANGED <<args, pc, result>>

\* Mutant: destPtr advances by a byte, not by a uint16_t.
SetHalfWord ==
  /\ pc = "up" /\ op = "memsetw" /\ i < count
  /\ mem' = [mem EXCEPT ![dest + i] = value % BYTE,
                        ![dest + i + 1] = (value \div BYTE) % BYTE]
  /\ i' = i + 1
  /\ UNCHANGED <<args, pc, result>>

\* (uint16_t)value, the low byte first
SetWord ==
  /\ pc = "up" /\ op = "memsetw" /\ i < count
  /\ mem' = [mem EXCEPT ![dest + 2 * i] = value % BYTE,
                        ![dest + 2 * i + 1] = (value \div BYTE) % BYTE]
  /\ i' = i + 1
  /\ UNCHANGED <<args, pc, result>>

\* Mutant: the difference is not returned at once, a later one replaces it.
CompareOn ==
  /\ pc = "up" /\ op = "memcmp" /\ i < count
  /\ result' = IF mem[dest + i] # mem[src + i] THEN mem[dest + i] - mem[src + i] ELSE result
  /\ i' = i + 1
  /\ UNCHANGED <<args, mem, pc>>

Compare ==
  /\ pc = "up" /\ op = "memcmp" /\ i < count
  /\ \/ /\ mem[dest + i] # mem[src + i]
        /\ result' = mem[dest + i] - mem[src + i]
        /\ pc' = "done" /\ UNCHANGED i
     \/ /\ mem[dest + i] = mem[src + i]
        /\ i' = i + 1 /\ UNCHANGED <<pc, result>>
  /\ UNCHANGED <<args, mem>>

-------------------------------------------------------------------------------
(* memcpy *)

StartCopy ==
  /\ pc = "call" /\ op = "memcpy"
  /\ pc' = "words" /\ i' = 0
  /\ UNCHANGED <<args, mem, result>>

\* One movsq of the rep prefix, count / 8 of them.
MoveQuad ==
  /\ pc = "words" /\ i < WORD * (count \div WORD)
  /\ mem' = [a \in Addrs |-> IF a \in (dest + i) .. (dest + i + WORD - 1)
                             THEN mem[src + (a - dest)] ELSE mem[a]]
  /\ i' = i + WORD
  /\ UNCHANGED <<args, pc, result>>

QuadsDone ==
  /\ pc = "words" /\ i >= WORD * (count \div WORD)
  /\ pc' = "up"
  /\ UNCHANGED <<args, mem, i, result>>

\* One movsb, count % 8 of them.
MoveByte ==
  /\ pc = "up" /\ op = "memcpy" /\ i < WORD * (count \div WORD) + (count % WORD)
  /\ Store(dest + i, mem[src + i])
  /\ i' = i + 1
  /\ UNCHANGED <<args, pc, result>>

-------------------------------------------------------------------------------
\* The end of every loop.
Return ==
  /\ \/ pc = "up" /\ i >= count
     \/ pc = "down" /\ i = 0
  /\ pc' = "done"
  /\ UNCHANGED <<args, mem, i, result>>

Returned == pc = "done" /\ UNCHANGED memVars

MemStep ==
  \/ MoveDirection \/ MoveUp \/ MoveDown
  \/ StartLoop \/ SetByte \/ SetWord \/ Compare
  \/ StartCopy \/ MoveQuad \/ QuadsDone \/ MoveByte
  \/ Return

MemNext == MemStep \/ Returned

MemSpec == MemInit /\ [][MemNext]_memVars

-------------------------------------------------------------------------------
MemTypeOK ==
  /\ mem \in [Addrs -> Bytes] /\ start \in [Addrs -> Bytes]
  /\ op \in {"memmove", "memset", "memsetw", "memcmp", "memcpy"}
  /\ dest \in Nat /\ src \in Nat /\ count \in Nat /\ value \in Int
  /\ pc \in {"call", "up", "down", "words", "done"}
  /\ i \in Nat /\ result \in Int
  /\ ValidCall

\* The memory after bytes lo .. hi - 1 of the source area have been copied.
CopyOf(lo, hi) ==
  [a \in Addrs |-> IF a \in (dest + lo) .. (dest + hi - 1) THEN start[src + (a - dest)]
                   ELSE start[a]]

\* The memory after n bytes, or n 16-bit words, of the destination are filled.
BytesOf(n) ==
  [a \in Addrs |-> IF a \in dest .. (dest + n - 1) THEN value % BYTE ELSE start[a]]

WordsOf(n) ==
  [a \in Addrs |-> IF a \in dest .. (dest + 2 * n - 1)
                   THEN IF (a - dest) % 2 = 0 THEN value % BYTE ELSE (value \div BYTE) % BYTE
                   ELSE start[a]]

\* memmove and memcpy leave in the destination what the source area held when
\* they were called, however the areas of memmove overlap, and change nothing
\* else.
CopiesSource ==
  pc = "done" /\ op \in {"memmove", "memcpy"} => mem = CopyOf(0, count)

\* memset and memsetw fill exactly the bytes, or the 16-bit words, asked for.
FillsExactly ==
  /\ pc = "done" /\ op = "memset" => mem = BytesOf(count)
  /\ pc = "done" /\ op = "memsetw" => mem = WordsOf(count)

\* memcmp returns the difference of the first bytes that differ, 0 when none
\* do, and writes nothing.
ComparesFirst ==
  pc = "done" /\ op = "memcmp" =>
    /\ mem = start
    /\ \/ result = 0 /\ \A k \in 0 .. (count - 1) : mem[dest + k] = mem[src + k]
       \/ \E k \in 0 .. (count - 1) :
            /\ \A j \in 0 .. (k - 1) : mem[dest + j] = mem[src + j]
            /\ mem[dest + k] # mem[src + k]
            /\ result = mem[dest + k] - mem[src + k]

\* The loop invariants.  A copy has moved exactly the bytes the loop has
\* passed, and the bytes it will still read are those of the call.
MemInv ==
  /\ MemTypeOK
  /\ pc = "call" => mem = start /\ i = 0 /\ result = 0
  /\ pc = "down" => op = "memmove" /\ src <= dest /\ i <= count /\ mem = CopyOf(i, count)
  /\ pc = "words" => /\ op = "memcpy"
                     /\ \E q \in 0 .. (count \div WORD) : i = WORD * q
                     /\ mem = CopyOf(0, i)
  /\ pc = "up" /\ op = "memmove" =>
       /\ i <= count /\ mem = CopyOf(0, i)
       /\ dest < src \/ dest >= src + count
  /\ pc = "up" /\ op = "memcpy" => i <= count /\ mem = CopyOf(0, i)
  /\ pc = "up" /\ op = "memset" => i <= count /\ mem = BytesOf(i)
  /\ pc = "up" /\ op = "memsetw" => i <= count /\ mem = WordsOf(i)
  /\ pc = "up" /\ op = "memcmp" =>
       /\ i <= count /\ mem = start /\ result = 0
       /\ \A k \in 0 .. (i - 1) : mem[dest + k] = mem[src + k]
  /\ CopiesSource /\ FillsExactly /\ ComparesFirst

===============================================================================
