------------------------------- MODULE BssClear -------------------------------
(***************************************************************************)
(* The first statement of kmain (src/kernel_entry.c) clears .bss, and the  *)
(* stack it runs on lies in .bss (src/boot.asm, src/link.ld): memset       *)
(* overwrites its own frame.  Its local variables are therefore read from  *)
(* the memory it clears.                                                   *)
(***************************************************************************)
EXTENDS Integers, Sequences

CONSTANTS
  BYTE,      \* the number of values of a byte
  W,         \* the bytes of a stack slot
  Top,       \* the bytes of the address space
  Bases,     \* the addresses _bss_start may have
  BssSizes,  \* the values bss_size may have
  KeptWord   \* stands for the words kmain relies on: no byte of it is 0

Addrs == 0 .. (Top - 1)
Bytes == 0 .. (BYTE - 1)

\* memset's frame, from its lowest slot up, as the compiler lays it out without
\* optimisation (the Makefile gives no -O): arguments below the locals, then the
\* saved rbp and the address in kmain to return to.
Frame == <<"count", "value", "dest", "destPtr", "i", "rbp", "ret">>

FrameSize == W * Len(Frame)

ASSUME BssAssumption ==
  /\ BYTE \in Nat \ {0, 1} /\ W \in Nat \ {0} /\ Top \in Nat
  /\ Top <= BYTE ^ W
  /\ \A b \in Bases, n \in BssSizes : b \in Nat /\ n \in Nat /\ b + n <= Top
  /\ KeptWord \in Nat /\ KeptWord < BYTE ^ W
  /\ \A k \in 0 .. (W - 1) : (KeptWord \div BYTE ^ k) % BYTE # 0

VARIABLES
  mem,
  bss_start, bss_size,
  frame,                \* the address of memset's frame
  pc                    \* "call", "loop"; then "kmain", or "lost"

bssVars == <<mem, bss_start, bss_size, frame, pc>>

\* The little-endian word at p of memory m, and memory m with v stored there.
WordAt(m, p) ==
  LET up[k \in 0 .. W] == IF k = 0 THEN 0 ELSE BYTE * up[k - 1] + m[p + W - k]
  IN up[W]

WithWord(m, p, v) ==
  [a \in Addrs |-> IF a \in p .. (p + W - 1) THEN (v \div BYTE ^ (a - p)) % BYTE ELSE m[a]]

Slot(name) == frame + W * ((CHOOSE k \in 1 .. Len(Frame) : Frame[k] = name) - 1)

Local(name) == WordAt(mem, Slot(name))

\* The loader leaves anything in .bss; kmain's part of the stack, above the
\* frame, is full of words it still needs.
BssInit ==
  /\ bss_start \in Bases /\ bss_size \in BssSizes
  /\ frame \in bss_start .. (bss_start + bss_size - FrameSize)
  /\ mem = [a \in Addrs |-> BYTE - 1]
  /\ pc = "call"

-------------------------------------------------------------------------------
\* Stores of the frame's slots, in the order given.
Push(m, words) ==
  LET after[k \in 0 .. Len(words)] ==
        IF k = 0 THEN m ELSE WithWord(after[k - 1], Slot(words[k][1]), words[k][2])
  IN after[Len(words)]

\* Mutant: the area starts one byte late.
CallLate ==
  /\ pc = "call"
  /\ mem' = Push(mem, << <<"ret", KeptWord>>, <<"rbp", KeptWord>>,
                         <<"dest", bss_start + 1>>, <<"value", 0>>, <<"count", bss_size - 1>>,
                         <<"destPtr", bss_start + 1>>, <<"i", 0>> >>)
  /\ pc' = "loop"
  /\ UNCHANGED <<bss_start, bss_size, frame>>

\* memset(&_bss_start, 0, bss_size)
Call ==
  /\ pc = "call"
  /\ mem' = Push(mem, << <<"ret", KeptWord>>, <<"rbp", KeptWord>>,
                         <<"dest", bss_start>>, <<"value", 0>>, <<"count", bss_size>>,
                         <<"destPtr", bss_start>>, <<"i", 0>> >>)
  /\ pc' = "loop"
  /\ UNCHANGED <<bss_start, bss_size, frame>>

\* Mutant: the limit of the loop is kept in a register.
ClearByteCached ==
  /\ pc = "loop"
  /\ Local("i") < bss_size
  /\ LET cleared == [mem EXCEPT ![(Local("destPtr") + Local("i")) % Top] = Local("value") % BYTE]
     IN mem' = WithWord(cleared, Slot("i"), (WordAt(cleared, Slot("i")) + 1) % BYTE ^ W)
  /\ UNCHANGED <<bss_start, bss_size, frame, pc>>

\* One iteration: destPtr[i] = (uint8_t)value; i++.
ClearByte ==
  /\ pc = "loop"
  /\ Local("i") < Local("count")
  /\ LET cleared == [mem EXCEPT ![(Local("destPtr") + Local("i")) % Top] = Local("value") % BYTE]
     IN mem' = WithWord(cleared, Slot("i"), (WordAt(cleared, Slot("i")) + 1) % BYTE ^ W)
  /\ UNCHANGED <<bss_start, bss_size, frame, pc>>

\* pop rbp; ret
Return ==
  /\ pc = "loop"
  /\ Local("i") >= Local("count")
  /\ pc' = IF Local("ret") = KeptWord /\ Local("rbp") = KeptWord THEN "kmain" ELSE "lost"
  /\ UNCHANGED <<mem, bss_start, bss_size, frame>>

Clear == Call \/ ClearByte \/ Return

-------------------------------------------------------------------------------
\* memset clears its own frame, and yet, when kmain goes on, every static variable
\* that lies below the stack has been cleared.
StaticsCleared ==
  pc = "kmain" => \A a \in bss_start .. (frame - 1) : mem[a] = 0
===============================================================================
