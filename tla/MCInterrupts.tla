----------------------------- MODULE MCInterrupts -----------------------------
(* Model values for Interrupts: a breakpoint, an NMI, a page fault and a       *)
(* software interrupt; gates split addresses in units of 4.                    *)
EXTENDS Interrupts

MCVectors == {2, 3, 14, 40}
MCCpuErrorVectors == {8, 10, 11, 12, 13, 14, 17, 21, 29, 30}

MCHandled == {3, 14}
MCStubAddr(v) == 7 + 3 * v
===============================================================================
