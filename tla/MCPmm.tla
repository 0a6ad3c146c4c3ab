--------------------------------- MODULE MCPmm --------------------------------
(***************************************************************************)
(* The instance of Pmm that TLC checks.  Pages have two bytes, so that a   *)
(* bitmap of three bytes spans two frames.                                 *)
(***************************************************************************)
EXTENDS Pmm, Sequences

Entry(base, length, type) == [base |-> base, length |-> length, type |-> type]

\* 11 frames: 5 padding bits; an end that is not page aligned in the middle,
\* a framebuffer above everything tracked.
PaddedMap ==
  << Entry(0, 2, "RESERVED"), Entry(2, 8, "USABLE"),
     Entry(10, 3, "ACPI_RECLAIMABLE"), Entry(14, 8, "USABLE"),
     Entry(40, 8, "FRAMEBUFFER") >>

\* 17 frames, the last one partial: the first usable entry is too short for
\* the bitmap of three bytes, which takes two frames of the second.
LargeBitmapMap ==
  << Entry(2, 2, "USABLE"), Entry(6, 10, "USABLE"),
     Entry(16, 17, "EXECUTABLE_AND_MODULES") >>

\* 8 frames and no padding bit.
FullByteMap ==
  << Entry(0, 4, "BOOTLOADER_RECLAIMABLE"), Entry(4, 12, "USABLE"),
     Entry(16, 4, "BAD_MEMORY") >>

\* No usable entry holds the bitmap of three bytes.
TooFragmentedMap ==
  << Entry(2, 2, "USABLE"), Entry(6, 2, "USABLE"), Entry(8, 30, "ACPI_NVS") >>

MCMemMaps == {PaddedMap, LargeBitmapMap, FullByteMap, TooFragmentedMap}

\* Every byte address of the first frames and a few past the tracked range.
MCClientAddrs == 0 .. 26

MCCounts == 0 .. 3
===============================================================================
