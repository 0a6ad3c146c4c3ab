------------------------------- MODULE Limine -------------------------------
(***************************************************************************)
(* The host tool of the boot loader, limine/limine.c: main and the         *)
(* commands that change something, bios-install and enroll-config.         *)
(***************************************************************************)
EXTENDS BiosInstall, EnrollConfig

CONSTANT Commands    \* the values of argv[1]; "" for none

VARIABLE cmd

vars == <<cmd, installVars, enrollVars>>

Init == cmd = "none yet" /\ InstallInit /\ EnrollInit

\* The commands that only print, and their exit codes; the tool is built standalone.
version == "success"
print_datadir == "failure"
general_usage(c) == IF c \in {"help", "--help", "-h"} THEN "success" ELSE "failure"

main(c) ==
  /\ cmd = "none yet"
  /\ cmd' = c
  /\ CASE c = "bios-install" ->
            (\E args \in ArgLists : StartInstall(args)) /\ UNCHANGED enrollVars
       [] c = "enroll-config" ->
            (\E args \in EnrollArgs : StartEnroll(args)) /\ UNCHANGED installVars
       [] OTHER ->
            /\ step' = CASE c \in {"version", "--version"} -> version
                         [] c = "--print-datadir" -> print_datadir
                         [] OTHER -> general_usage(c)
            /\ UNCHANGED <<dev, disk, opts, gpt, mbr, any_active, index, stage2_loc, timestamp, orig_mbr, enrollVars>>

Install == cmd = "bios-install" /\ bios_install /\ UNCHANGED <<cmd, enrollVars>>
InstallTrouble == cmd = "bios-install" /\ Trouble /\ UNCHANGED <<cmd, enrollVars>>
Enroll == cmd = "enroll-config" /\ enroll_config /\ UNCHANGED <<cmd, installVars>>
EnrollTrouble == cmd = "enroll-config" /\ StoreFails /\ UNCHANGED <<cmd, installVars>>

Tool == (\E c \in Commands : main(c)) \/ Install \/ Enroll

Next == Tool \/ InstallTrouble \/ EnrollTrouble

Spec == Init /\ [][Next]_vars /\ WF_vars(Tool)

-------------------------------------------------------------------------------
Installed == step = "success" /\ opts # {} /\ Opts.exit = ""

Converted == dev.headers # {} /\ ~gpt

Before == Contents(dev)

\* The probes of the blocks first .. last of the device.
Blocks(first, last, size) == {f \in Probes : f \div size \in first .. last}

\* The entries of the MBR d that are in use.
InUse(d) == {k \in 1 .. 4 : d[Entry(k) + 4][2] # 0}

\* The blocks of a header of a GPT and its 128 entries of 128 bytes.
GptBlocks == 16384 \div lb_size + 1

\* The blocks outside both GPTs that a conversion zeroes all the same: it counts 34
\* blocks at the start and 33 at the end whatever their size, which is right for blocks
\* of 512 bytes, where this set is empty.
Collateral ==
  IF Converted
  THEN ((GptBlocks + 1) .. 33) \cup ((dev.alternate_lba - 32) .. (dev.alternate_lba - GptBlocks))
  ELSE {}

\* The volume descriptor of an ISO image.
IsoSignature == 32769

\* An installation without --force leaves the contents of every partition alone but for
\* a BIOS boot partition, and takes over neither a partition nor a whole device on which
\* a file system is recognised (validate_or_force, the checks of bios_install).  An ISO
\* image that is converted stays one.  The only exception is Collateral: with blocks of
\* 4096 bytes a conversion loses what lies in the blocks that it takes for the GPTs.
NothingLost ==
  Installed /\ ~Opts.force =>
    /\ IF dev.headers = {}
       THEN \A k \in InUse(Before) :
              \A f \in Blocks(dev.table[k].start, dev.table[k].start + dev.table[k].count - 1, 512) :
                disk[f] = Before[f]
       ELSE \A n \in 1 .. Len(dev.entries) :
              dev.entries[n].used /\ dev.entries[n].type # "bios boot" =>
                \A f \in Blocks(dev.entries[n].first, dev.entries[n].last, lb_size) :
                  disk[f] = Before[f] \/ f \div lb_size \in Collateral
    /\ Converted => disk[IsoSignature] = Before[IsoSignature] \/ IsoSignature \div lb_size \in Collateral
    /\ gpt => Recognised(Before, stage2_loc) = {}
    /\ dev.headers = {} => Recognised(Before, 0) = {}

\* The block that a cylinder, head and sector name.
ChsBlock(chs) == ((chs[3] \div 64) * 256 + chs[4]) * 255 * 63 + chs[2] * 63 + (chs[3] % 64) - 1

\* After an installation the partition table is the one that was there, with at most the
\* first entry made active when none was; after a conversion it lists the partitions of
\* the GPT, in their order, at their places, in both notations as far as cylinders
\* reach, and the GPT is gone (orig_mbr, the conversion, lba2chs).
TableKept ==
  Installed /\ ~Opts.force =>
    IF Converted
    THEN /\ InUse(disk) = 1 .. Len(part_to_conv)
         /\ \A k \in InUse(disk) :
              LET e == part_to_conv[k]
              IN /\ disk[Entry(k) + 8] = Num(e.first)
                 /\ disk[Entry(k) + 8][2] + disk[Entry(k) + 12][2] - 1 = e.last
                 /\ e.first < 1024 * 255 * 63 => ChsBlock(disk[Entry(k) + 1]) = e.first
                 /\ e.last < 1024 * 255 * 63 => ChsBlock(disk[Entry(k) + 5]) = e.last
         /\ \A f \in {lb_size, dev.alternate_lba * lb_size} : disk[f] # Before[f]
    ELSE \A f \in Probes \cap (218 .. 223 \cup 440 .. 509) :
           \/ disk[f] = Before[f]
           \/ /\ f = 446 /\ disk[f] = Num(128) /\ ~gpt
              /\ \A k \in 1 .. 4 : dev.table[k].status = 0

\* After an installation the boot sector is that of the image outside the parts that
\* are kept, it names the place of stage 2, and there all of stage 2 is, not cut short
\* by what is written after it.
Bootable ==
  Installed =>
    /\ \A f \in Probes \cap (0 .. 511) :
         f \in (218 .. 223) \cup (440 .. 509) \/ disk[f] = IF f \in 420 .. 427 THEN Num(stage2_loc) ELSE <<"image", f>>
    /\ \A f \in Probes \cap (stage2_loc .. (stage2_loc + ImageSize - 513)) :
         disk[f] = <<"image", f - stage2_loc + 512>>

\* The places of a file right behind a signature.
Occurrences(s) == {n \in siglen .. Len(s) : SubSeq(s, n - siglen + 1, n) = Signature}

\* enroll-config changes nothing but the bytes behind the first signature, also when
\* the write fails; it reports success only when all of them are the new ones, and it
\* misses no signature that ends within the part of the file that the loop visits.
EnrollsFirst ==
  LET first == CHOOSE n \in Occurrences(orig) : \A o \in Occurrences(orig) : n <= o
      window == IF Occurrences(orig) = {} THEN {} ELSE (first + 1) .. (first + Len(Sum))
  IN /\ Len(file) = Len(orig)
     /\ \A n \in 1 .. Len(orig) : file[n] # orig[n] => n \in window
     /\ at = "success" /\ bootloader # <<>> =>
          window # {} /\ \A n \in window : file[n] = Behind(n - first)
     /\ at = "failure" /\ bootloader # <<>> /\ checksum_loc = -1 =>
          \A n \in Occurrences(orig) : n > Len(orig) - min_size + 1

\* Every command comes to an end; the search of enroll-config does although it goes
\* back after a failed match.
CommandEnds == <>(step \in {"success", "failure"} \/ at \in {"success", "failure"})
=============================================================================
