------------------------------ MODULE BiosInstall ------------------------------
(***************************************************************************)
(* limine bios-install, limine/limine.c: what is read from a device, the   *)
(* checks, and what is written where.  The cache and the log behind        *)
(* device_read and device_write, and what uninstall does with the log, are *)
(* the subject of UndoLog; here a failed installation is undone in one     *)
(* step, and any access to the device may fail.                            *)
(*                                                                         *)
(* The device is followed at the offsets Probes: disk[f] is what lies      *)
(* between f and the next of them, a tuple whose first element says where  *)
(* it comes from.                                                          *)
(***************************************************************************)
EXTENDS Integers, Sequences

CONSTANTS
  U32, U64,        \* the numbers of values of uint32_t and uint64_t
  ImageSize,       \* bootloader_file_size
  Devices,         \* the devices, with what is on them
  Probes,          \* the offsets that are followed
  ArgLists,        \* the arguments of bios-install
  PartNumbers      \* the arguments that sscanf takes for a number, and the numbers

VARIABLES
  dev,             \* the device that was opened, as it was
  disk,            \* what is on it now
  opts,            \* what the arguments say
  gpt, mbr,
  any_active,
  index,           \* the partition entry of the MBR that is checked next
  stage2_loc,
  timestamp, orig_mbr,
  step             \* where bios_install is

installVars == <<dev, disk, opts, gpt, mbr, any_active, index, stage2_loc, timestamp, orig_mbr, step>>

Num(n) == <<"num", n>>

\* The fields of the partition entry k of the MBR.
Entry(k) == 446 + 16 * (k - 1)

mul_u64_overflow(a, b) == a # 0 /\ b > (U64 - 1) \div a
add_u64_overflow(a, b) == a > U64 - 1 - b

\* device_write: the bytes of a buffer, by their offset on the device.
Written(d, offset, count, value) ==
  [f \in Probes |-> IF f \in offset .. (offset + count - 1) THEN value[f] ELSE d[f]]

WrittenNum(d, offset, count, n) == Written(d, offset, count, [f \in Probes |-> Num(n)])

\* What is on a device d, followed at Probes: the entries of its MBR as records of a
\* status, a type, a start and a count, signatures of file systems at some offsets,
\* elsewhere bytes that nothing depends on.
Contents(d) ==
  [f \in Probes |->
     LET k == (f - 446) \div 16 + 1
         field == (f - 446) % 16
         entry == d.table[k]
     IN CASE f \in DOMAIN d.signatures -> <<d.signatures[f], 0>>
          [] f \in 446 .. 509 /\ field = 0 -> Num(entry.status)
          [] f \in 446 .. 509 /\ field = 4 -> Num(entry.type)
          [] f \in 446 .. 509 /\ field = 8 -> Num(entry.start)
          [] f \in 446 .. 509 /\ field = 12 -> Num(entry.count)
          [] OTHER -> <<"old", f>>]

InstallInit ==
  /\ dev = <<>> /\ disk = <<>>
  /\ opts = {} /\ gpt = FALSE /\ mbr = FALSE /\ any_active = FALSE /\ index = 1
  /\ stage2_loc = 512 /\ timestamp = <<>> /\ orig_mbr = <<>>
  /\ step = "main"

-------------------------------------------------------------------------------
\* The arguments, from the left.  The first that is not an option is the device, the
\* last of the others the partition.
Options(args) ==
  LET After[n \in 0 .. Len(args)] ==
        IF n = 0 THEN [force |-> FALSE, gpt2mbr_allowed |-> TRUE, device |-> FALSE, part_ndx |-> "", exit |-> ""]
        ELSE LET o == After[n - 1]
             IN CASE o.exit # "" -> o
                  [] args[n] = "--help" -> [o EXCEPT !.exit = "success"]
                  [] args[n] = "--force" -> [o EXCEPT !.force = TRUE]
                  [] args[n] = "--no-gpt-to-mbr-isohybrid-conversion" -> [o EXCEPT !.gpt2mbr_allowed = FALSE]
                  [] o.device -> [o EXCEPT !.part_ndx = args[n]]
                  [] args[n] = "device" -> [o EXCEPT !.device = TRUE]
                  [] OTHER -> [o EXCEPT !.exit = "failure"]
  IN After[Len(args)]

Opts == CHOOSE o \in opts : TRUE

\* No arguments, --help, a device that cannot be opened or read: nothing is done.
StartInstall(args) ==
  /\ opts' = {Options(args)}
  /\ dev' \in Devices /\ disk' = Contents(dev')
  /\ LET o == Options(args)
     IN step' = IF o.exit # "" THEN o.exit ELSE IF o.device /\ dev'.readable THEN "probe" ELSE "failure"
  /\ UNCHANGED <<gpt, mbr, any_active, index, stage2_loc, timestamp, orig_mbr>>

\* A check has failed, or an access to the device: goto cleanup.
Cleanup(next) == step' = next

lb_size == IF 512 \in dev.headers THEN 512 ELSE 4096

\* The two headers of a GPT.
Probe ==
  /\ step = "probe"
  /\ gpt' = (dev.headers # {})
  /\ Cleanup(IF dev.headers = {} \/ dev.secondary_valid THEN "convert" ELSE "cleanup")
  /\ UNCHANGED <<dev, disk, opts, mbr, any_active, index, stage2_loc, timestamp, orig_mbr>>

-------------------------------------------------------------------------------
(* The conversion of an ISO image with a GPT *)

\* The offset of entry i of the GPT can be expressed.
Addressable(i) ==
  /\ ~mul_u64_overflow(dev.partition_entry_lba, lb_size)
  /\ ~add_u64_overflow(dev.partition_entry_lba * lb_size, i * dev.size_of_partition_entry)

Convertible == [esp |-> 239, basic |-> 7, hfs |-> 175]
gpt2mbr_type(type) == IF type \in DOMAIN Convertible THEN Convertible[type] ELSE -1

lba2chs(lba) ==
  LET cylinder == lba \div (255 * 63)
      head == (lba \div 63) % 255
      sector == (lba % 63) + 1
  IN IF cylinder >= 1024 THEN <<"chs", 254, 255, 255>>
     ELSE <<"chs", head, 64 * (cylinder \div 256) + sector, cylinder % 256>>

\* The entries that are in use, in their order.
part_to_conv == SelectSeq(dev.entries, LAMBDA e : e.used)

\* Mutant: the last sector is not counted.
SectorCountShort(e) == (e.last - e.first) % U64

SectorCount(e) == (e.last - e.first + 1) % U64

WillConvert ==
  /\ gpt /\ Opts.gpt2mbr_allowed /\ dev.iso
  /\ ~mul_u64_overflow(dev.partition_entry_lba, lb_size)
  /\ \A i \in 1 .. Len(dev.entries) : Addressable(i - 1)
  /\ Len(part_to_conv) <= 4
  /\ \A n \in 1 .. Len(part_to_conv) :
       LET e == part_to_conv[n]
       IN e.first < U32 /\ e.last < U32 /\ SectorCount(e) < U32 /\ gpt2mbr_type(e.type) # -1

\* Both GPTs and the first sector are zeroed, 34 and 33 blocks.
Nuked ==
  LET first == WrittenNum(disk, 0, 34 * lb_size, 0)
  IN IF dev.alternate_lba >= 32
     THEN WrittenNum(first, (dev.alternate_lba - 32) * lb_size, 33 * lb_size, 0)
     ELSE first

\* The entries of the MBR, after a random disk identifier.
Listed(d) ==
  LET After[n \in 0 .. Len(part_to_conv)] ==
        IF n = 0 THEN Written(d, 440, 4, [f \in Probes |-> <<"random", f>>])
        ELSE LET e == part_to_conv[n]
                 at == Entry(n)
                 typed == WrittenNum(After[n - 1], at + 4, 1, gpt2mbr_type(e.type))
                 placed == WrittenNum(typed, at + 8, 4, e.first)
                 sized == WrittenNum(placed, at + 12, 4, SectorCount(e))
                 start == Written(sized, at + 1, 3, [f \in Probes |-> lba2chs(e.first)])
             IN Written(start, at + 5, 3, [f \in Probes |-> lba2chs(e.last)])
  IN After[Len(part_to_conv)]

Convert ==
  /\ step = "convert"
  /\ IF WillConvert
     THEN disk' = Listed(Nuked) /\ gpt' = FALSE /\ step' = "mbr"
     ELSE UNCHANGED <<disk, gpt>> /\ step' = IF gpt THEN "choose" ELSE "mbr"
  /\ mbr' = TRUE
  /\ UNCHANGED <<dev, opts, any_active, index, stage2_loc, timestamp, orig_mbr>>

-------------------------------------------------------------------------------
(* The sanity checks of an MBR *)

\* Mutant: only the first three entries are checked.
LastEntryThree == 3

LastEntry == 4

\* One of the four entries: its status, and its start if it is in use.
CheckEntry ==
  LET status == disk[Entry(index)][2]
      odd == status \notin {0, 128}
      fixed == IF status >= 128 THEN 128 ELSE 0
  IN /\ step = "mbr" /\ index <= LastEntry
     /\ mbr' = (mbr /\ (~odd \/ Opts.force))
     /\ disk' = IF odd /\ Opts.force THEN WrittenNum(disk, Entry(index), 1, fixed) ELSE disk
     /\ any_active' = (any_active \/ status >= 128)
     /\ index' = index + 1
     /\ Cleanup(IF disk[Entry(index) + 4][2] # 0 /\ disk[Entry(index) + 8][2] < 63 THEN "cleanup" ELSE "mbr")
     /\ UNCHANGED <<dev, opts, gpt, stage2_loc, timestamp, orig_mbr>>

\* What validate_or_force looks for: where it is, how it starts, and the bytes that
\* --force erases.
Hints == << <<3, "NTFS", 4>>, <<54, "FAT", 5>>, <<82, "FAT", 5>>, <<3, "FAT32", 5>>, <<1080, "ext", 2>> >>

Recognised(d, offset) == {n \in 1 .. Len(Hints) : d[offset + Hints[n][1]][1] = Hints[n][2]}

\* With --force every signature that is found is erased; without, the first refuses.
validate_or_force(offset, next) ==
  IF Opts.force
  THEN /\ disk' = [f \in Probes |->
                     IF \E n \in Recognised(disk, offset) :
                          f \in (offset + Hints[n][1]) .. (offset + Hints[n][1] + Hints[n][3] - 1)
                     THEN Num(0) ELSE disk[f]]
       /\ step' = next
  ELSE /\ UNCHANGED disk
       /\ Cleanup(IF Recognised(disk, offset) = {} THEN next ELSE "cleanup")

\* After the entries: no valid table, or the file systems that cover a whole device.
CheckTable ==
  /\ step = "mbr" /\ index > LastEntry
  /\ IF mbr THEN validate_or_force(0, "activate") ELSE UNCHANGED disk /\ Cleanup("cleanup")
  /\ UNCHANGED <<dev, opts, gpt, mbr, any_active, index, stage2_loc, timestamp, orig_mbr>>

\* Some systems want an active partition.
Activate ==
  /\ step = "activate"
  /\ disk' = IF any_active THEN disk ELSE WrittenNum(disk, 446, 1, 128)
  /\ step' = "save"
  /\ UNCHANGED <<dev, opts, gpt, mbr, any_active, index, stage2_loc, timestamp, orig_mbr>>

-------------------------------------------------------------------------------
(* The partition for stage 2 on a GPT *)

\* The partition that was asked for, as an index; or the first of the right type.
Chosen ==
  LET n == (PartNumbers[Opts.part_ndx] - 1) % U32
      Auto == {i \in 0 .. (Len(dev.entries) - 1) : dev.entries[i + 1].type = "bios boot"}
  IN IF Opts.part_ndx # ""
     THEN {i \in {n} : /\ n < Len(dev.entries) /\ Addressable(n) /\ dev.entries[n + 1].used
                       /\ Opts.force \/ dev.entries[n + 1].type = "bios boot"}
     ELSE {i \in Auto : (\A j \in Auto : i <= j) /\ \A j \in 0 .. i : Addressable(j)}

\* It has room, and can be addressed.
Suitable(e) ==
  /\ e.last >= e.first
  /\ ~mul_u64_overflow(SectorCount(e), lb_size) /\ SectorCount(e) * lb_size >= 32768
  /\ ~mul_u64_overflow(e.first, lb_size)

Choose ==
  /\ step = "choose"
  /\ IF Opts.part_ndx \in DOMAIN PartNumbers \cup {""} /\ \E i \in Chosen : Suitable(dev.entries[i + 1])
     THEN LET e == dev.entries[(CHOOSE i \in Chosen : TRUE) + 1]
          IN /\ stage2_loc' = e.first * lb_size
             /\ validate_or_force(e.first * lb_size, "save")
     ELSE Cleanup("cleanup") /\ UNCHANGED <<disk, stage2_loc>>
  /\ UNCHANGED <<dev, opts, gpt, mbr, any_active, index, timestamp, orig_mbr>>

-------------------------------------------------------------------------------
(* The installation *)

Saved(offset, count) == [f \in Probes \cap (offset .. (offset + count - 1)) |-> disk[f]]

Save ==
  /\ step = "save"
  /\ timestamp' = Saved(218, 6) /\ orig_mbr' = Saved(440, 70)
  /\ step' = "write"
  /\ UNCHANGED <<dev, disk, opts, gpt, mbr, any_active, index, stage2_loc>>

\* Mutant: the location of stage 2 is written before the sector it is in.
ImageEarly(d) ==
  LET located == WrittenNum(d, 420, 8, stage2_loc)
      sector == Written(located, 0, 512, [f \in Probes |-> <<"image", f>>])
  IN Written(sector, stage2_loc, ImageSize - 512, [f \in Probes |-> <<"image", f - stage2_loc + 512>>])

\* The boot sector, stage 2, and where stage 2 is.
Image(d) ==
  LET sector == Written(d, 0, 512, [f \in Probes |-> <<"image", f>>])
      rest == Written(sector, stage2_loc, ImageSize - 512, [f \in Probes |-> <<"image", f - stage2_loc + 512>>])
  IN WrittenNum(rest, 420, 8, stage2_loc)

\* The timestamp and the partition table are put back.
WriteImage ==
  /\ step = "write"
  /\ disk' = Written(Written(Image(disk), 218, 6, timestamp), 440, 70, orig_mbr)
  /\ step' = "success"
  /\ UNCHANGED <<dev, opts, gpt, mbr, any_active, index, stage2_loc, timestamp, orig_mbr>>

\* An access to the device, or an allocation, fails.
Trouble ==
  /\ step \in {"probe", "convert", "mbr", "activate", "choose", "save", "write"}
  /\ Cleanup("cleanup")
  /\ UNCHANGED <<dev, disk, opts, gpt, mbr, any_active, index, stage2_loc, timestamp, orig_mbr>>

\* uninstall(true), when every transfer of it succeeds; UndoLog has what happens
\* otherwise.
Undo ==
  /\ step = "cleanup"
  /\ disk' = Contents(dev)
  /\ step' = "failure"
  /\ UNCHANGED <<dev, opts, gpt, mbr, any_active, index, stage2_loc, timestamp, orig_mbr>>

bios_install ==
  Probe \/ Convert \/ CheckEntry \/ CheckTable \/ Activate \/ Choose \/ Save \/ WriteImage \/ Undo
===============================================================================
