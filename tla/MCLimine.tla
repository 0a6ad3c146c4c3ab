------------------------------ MODULE MCLimine ------------------------------
(***************************************************************************)
(* Devices with an MBR whose entries are unused, good, too low or odd, with *)
(* and without a file system over the whole; with a GPT in blocks of 512    *)
(* or 4096 bytes; and ISO images with such a GPT that can be converted,     *)
(* cannot, or can but then fail the checks.  Sizes and offsets are those of the     *)
(* code, integers are 2^25 and 2^30 wide: an LBA may be beyond the last     *)
(* cylinder, an offset may overflow.  Files of up to 10 bytes out of two,   *)
(* for a signature of 4 that overlaps with itself and a checksum of 2.      *)
(***************************************************************************)
EXTENDS Limine, TLC, FiniteSets

MCU32 == 33554432
MCU64 == 1073741824
MCImageSize == 21851

Args(s) == <<"device">> \o s

MCArgLists ==
  { <<>>, <<"--help", "device">>, <<"missing">>, Args(<<>>), Args(<<"--force">>), Args(<<"1">>), Args(<<"0">>),
    Args(<<"x">>), Args(<<"--no-gpt-to-mbr-isohybrid-conversion">>), Args(<<"--force", "3">>), Args(<<"3", "2">>) }
MCPartNumbers == ("0" :> 0) @@ ("1" :> 1) @@ ("2" :> 2) @@ ("3" :> 3)

\* The places of signatures, relative to the start of a partition or of the device.
Signatures == {0, 3, 7, 8, 54, 59, 82, 87, 1080, 1082}
\* The blocks that are followed, in units of 512 bytes.
Bases == {0, 1, 2, 3, 32, 33, 34, 42, 62, 63, 64, 101, 126, 127, 128, 189, 192, 207, 208, 239, 240, 241, 252}
\* Those in units of 4096.
LargeBases == {1, 5, 6, 33, 34, 64, 167, 168, 195, 196, 200, 201}
MCProbes ==
  {512 * b : b \in Bases} \cup {4096 * b : b \in LargeBases} \cup {IsoSignature} \cup {218, 224, 420, 428, 510} \cup (440 .. 444) \cup Signatures
  \cup UNION {{Entry(k) + f : f \in {0, 1, 4, 5, 8, 12}} : k \in 1 .. 4}
  \cup {512 * b + h : b \in {64, 128, 192}, h \in Signatures}
  \cup {512 * b + MCImageSize - 512 : b \in {1, 64, 128, 192}}

Mbr(status, type, start) == [status |-> status, type |-> type, start |-> start, count |-> 20]
Unused == Mbr(0, 0, 0)
Good(k) == Mbr(128, 131, 63 * k)
Entries(k) == <<Unused, Good(k), Mbr(0, 131, 34), Mbr(129, 131, 252), Mbr(1, 0, 0)>>

\* At most one entry is neither unused nor good.
Tables ==
  {[k \in 1 .. 4 |-> Entries(k)[t[k]]] :
     t \in {u \in [1 .. 4 -> 1 .. 5] : Cardinality({k \in 1 .. 4 : u[k] > 2}) <= 1}}

NoGpt == [readable |-> TRUE, table |-> <<Unused, Good(2), Unused, Unused>>, signatures |-> <<>>,
          headers |-> {}, secondary_valid |-> FALSE, iso |-> FALSE, entries |-> <<>>,
          alternate_lba |-> 0, partition_entry_lba |-> 0, size_of_partition_entry |-> 128]

\* The signatures of file systems, at a base.
Hinted(d, base) ==
  {[d EXCEPT !.signatures = h] :
     h \in { ((base + 3) :> "NTFS"), ((base + 54) :> "FAT"), ((base + 82) :> "FAT"), ((base + 3) :> "FAT32"),
             ((base + 1080) :> "ext"), ((base + 3) :> "NTFS") @@ ((base + 1080) :> "ext") }}

Part(type, first, last) == [used |-> TRUE, type |-> type, first |-> first, last |-> last]
Free(type) == [used |-> FALSE, type |-> type, first |-> 64, last |-> 127]

Gpt(entries) == [NoGpt EXCEPT !.headers = {512}, !.secondary_valid = TRUE, !.entries = entries,
                              !.table = <<Mbr(0, 238, 1), Unused, Unused, Unused>>,
                              !.alternate_lba = 240, !.partition_entry_lba = 2]
Iso(entries) == [Gpt(entries) EXCEPT !.iso = TRUE]

BootPart == Part("bios boot", 64, 127)
Gpts ==
  { Gpt(<<BootPart, Part("esp", 128, 206)>>), Gpt(<<Part("linux", 128, 206), BootPart>>),
    Gpt(<<Part("linux", 34, 63), Free("bios boot"), Part("basic", 128, 206)>>),
    Gpt(<<Free("none"), Part("bios boot", 64, 126), BootPart>>), Gpt(<<Part("bios boot", 127, 64)>>),
    Gpt(<<Part("bios boot", MCU32 - 99, MCU32)>>), Gpt(<<Part("bios boot", 0, MCU64 - 1)>>), Gpt(<<>>),
    [Gpt(<<BootPart>>) EXCEPT !.secondary_valid = FALSE], [Gpt(<<BootPart>>) EXCEPT !.partition_entry_lba = MCU32],
    [Gpt(<<BootPart, BootPart>>) EXCEPT !.size_of_partition_entry = MCU64 - 512],
    [Gpt(<<Part("bios boot", 8, 15), Part("esp", 16, 25)>>) EXCEPT !.headers = {4096}, !.alternate_lba = 30],
    [Gpt(<<BootPart>>) EXCEPT !.readable = FALSE] }
Isos ==
  { Iso(<<Part("esp", 64, 127), Part("basic", 128, 206)>>), Iso(<<Free("none"), Part("hfs", 101, 101)>>),
    Iso(<<Part("basic", 34, 63)>>), Iso(<<Part("linux", 64, 127), Part("bios boot", 128, 206)>>),
    Iso([n \in 1 .. 5 |-> Part("esp", 64 * n, 64 * n + 63)]), Iso(<<BootPart, Part("esp", MCU32, MCU32 + 1)>>),
    Iso(<<Part("esp", 16450559, 16450560)>>), Iso(<<Part("esp", 4112640, 8225279), Part("basic", 127, 63)>>),
    Iso(<<>>), [Iso(<<>>) EXCEPT !.partition_entry_lba = MCU32],
    [Iso(<<Part("esp", 64, 127)>>) EXCEPT !.alternate_lba = 33],
    [Iso(<<Part("esp", 64, 127)>>) EXCEPT !.alternate_lba = 1],
    [Iso(<<Part("esp", 64, 195)>>) EXCEPT !.headers = {4096}, !.alternate_lba = 200],
    [Iso(<<Part("esp", 64, 167), Part("basic", 6, 33)>>) EXCEPT !.headers = {4096}, !.alternate_lba = 200] }

MCDevices ==
  {[NoGpt EXCEPT !.table = t] : t \in Tables} \cup Hinted(NoGpt, 0)
  \cup Gpts \cup Isos \cup Hinted(Gpt(<<BootPart>>), 64 * 512)

MCSignature == <<1, 1, 2, 1>>
MCSum == <<8, 9>>
MCFiles == UNION {[1 .. n -> {1, 2}] : n \in {5, 6, 10}}
MCEnrollArgs ==
  { <<"file", "sum">>, <<"--reset", "file">>, <<"--quiet", "file", "short">>, <<"file">>, <<"missing", "sum">>,
    <<"file", "--help">> }
MCCommands == {"", "help", "version", "--print-datadir", "bios-install", "enroll-config", "other"}
=============================================================================
