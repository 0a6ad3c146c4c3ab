------------------------------ MODULE EnrollConfig ------------------------------
(***************************************************************************)
(* limine enroll-config, limine/limine.c: the checksum of a configuration  *)
(* is written behind a signature in the file of the boot loader.           *)
(***************************************************************************)
EXTENDS Integers, Sequences, SequencesExt

CONSTANTS
  Files,           \* what the file of the boot loader may hold
  Signature,       \* CONFIG_B2SUM_SIGNATURE, one number per byte
  Sum,             \* the argument that is a BLAKE2B, of the right length
  EnrollArgs       \* the arguments of enroll-config: options, "file", "sum", others

VARIABLES
  orig,            \* the file as it was
  file,            \* the file now
  bootloader,      \* its copy in memory
  reset,
  i, checked_count,
  checksum_loc,    \* -1: NULL
  at               \* where enroll_config is

enrollVars == <<orig, file, bootloader, reset, i, checked_count, checksum_loc, at>>

siglen == Len(Signature)
min_size == siglen + Len(Sum)
bootloader_size == Len(bootloader)

EnrollInit ==
  /\ orig = <<>> /\ file = <<>> /\ bootloader = <<>> /\ reset = FALSE
  /\ i = 0 /\ checked_count = 0 /\ checksum_loc = -1
  /\ at = "main"

\* The options are removed from the arguments as they are met.
remove_arg(args) == SelectSeq(args, LAMBDA a : a \notin {"--quiet", "--reset"})

\* --help; too few arguments, a checksum of another length, no such file, a file that
\* is too short or cannot be read: nothing is done.
StartEnroll(args) ==
  LET left == remove_arg(args)
      wipe == Contains(args, "--reset")
  IN /\ orig' \in Files /\ file' = orig' /\ reset' = wipe
     /\ IF Contains(args, "--help")
        THEN at' = "success" /\ UNCHANGED bootloader
        ELSE IF /\ Len(left) >= IF wipe THEN 1 ELSE 2
                /\ wipe \/ left[2] = "sum"
                /\ left[1] = "file"
                /\ Len(orig') >= min_size
        THEN at' = "search" /\ bootloader' = orig'
        ELSE at' = "failure" /\ UNCHANGED bootloader
     /\ UNCHANGED <<i, checked_count, checksum_loc>>

Scanning == at = "search" /\ i < bootloader_size - min_size + 1

\* Mutant: after a failed match the search goes on behind it.
MismatchSkip ==
  /\ Scanning /\ bootloader[i + 1] # Signature[checked_count + 1]
  /\ i' = i + 1
  /\ checked_count' = 0
  /\ UNCHANGED <<orig, file, bootloader, reset, checksum_loc, at>>

\* Mutant: it restarts at the first byte of the failed match.
MismatchStuck ==
  /\ Scanning /\ bootloader[i + 1] # Signature[checked_count + 1]
  /\ i' = IF checked_count > 0 THEN i - checked_count ELSE i + 1
  /\ checked_count' = 0
  /\ UNCHANGED <<orig, file, bootloader, reset, checksum_loc, at>>

\* Restart after the first byte of a failed match.
Mismatch ==
  /\ Scanning /\ bootloader[i + 1] # Signature[checked_count + 1]
  /\ i' = i - checked_count + 1
  /\ checked_count' = 0
  /\ UNCHANGED <<orig, file, bootloader, reset, checksum_loc, at>>

Match ==
  /\ Scanning /\ bootloader[i + 1] = Signature[checked_count + 1]
  /\ checked_count' = checked_count + 1
  /\ IF checked_count + 1 = siglen
     THEN checksum_loc' = i + 1 /\ at' = "found" /\ UNCHANGED i
     ELSE i' = i + 1 /\ UNCHANGED <<checksum_loc, at>>
  /\ UNCHANGED <<orig, file, bootloader, reset>>

NotFound ==
  /\ at = "search" /\ ~Scanning
  /\ at' = "failure"
  /\ UNCHANGED <<orig, file, bootloader, reset, i, checked_count, checksum_loc>>

\* What is behind the signature: the checksum, or as many '0'.
Behind(n) == IF reset THEN 0 ELSE Sum[n]

Patch ==
  /\ at = "found"
  /\ bootloader' = [n \in 1 .. bootloader_size |->
                      IF n \in (checksum_loc + 1) .. (checksum_loc + Len(Sum))
                      THEN Behind(n - checksum_loc) ELSE bootloader[n]]
  /\ at' = "store"
  /\ UNCHANGED <<orig, file, reset, i, checked_count, checksum_loc>>

\* The whole of the file is written; of a write that fails, some of the bytes.
Store ==
  /\ at = "store"
  /\ file' = bootloader
  /\ at' = "success"
  /\ UNCHANGED <<orig, bootloader, reset, i, checked_count, checksum_loc>>

StoreFails ==
  /\ at = "store"
  /\ \E n \in 0 .. (bootloader_size - 1) :
       file' = SubSeq(bootloader, 1, n) \o SubSeq(file, n + 1, bootloader_size)
  /\ at' = "failure"
  /\ UNCHANGED <<orig, bootloader, reset, i, checked_count, checksum_loc>>

enroll_config == Mismatch \/ Match \/ NotFound \/ Patch \/ Store
=================================================================================
