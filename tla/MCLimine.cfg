SPECIFICATION Spec
CONSTANTS
  U32 <- MCU32
  U64 <- MCU64
  ImageSize <- MCImageSize
  Devices <- MCDevices
  Probes <- MCProbes
  ArgLists <- MCArgLists
  PartNumbers <- MCPartNumbers
  Files <- MCFiles
  Signature <- MCSignature
  Sum <- MCSum
  EnrollArgs <- MCEnrollArgs
  Commands <- MCCommands
INVARIANTS
  NothingLost
  TableKept
  Bootable
  EnrollsFirst
PROPERTY CommandEnds
CHECK_DEADLOCK FALSE
