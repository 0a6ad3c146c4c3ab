CONSTANTS
  PAGE_SIZE = 2
  RADIX = 4
  Pool <- MCPool
  MemSize <- MCMemSize
  HHDM <- MCHHDM
  KernelPhys = 2
  KernelVirt <- MCKernelVirt
  Segments <- MCSegments
  Junk <- MCJunk
  Virts = {6, 7, 256}
  Physs <- MCPhyss
  Sizes = {0, 1}
  FlagSets = {{"P", "W", "U"}, {"P", "G"}, {"P"}}
  TlbPages = {6, 256}
  MaxSpaces = 2
  Pages <- MCPages
SPECIFICATION Spec
INVARIANTS
  FrameOwnership
  KernelAlwaysMapped
  KernelHalfShared
  TlbCoherent
PROPERTIES
  MapsAsAsked
  ImplementsAddressSpaces
