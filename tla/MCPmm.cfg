CONSTANTS
  PAGE_SIZE = 2
  MemMaps <- MCMemMaps
  ClientAddrs <- MCClientAddrs
  Counts <- MCCounts
SPECIFICATION Spec
INVARIANTS
  Accounting
  FreeSizeExact
PROPERTY ImplementsFrameAllocator
