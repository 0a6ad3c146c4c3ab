CONSTANTS
  Top = 6
  block_size = 2
  Values = {0, 1, 2, 3, 9}
  Junk = 9
  Original <- MCOriginal
  Buffers <- MCBuffers
  UNINSTALL_DATA_MAX = 3
SPECIFICATION Spec
INVARIANTS
  CacheCoherent
  RestoresOriginal
PROPERTY UninstallEnds
