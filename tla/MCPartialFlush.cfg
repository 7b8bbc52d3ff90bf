\* Stores across lines, so that flushes split them, and a SET_CLEAN inside one.
CONSTANTS
  NoAddr <- MCNoAddr
  Stores <- MCLongStores
  Flushes <- MCUnalignedFlushes
  Cleans <- MCMiddle
  MAX_ARRAY_NUM = 2
  check_flush = TRUE
  force_flush_align = TRUE
  flush_align_size = 2

SPECIFICATION Spec
INVARIANTS TypeOK SnippetsPartition
PROPERTIES FlushExact FenceRepairs CleanExact StatesAdvance
