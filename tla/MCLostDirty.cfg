\* A flush that splits a store of an older snippet.
CONSTANTS
  NoAddr <- MCNoAddr
  Stores <- MCStraddlingStores
  Flushes <- MCPartialFlushes
  Cleans <- MCNone
  MAX_ARRAY_NUM = 4
  check_flush = TRUE
  force_flush_align = FALSE
  flush_align_size = 2

SPECIFICATION Spec
PROPERTY FlushKeepsOthersDirty
