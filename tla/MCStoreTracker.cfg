\* Stores, flushes and SET_CLEAN of whole objects.
CONSTANTS
  NoAddr <- MCNoAddr
  Stores <- MCWholeStores
  Flushes <- MCFlushes
  Cleans <- MCFirstLine
  MAX_ARRAY_NUM = 3
  check_flush = TRUE
  force_flush_align = FALSE
  flush_align_size = 2

SPECIFICATION Spec
INVARIANTS TypeOK SnippetsPartition
PROPERTIES ImplementsPersistBytes OperationsExact
