\* A region stored to twice, flushed once.
CONSTANTS
  NoAddr <- MCNoAddr
  Stores <- MCStores
  Flushes <- MCLines
  Cleans <- MCFirstLine
  MAX_ARRAY_NUM = 2
  check_flush = FALSE
  force_flush_align = FALSE
  flush_align_size = 2
  OrderPairs <- MCPairs
  MaxOrders = 1
  MaxTime = 2
  MaxStrands = 1
  lack_ordering_trand = TRUE

SPECIFICATION OrdersSpec
INVARIANT OrderSound
