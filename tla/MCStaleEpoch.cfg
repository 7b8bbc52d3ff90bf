\* A store made outside epochs, into a slot that one has used.
CONSTANTS
  NoAddr <- MCNoAddr
  Stores <- MCFirstLine
  Flushes <- MCFirstLine
  Cleans <- MCFirstLine
  MAX_ARRAY_NUM = 2
  check_flush = FALSE
  force_flush_align = FALSE
  flush_align_size = 2
  TxIds = {1, 2}
  Threads = {1}
  MaxNesting = 2
  MaxFences = 2
  MaxFenceEvents = 1
  MAX_REDUNDANT_FENCE = 3

SPECIFICATION EpochsSpec
PROPERTY EndReportsOwn
