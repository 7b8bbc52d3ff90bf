\* Programs of stores, write-backs and barriers, with and without --isa-rec and
\* weak_clflush.
CONSTANTS
  NoAddr <- MCNoAddr
  Stores <- MCStores
  Flushes <- MCWriteBacks
  Cleans <- MCNone
  MAX_ARRAY_NUM = 2
  check_flush = FALSE
  force_flush_align = TRUE
  flush_align_size = 2
  Statements <- MCStatements
  Mapped <- MCMapped
  Parts <- MCParts

SPECIFICATION InstrumentSpec
INVARIANT TraceExact
