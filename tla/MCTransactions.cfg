\* Threads share one transaction, nested, and one has another; all registers
\* can fill up.
CONSTANTS
  NoAddr <- MCNoAddr
  Threads <- MCThreads
  Started <- MCStarted
  Objects <- MCObjects
  Stores <- MCStores
  Ignored <- MCIgnored
  MaxNesting = 2
  MAX_OOT_STORES = 1
  MAX_CROSS_EVS = 1
  transactions_only = TRUE
  redundant_logging = TRUE

SPECIFICATION Spec
INVARIANTS TypeOK StoreExact NoStaleIds HasMember ExitsFull
PROPERTY TrackedExact
\* A full register ends the program.
CHECK_DEADLOCK FALSE
