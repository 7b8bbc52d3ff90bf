\* Overlapping and adjacent stores under each of the options.
CONSTANTS
  NoAddr <- MCNoAddr
  Stores <- MCStores
  Flushes <- MCFirstLine
  Cleans <- MCLastLine
  MAX_ARRAY_NUM = 2
  check_flush = FALSE
  force_flush_align = FALSE
  flush_align_size = 4
  OptionSets <- MCOptionSets
  Contexts = {1}
  MAX_MULT_OVERWRITES = 2
  MaxListings = 1

SPECIFICATION OptionsSpec
INVARIANTS OptionsTypeOK OneStorePerByte
PROPERTIES OptionsExact ListingExact
\* A full register ends the program.
CHECK_DEADLOCK FALSE
