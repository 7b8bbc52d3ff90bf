--------------------------- MODULE MCStoreOptions ---------------------------
(* Small instances of StoreOptions, with lines of four bytes.              *)
EXTENDS StoreOptions

MCNoAddr == 15

\* Stores that overlap in one line, and one next to them in the other.
MCStores == {Region(1, 2), Region(2, 2), Region(4, 1)}

MCFirstLine == {Region(0, 4)}

MCLastLine == {Region(4, 4)}

MCOptionSets == {{"mult-stores", "print-debug-detail"}, {"tree-reorganization"}}
============================================================================
