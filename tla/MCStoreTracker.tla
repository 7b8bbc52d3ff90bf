--------------------------- MODULE MCStoreTracker ---------------------------
(* Small instances of StoreTracker, with lines of two bytes.               *)
EXTENDS StoreTracker

MCNoAddr == 15

MCNone == {}

\* Whole objects: part of the first line, all of the second.
MCWholeStores == {Region(0, 1), Region(2, 2)}

MCLines == {Region(0, 2), Region(2, 2)}

\* A line, or both lines at once as VALGRIND_PMC_DO_FLUSH can ask for.
MCFlushes == MCLines \cup {Region(0, 4)}

MCFirstLine == {Region(0, 2)}

\* A store across the first two of three lines, and one in the third.
MCStraddlingStores == {Region(1, 2), Region(4, 1)}

\* The first line, the last, and the last two: the snippet of the straddling
\* store can be partly flushed before the store is split.
MCPartialFlushes == {Region(0, 2), Region(4, 2), Region(2, 4)}

\* A store of four bytes across three lines, one in the third, and a range in
\* the middle of the former.
MCLongStores == {Region(1, 4), Region(4, 1)}

MCMiddle == {Region(2, 1)}

\* Requests that --flush-align turns into the second line, which is in the
\* middle of the long store, and all three.
MCUnalignedFlushes == {Region(2, 1), Region(0, 5)}
============================================================================
