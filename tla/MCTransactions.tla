--------------------------- MODULE MCTransactions ---------------------------
(* Small instances of Transactions.                                        *)
EXTENDS Transactions

MCNoAddr == 9

MCThreads == {1, 2}

\* The threads share transaction 1, and thread 2 has one of its own (START_TX).
MCStarted == {<<1, 1>>, <<2, 1>>, <<2, 2>>}

\* Objects of which one contains the other; the rest of it is adjacent to that.
MCObjects == {Region(1, 2), Region(2, 1)}

\* A store to all bytes of the objects, and one that can be excluded.
MCStores == {Region(1, 2), Region(3, 1)}

MCIgnored == {Region(3, 1)}
=============================================================================
