---------------------------- MODULE MCInstrument ----------------------------
(* A program of a few kinds of statements, on two lines of two bytes and   *)
(* one byte that is not persistent.                                        *)
EXTENDS Instrument

MCNoAddr == 15

MCMapped == {Region(0, 4)}

\* A vector has two words; floating-point data of four bytes are not supported.
MCParts == [I8 |-> 1, V128 |-> 2, F32 |-> 0]

StoreOf(tag, addr, size, type, stores) ==
  [tag |-> tag, addr |-> addr, size |-> size, type |-> type, stores |-> stores]

MCStoreStatements ==
  {StoreOf("Store", 0, 1, "I8", TRUE), StoreOf("Store", 2, 2, "V128", TRUE),
   StoreOf("Store", 3, 1, "F32", TRUE), StoreOf("Store", 6, 1, "I8", TRUE),
   StoreOf("Dirty", 3, 1, "I8", TRUE)}
  \cup {StoreOf(tag, 1, 1, "I8", ok) : tag \in {"StoreG", "CAS"}, ok \in BOOLEAN}
  \cup {StoreOf("LLSC", 0, 1, "I8", ok) : ok \in BOOLEAN}

MCFlushStatements ==
  {[tag |-> "Flush", addr |-> a, kind |-> k] : a \in {0, 3}, k \in {"Ifk_flush", "Ifk_flushopt"}}

MCStatements ==
  MCStoreStatements \cup MCFlushStatements
  \cup {[tag |-> "MBE", event |-> e] : e \in {"Imbe_SFence", "Imbe_CancelReservation"}}

MCStores == {Region(a, 1) : a \in 0 .. 3}

MCWriteBacks == {Region(st.addr, 2) : st \in MCFlushStatements}

MCNone == {}
============================================================================
