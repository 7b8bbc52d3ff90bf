------------------------------ MODULE MCOrders ------------------------------
(* Small instances of Orders, with lines of two bytes.                     *)
EXTENDS Orders

MCNoAddr == 15

MCStores == {Region(0, 1), Region(2, 2)}

MCLines == {Region(0, 2), Region(2, 2)}

MCFirstLine == {Region(0, 2)}

\* The first object is to be persistent before the second is written.
MCPairs == {<<Region(0, 1), Region(2, 2)>>}
============================================================================
