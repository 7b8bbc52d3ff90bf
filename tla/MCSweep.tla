------------------------------ MODULE MCSweep -------------------------------
(* Instances of Sweep.                                                     *)
EXTENDS Sweep

\* Seven nodes make trees of four levels.
MCKeys == 1 .. 7

MCFlushed == {{}, {4}, {1, 2}, {5, 6, 7}, {1, 3, 5, 7}, MCKeys}
============================================================================
