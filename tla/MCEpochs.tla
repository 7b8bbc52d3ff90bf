------------------------------ MODULE MCEpochs ------------------------------
(* Small instances of Epochs, with lines of two bytes.                     *)
EXTENDS Epochs

MCNoAddr == 15

MCFirstLine == {Region(0, 2)}
============================================================================
