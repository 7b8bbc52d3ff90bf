---------------------------- MODULE PersistBytes ----------------------------
(***************************************************************************)
(* What store tracking promises, byte by byte: a store makes bytes dirty,  *)
(* a flush makes the dirty bytes it covers flushed, a fence makes flushed  *)
(* bytes persistent (forgotten), SET_CLEAN forgets bytes at once, and the  *)
(* statistics list what is not persistent.                                 *)
(*                                                                         *)
(* A byte can be both dirty and flushed: written again after its flush.    *)
(* `cleaned' holds bytes of stores that SET_CLEAN forgot but that are      *)
(* still physically in the array until the next fence: print_store_stats   *)
(* lists them, and a flush that finds only such stores may go unreported.  *)
(***************************************************************************)
EXTENDS Regions

CONSTANTS Stores, FlushRanges, Cleans, check_flush

VARIABLES dirty, flushed, cleaned, out

vars == <<dirty, flushed, cleaned, out>>

\* The output of an operation: the flush events it registered and the bytes
\* it listed as not persistent.
Quiet == [redundant |-> FALSE, superfluous |-> FALSE, reported |-> {}]

Init == dirty = {} /\ flushed = {} /\ cleaned = {} /\ out = Quiet

Store(r) ==
  /\ dirty' = dirty \cup Bytes(r)
  /\ out' = Quiet
  /\ UNCHANGED <<flushed, cleaned>>

Flush(f) ==
  /\ dirty' = dirty \ Bytes(f)
  /\ flushed' = flushed \cup (dirty \cap Bytes(f))
  /\ \E nothing \in BOOLEAN :
       /\ (dirty \cup flushed \cup cleaned) \cap Bytes(f) = {} => nothing
       /\ nothing => (dirty \cup flushed) \cap Bytes(f) = {}
       /\ out' = [Quiet EXCEPT
                    !.redundant = check_flush /\ flushed \cap Bytes(f) # {},
                    !.superfluous = check_flush /\ nothing]
  /\ UNCHANGED cleaned

Fence ==
  /\ flushed' = {} /\ cleaned' = {}
  /\ out' = Quiet
  /\ UNCHANGED dirty

SetClean(r) ==
  /\ dirty' = dirty \ Bytes(r)
  /\ flushed' = flushed \ Bytes(r)
  /\ cleaned \subseteq cleaned'
  /\ cleaned' \subseteq cleaned \cup ((dirty \cup flushed) \cap Bytes(r))
  /\ out' = Quiet

Stats ==
  /\ out' = [Quiet EXCEPT !.reported = dirty \cup flushed \cup cleaned]
  /\ UNCHANGED <<dirty, flushed, cleaned>>

Next ==
  \/ \E r \in Stores : Store(r)
  \/ \E f \in FlushRanges : Flush(f)
  \/ Fence
  \/ \E r \in Cleans : SetClean(r)
  \/ Stats

Spec == Init /\ [][Next]_vars
============================================================================
