----------------------------- MODULE OrderedSet -----------------------------
(***************************************************************************)
(* What an OSet promises its users (m_oset.c): a set of keys and one       *)
(* iterator that yields them in ascending order.  Insertions and removals  *)
(* leave the iterator exhausted, until it is reset.                        *)
(***************************************************************************)
EXTENDS FiniteSetsExt, Naturals

CONSTANTS Keys, NULL

VARIABLES
  elems,   \* the keys in the set
  rest,    \* the keys that the iterator has still to yield
  result   \* what the last call returned

Insert(k) ==
  /\ k \notin elems
  /\ elems' = elems \cup {k} /\ rest' = {} /\ result' = NULL

\* Removing a key that is not there changes nothing, not even the iterator.
Remove(k) ==
  /\ elems' = elems \ {k}
  /\ rest' = IF k \in elems THEN {} ELSE rest
  /\ result' = IF k \in elems THEN k ELSE NULL

ResetIter == rest' = elems /\ result' = NULL /\ UNCHANGED elems

ResetIterAt(k) == rest' = {e \in elems : e >= k} /\ result' = NULL /\ UNCHANGED elems

Next ==
  /\ result' = IF rest = {} THEN NULL ELSE Min(rest)
  /\ rest' = rest \ {result'}
  /\ UNCHANGED elems

OrderedSetInit == elems = {} /\ rest = {} /\ result = NULL

OrderedSetNext ==
  \/ \E k \in Keys : Insert(k) \/ Remove(k) \/ ResetIterAt(k)
  \/ ResetIter
  \/ Next

OrderedSetSpec == OrderedSetInit /\ [][OrderedSetNext]_<<elems, rest, result>>
============================================================================
