---------------------------- MODULE MappedBytes ----------------------------
(***************************************************************************)
(* What the mapping requests promise a client: the tool knows exactly the  *)
(* bytes registered as persistent and not removed since, however the       *)
(* requests overlap.                                                       *)
(***************************************************************************)
EXTENDS Regions

CONSTANT MapRequests

VARIABLE mapped

Init == mapped = {}

Register(r) == mapped' = mapped \cup Bytes(r)

Remove(r) == mapped' = mapped \ Bytes(r)

Next == \E r \in MapRequests : Register(r) \/ Remove(r)

Spec == Init /\ [][Next]_mapped
============================================================================
