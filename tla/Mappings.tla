------------------------------ MODULE Mappings ------------------------------
(***************************************************************************)
(* The registered persistent-memory mappings (pmem.pmem_mappings) and the  *)
(* bounding box kept beside them, by which is_pmem_access rejects most     *)
(* stores of the program without a tree search.                            *)
(***************************************************************************)
EXTENDS Regions

CONSTANTS
  MapRequests,  \* the regions clients register and remove
  Accesses      \* the regions the program stores to or asks about

ASSUME MappingsAssumption ==
  /\ NoAddr \in Nat
  /\ \A r \in MapRequests \cup Accesses : ProperRegion(r, NoAddr)

VARIABLES
  pmem_mappings,  \* set of disjoint regions
  box             \* {min,max}_add_pmem_mappings

mappingVars == <<pmem_mappings, box>>

MappingsInit == pmem_mappings = {} /\ box = EmptyBox

is_pmem_access(r) == Touches(box, r) /\ Contains(pmem_mappings, r)

REGISTER_PMEM_MAPPING(r) ==
  /\ box' = Widen(box, r)
  /\ pmem_mappings' = add_region(r, pmem_mappings)

\* The box after r was removed and S is left.  It shrinks only when r starts
\* or ends exactly at it.
Shrink(r, S) ==
  LET atMin == r.addr = box.min_add
      atMax == End(r) = box.max_add
  IN  IF S = {} /\ (atMin \/ atMax) THEN EmptyBox
      ELSE [min_add |-> IF atMin THEN BoxOf(S).min_add ELSE box.min_add,
            max_add |-> IF atMax THEN BoxOf(S).max_add ELSE box.max_add]

REMOVE_PMEM_MAPPING(r) ==
  /\ pmem_mappings' = remove_region(r, pmem_mappings)
  /\ box' = Shrink(r, pmem_mappings')

MappingsNext == \E r \in MapRequests : REGISTER_PMEM_MAPPING(r) \/ REMOVE_PMEM_MAPPING(r)

MappingsSpec == MappingsInit /\ [][MappingsNext]_mappingVars
----------------------------------------------------------------------------
\* Type invariant: proper regions, disjoint as the order of the tree needs and
\* not even adjacent, and addresses in the box.
MappingsTypeOK ==
  /\ RegionSet(pmem_mappings, NoAddr)
  /\ box \in [min_add : 0 .. NoAddr, max_add : 0 .. NoAddr]

\* The inductive invariant behind the properties: the box, which removals do
\* not always shrink, spans every mapping.
BoxSpans ==
  /\ MappingsTypeOK
  /\ ProperBox(box, NoAddr)
  /\ \A e \in pmem_mappings : Spans(box, e)

\* The pre-filter of is_pmem_access never hides a store to persistent memory
\* and never lets another one through: whatever sequence of registrations and
\* removals moved the box, the answer is whether the store touches a mapped
\* byte.
FilterExact ==
  \A r \in Accesses :
    is_pmem_access(r) <=> Bytes(r) \cap BytesOf(pmem_mappings) # {}

\* CHECK_IS_PMEM_MAPPING answers 1 exactly for ranges that are mapped to the
\* last byte, also when several registrations together cover them, 0 exactly
\* for ranges with no mapped byte, and 2 for the others.
CheckExact ==
  \A r \in Accesses :
    LET mapped == BytesOf(pmem_mappings)
    IN  is_in_mapping_set(r, pmem_mappings) =
          IF Bytes(r) \cap mapped = {} THEN 0
          ELSE IF Bytes(r) \subseteq mapped THEN 1 ELSE 2

Bytewise == INSTANCE MappedBytes WITH mapped <- BytesOf(pmem_mappings)

\* The region set, merged, cut and filtered by a box, implements a set of
\* mapped bytes.
ImplementsMappedBytes == Bytewise!Spec

\* The step that RequestsExact allows.
ExactStep ==
  \A r \in MapRequests :
    /\ REGISTER_PMEM_MAPPING(r) => Bytewise!Register(r)
    /\ REMOVE_PMEM_MAPPING(r) => Bytewise!Remove(r)

\* REGISTER_PMEM_MAPPING and REMOVE_PMEM_MAPPING add and remove exactly the
\* bytes that they name, and not those that another request could have named.
RequestsExact == [][ExactStep]_mappingVars
============================================================================
