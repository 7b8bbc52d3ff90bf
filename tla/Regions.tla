------------------------------ MODULE Regions ------------------------------
(***************************************************************************)
(* Byte ranges and sets of byte ranges: pmc_common.c.                      *)
(*                                                                         *)
(* A region is any record with fields addr and size (struct pmem_st), and  *)
(* covers the bytes addr .. addr+size-1.  A region set is an OSet ordered  *)
(* by cmp_pmem_st, under which overlapping regions are "equal": a set of   *)
(* pairwise disjoint regions.                                              *)
(***************************************************************************)
EXTENDS Integers, FiniteSetsExt

CONSTANT NoAddr   \* the Addr -1, both ends of an empty bounding box

Region(addr, size) == [addr |-> addr, size |-> size]

\* One past the last byte (the `..._max' locals of the code).
End(r) == r.addr + r.size

Bytes(r) == r.addr .. (End(r) - 1)

BytesOf(S) == UNION {Bytes(r) : r \in S}

\* cmp_pmem_st(lhs, rhs) == 0: neither is entirely before the other.
Overlap(lhs, rhs) == lhs.addr < End(rhs) /\ rhs.addr < End(lhs)

Within(lhs, rhs) == rhs.addr <= lhs.addr /\ End(lhs) <= End(rhs)

\* 0: disjoint, 1: lhs within rhs, 2: lhs sticks out of rhs.
check_overlap(lhs, rhs) ==
  IF ~Overlap(lhs, rhs) THEN 0 ELSE IF Within(lhs, rhs) THEN 1 ELSE 2

\* VG_(OSetGen_Contains) and VG_(OSetGen_Lookup) with cmp_pmem_st: the tree
\* search ends at some overlapping element.
Contains(S, r) == \E e \in S : Overlap(r, e)

Lookup(S, r) == CHOOSE e \in S : Overlap(r, e)

is_in_mapping_set(region, S) ==
  IF Contains(S, region) THEN check_overlap(region, Lookup(S, region)) ELSE 0

\* Mutant of Touching: the search entry is not widened.
TouchingNotWidened(region, S) == {e \in S : Overlap(region, e)}

\* The entries the loop of add_region finds with its widened search entry:
\* those that overlap the region or are adjacent to it.
Touching(region, S) ==
  {e \in S : Overlap(Region(region.addr - 1, region.size + 2), e)}

\* Mutant of add_region: the new entry is not widened.
AddForgetsOld(region, S) == (S \ Touching(region, S)) \cup {region}

\* The loop removes every touching entry and widens the new one to cover it.
add_region(region, S) ==
  LET old == Touching(region, S)
      all == old \cup {region}
      lo  == Min({e.addr : e \in all})
      hi  == Max({End(e) : e \in all})
  IN  (S \ old) \cup {Region(lo, hi - lo)}

\* What is left of entry e on either side of region.
LeftOf(e, region) ==
  IF e.addr < region.addr THEN {Region(e.addr, region.addr - e.addr)} ELSE {}

RightOf(e, region) ==
  IF End(e) > End(region) THEN {Region(End(region), End(e) - End(region))} ELSE {}

\* Mutant of remove_region: the part right of the region is lost.
RemoveLosesRight(region, S) ==
  UNION {IF Overlap(e, region) THEN LeftOf(e, region) ELSE {e} : e \in S}

\* remove_region and remove_region_mapping: each overlapping entry is cut
\* (the five cases of the ladder are the combinations of the two remainders).
remove_region(region, S) ==
  UNION {IF Overlap(e, region) THEN LeftOf(e, region) \cup RightOf(e, region)
                               ELSE {e} : e \in S}
----------------------------------------------------------------------------
(* Bounding boxes: records with fields min_add and max_add.  One is kept   *)
(* for the mappings, one for the tree of stores, one in each snippet.      *)

EmptyBox == [min_add |-> NoAddr, max_add |-> NoAddr]

\* Mutant of Widen: the upper end never moves once it is set.
WidenMinOnly(box, r) ==
  LET empty == box.min_add = NoAddr /\ box.max_add = NoAddr
  IN  [box EXCEPT
         !.min_add = IF empty \/ box.min_add > r.addr THEN r.addr ELSE box.min_add,
         !.max_add = IF empty THEN End(r) ELSE box.max_add]

\* The box grown to cover region r; the first region replaces the -1s.
Widen(box, r) ==
  LET empty == box.min_add = NoAddr /\ box.max_add = NoAddr
  IN  [box EXCEPT
         !.min_add = IF empty \/ box.min_add > r.addr THEN r.addr ELSE box.min_add,
         !.max_add = IF empty \/ box.max_add < End(r) THEN End(r) ELSE box.max_add]

\* The box of a set of regions built by widening the empty one.
BoxOf(S) ==
  IF S = {} THEN EmptyBox
  ELSE [min_add |-> Min({e.addr : e \in S}), max_add |-> Max({End(e) : e \in S})]

\* The pre-filter in front of every search: ends compared inclusively.
Touches(box, r) == r.addr <= box.max_add /\ End(r) >= box.min_add
----------------------------------------------------------------------------
(* What the code keeps true of region sets and boxes.                      *)

\* A region set as the code keeps it, below an address N: proper regions of
\* which no two overlap or are adjacent (add_region merges those).
ProperRegion(r, N) ==
  /\ r = Region(r.addr, r.size)
  /\ r.addr \in Nat \ {0} /\ r.size \in Nat \ {0}
  /\ End(r) < N

Apart(r, s) == End(r) < s.addr \/ End(s) < r.addr

RegionSet(S, N) ==
  /\ \A r \in S : ProperRegion(r, N)
  /\ \A r, s \in S : r = s \/ Apart(r, s)

\* A bounding box that is empty or a pair of addresses below N.
ProperBox(b, N) ==
  \/ b.min_add = N /\ b.max_add = N
  \/ b.min_add \in Nat /\ b.max_add \in Nat /\ b.min_add < N /\ b.max_add < N

\* Box b reaches from the start to the end of region e.
Spans(b, e) == b.min_add <= e.addr /\ End(e) <= b.max_add
============================================================================
