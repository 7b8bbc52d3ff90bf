--------------------------- MODULE RegionsProofs ---------------------------
(* Proofs about region sets and about the two components that keep them,   *)
(* the mappings and the transactions, for all requests, threads and        *)
(* regions.                                                                *)
EXTENDS Mappings, Transactions, WellFoundedInduction, FiniteSetTheorems, TLAPS

\* Zenon is quicker on most steps and SMT does arithmetic.
USE ZenonT(3), SMTT(15), ZenonT(20)
----------------------------------------------------------------------------
\* Min of a non-empty set of naturals is its least element.
LEMMA MinOfNats ==
  ASSUME NEW S, S \subseteq Nat, S # {}
  PROVE  Min(S) \in S /\ \A y \in S : Min(S) <= y
<1> DEFINE less == {ss \in Nat \X Nat : ss[1] < ss[2]}
<1>1. IsWellFoundedOn(less, Nat)
  BY NatLessThanWellFounded, Zenon DEF OpToRel
<1>2. \E x \in S : \A y \in S : ~(<<y, x>> \in less)
  <2> HIDE DEF less
  <2> QED
    BY <1>1, WFMin
<1>3. \E x \in S : \A y \in S : x <= y
  <2>1. PICK x \in S : \A y \in S : ~(<<y, x>> \in less)
    BY <1>2
  <2>2. \A y \in S : <<y, x>> \in Nat \X Nat /\ x \in Nat /\ y \in Nat
    OBVIOUS
  <2>3. \A y \in S : ~(<<y, x>>[1] < <<y, x>>[2])
    BY <2>1, <2>2
  <2>4. \A y \in S : ~(y < x)
    BY <2>3
  <2> QED
    BY <2>2, <2>4
<1> QED
  BY <1>3 DEF Min

\* Max of a non-empty bounded set of naturals is its greatest element.
LEMMA MaxOfNats ==
  ASSUME NEW b \in Nat, NEW S, S \subseteq 0 .. b, S # {}
  PROVE  Max(S) \in S /\ \A y \in S : Max(S) >= y
<1> DEFINE T == {b - x : x \in S}
<1>1. T \subseteq Nat /\ T # {}
  <2>1. \A x \in S : x \in Nat /\ b - x \in Nat
    OBVIOUS
  <2> QED
    BY <2>1
<1>2. Min(T) \in T /\ \A y \in T : Min(T) <= y
  BY <1>1, MinOfNats
<1>3. PICK m \in S : Min(T) = b - m
  BY <1>2
<1>4. \A y \in S : m >= y
  <2> TAKE y \in S
  <2>1. b - y \in T
    OBVIOUS
  <2>2. b - m <= b - y
    BY <1>2, <1>3, <2>1
  <2>3. m \in Nat /\ y \in Nat
    OBVIOUS
  <2> QED
    BY <2>2, <2>3
<1> QED
  BY <1>4 DEF Max
----------------------------------------------------------------------------
\* add_region adds exactly the bytes of the region and keeps a region set one,
\* however many entries it merges.
LEMMA AddRegion ==
  ASSUME NEW N \in Nat, NEW S, RegionSet(S, N), NEW r, ProperRegion(r, N)
  PROVE  /\ RegionSet(add_region(r, S), N)
         /\ BytesOf(add_region(r, S)) = BytesOf(S) \cup Bytes(r)
<1> DEFINE old == Touching(r, S)
           all == old \cup {r}
           lo  == Min({e.addr : e \in all})
           hi  == Max({End(e) : e \in all})
           new == Region(lo, hi - lo)
<1>1. add_region(r, S) = (S \ old) \cup {new}
  BY DEF add_region
<1>2. \A e \in all : ProperRegion(e, N) /\ e.addr \in Nat /\ End(e) \in 0 .. N
  BY DEF RegionSet, Touching, ProperRegion, End
<1>3. PICK a \in all : lo = a.addr /\ \A e \in all : lo <= e.addr
  <2>1. {e.addr : e \in all} \subseteq Nat /\ {e.addr : e \in all} # {}
    BY <1>2
  <2> QED
    BY <2>1, MinOfNats
<1>4. PICK z \in all : hi = End(z) /\ \A e \in all : hi >= End(e)
  <2> DEFINE ends == {End(e) : e \in all}
  <2>1. ends \subseteq 0 .. N /\ ends # {}
    BY <1>2
  <2>2. Max(ends) \in ends /\ \A y \in ends : Max(ends) >= y
    BY <2>1, MaxOfNats
  <2> QED
    BY <2>2
<1> HIDE DEF lo, hi
<1>5. /\ a.addr \in Nat \ {0} /\ a.size \in Nat \ {0}
      /\ z.addr \in Nat \ {0} /\ z.size \in Nat \ {0} /\ End(z) < N
      /\ r.addr \in Nat \ {0} /\ r.size \in Nat \ {0}
  BY <1>2 DEF ProperRegion
<1>6. new.addr = a.addr /\ End(new) = End(z) /\ a.addr < End(z)
  BY <1>3, <1>4, <1>5 DEF Region, End
<1>7. ProperRegion(new, N)
  BY <1>3, <1>4, <1>5, <1>6 DEF ProperRegion, Region, End
<1>8. \A e \in old : /\ e.addr \in Nat /\ e.size \in Nat \ {0}
                     /\ e.addr <= End(r) /\ r.addr <= End(e)
  BY <1>2, <1>5 DEF Touching, Overlap, Region, End, ProperRegion
<1>9. \A g \in S \ old : /\ ProperRegion(g, N) /\ g.addr \in Nat /\ g.size \in Nat \ {0}
                         /\ Apart(g, r)
  BY <1>5 DEF Touching, Overlap, Region, End, ProperRegion, Apart, RegionSet
<1>10. \A g \in S \ old : Apart(g, new)
  <2> SUFFICES ASSUME NEW g \in S \ old
               PROVE  Apart(g, new)
    OBVIOUS
  <2>1. \A e \in all : Apart(g, e)
    BY <1>9 DEF RegionSet, Touching, Apart
  <2>2. CASE End(g) < r.addr
    BY <2>1, <2>2, <1>3, <1>5, <1>6, <1>8, <1>9 DEF Apart, End
  <2>3. CASE End(r) < g.addr
    BY <2>1, <2>3, <1>4, <1>5, <1>6, <1>8, <1>9 DEF Apart, End
  <2> QED
    BY <2>2, <2>3, <1>9 DEF Apart
<1>11. RegionSet(add_region(r, S), N)
  BY <1>1, <1>7, <1>9, <1>10 DEF RegionSet, Apart
<1>12. Bytes(new) = BytesOf(old) \cup Bytes(r)
  <2>1. \A b \in Bytes(new) : b \in BytesOf(old) \cup Bytes(r)
    <3> SUFFICES ASSUME NEW b \in Bytes(new)
                 PROVE  b \in Bytes(a) \cup Bytes(z) \cup Bytes(r)
      BY DEF BytesOf
    <3> QED
      BY <1>5, <1>6, <1>8 DEF Bytes, End
  <2>2. \A e \in all : \A b \in Bytes(e) : b \in Bytes(new)
    BY <1>2, <1>3, <1>4, <1>5, <1>6, <1>8 DEF Bytes, End
  <2> QED
    BY <2>1, <2>2 DEF BytesOf
<1>13. BytesOf(add_region(r, S)) = BytesOf(S \ old) \cup Bytes(new)
  BY <1>1 DEF BytesOf
<1>14. BytesOf(S) = BytesOf(S \ old) \cup BytesOf(old)
  BY DEF BytesOf, Touching
<1> QED
  BY <1>11, <1>12, <1>13, <1>14
----------------------------------------------------------------------------
\* What remove_region leaves of an overlapping entry: at most one piece on
\* either side of the region, together the other bytes of the entry.
LEMMA Pieces ==
  ASSUME NEW N \in Nat, NEW e, ProperRegion(e, N), NEW r, ProperRegion(r, N),
         Overlap(e, r)
  PROVE  LET P == LeftOf(e, r) \cup RightOf(e, r)
         IN  /\ \A p \in P : /\ ProperRegion(p, N)
                             /\ e.addr <= p.addr /\ End(p) <= End(e)
             /\ \A p, q \in P : p = q \/ Apart(p, q)
             /\ BytesOf(P) = Bytes(e) \ Bytes(r)
<1> DEFINE P == LeftOf(e, r) \cup RightOf(e, r)
           left == Region(e.addr, r.addr - e.addr)
           right == Region(End(r), End(e) - End(r))
<1>1. /\ e.addr \in Nat \ {0} /\ e.size \in Nat \ {0} /\ End(e) < N
      /\ r.addr \in Nat \ {0} /\ r.size \in Nat \ {0}
      /\ e.addr < End(r) /\ r.addr < End(e)
  BY DEF ProperRegion, Overlap
<1>2. \A p : p \in P <=> \/ e.addr < r.addr /\ p = left
                         \/ End(e) > End(r) /\ p = right
  BY DEF LeftOf, RightOf
<1>3. /\ left.addr = e.addr /\ left.size = r.addr - e.addr
      /\ End(left) = r.addr /\ left = Region(left.addr, left.size)
      /\ right.addr = End(r) /\ right.size = End(e) - End(r)
      /\ End(right) = End(e) /\ right = Region(right.addr, right.size)
  BY <1>1 DEF Region, End
<1> HIDE DEF P, left, right
<1>4. \A p \in P : ProperRegion(p, N) /\ e.addr <= p.addr /\ End(p) <= End(e)
  BY <1>1, <1>2, <1>3 DEF ProperRegion, End
<1>5. \A p, q \in P : p = q \/ Apart(p, q)
  BY <1>1, <1>2, <1>3 DEF Apart, End
<1>6. \A b : b \in BytesOf(P) <=> \/ e.addr < r.addr /\ b \in Bytes(left)
                                  \/ End(e) > End(r) /\ b \in Bytes(right)
  BY <1>2 DEF BytesOf
<1>7. \A b : b \in BytesOf(P) <=> b \in Bytes(e) \ Bytes(r)
  BY <1>1, <1>3, <1>6 DEF Bytes, End
<1> QED
  BY <1>4, <1>5, <1>7 DEF P

\* remove_region removes exactly the bytes of the region and keeps a region
\* set one; every entry it leaves lies in an entry that was there.
LEMMA RemoveRegion ==
  ASSUME NEW N \in Nat, NEW S, RegionSet(S, N), NEW r, ProperRegion(r, N)
  PROVE  /\ RegionSet(remove_region(r, S), N)
         /\ BytesOf(remove_region(r, S)) = BytesOf(S) \ Bytes(r)
         /\ \A p \in remove_region(r, S) : \E e \in S : e.addr <= p.addr /\ End(p) <= End(e)
<1> DEFINE rest(e) == IF Overlap(e, r) THEN LeftOf(e, r) \cup RightOf(e, r) ELSE {e}
           T == remove_region(r, S)
<1>1. \A p : p \in T <=> \E e \in S : p \in rest(e)
  BY DEF remove_region
<1>2. \A e \in S : ProperRegion(e, N) /\ e.addr \in Nat /\ e.size \in Nat /\ End(e) \in Nat
  BY DEF RegionSet, ProperRegion, End
<1>3. ASSUME NEW e \in S
      PROVE  /\ \A p \in rest(e) : ProperRegion(p, N) /\ e.addr <= p.addr /\ End(p) <= End(e)
             /\ \A p, q \in rest(e) : p = q \/ Apart(p, q)
             /\ BytesOf(rest(e)) = Bytes(e) \ Bytes(r)
  <2>1. CASE Overlap(e, r)
    BY <1>2, <2>1, Pieces
  <2>2. CASE ~Overlap(e, r)
    <3>1. BytesOf({e}) = Bytes(e)
      BY DEF BytesOf
    <3>2. Bytes(e) \ Bytes(r) = Bytes(e)
      BY <1>2, <2>2 DEF Overlap, Bytes, End, ProperRegion
    <3> QED
      BY <1>2, <2>2, <3>1, <3>2
  <2> QED
    BY <2>1, <2>2
<1> HIDE DEF rest, T
<1>4. \A p \in T : \E e \in S : e.addr <= p.addr /\ End(p) <= End(e)
  BY <1>1, <1>3
<1>5. RegionSet(T, N)
  <2>1. \A p \in T : ProperRegion(p, N)
    BY <1>1, <1>3
  <2>2. ASSUME NEW p \in T, NEW q \in T
        PROVE  p = q \/ Apart(p, q)
    <3>1. PICK e \in S : p \in rest(e)
      BY <1>1
    <3>2. PICK f \in S : q \in rest(f)
      BY <1>1
    <3>3. CASE e = f
      BY <1>3, <3>1, <3>2, <3>3
    <3>4. CASE Apart(e, f)
      <4>1. /\ p.addr \in Nat /\ End(p) \in Nat /\ e.addr <= p.addr /\ End(p) <= End(e)
            /\ q.addr \in Nat /\ End(q) \in Nat /\ f.addr <= q.addr /\ End(q) <= End(f)
        BY <1>3, <2>1, <3>1, <3>2 DEF ProperRegion, End
      <4> QED
        BY <1>2, <3>4, <4>1 DEF Apart
    <3> QED
      BY <3>3, <3>4 DEF RegionSet
  <2> QED
    BY <2>1, <2>2 DEF RegionSet
<1>6. BytesOf(T) = BytesOf(S) \ Bytes(r)
  <2>1. \A b : b \in BytesOf(T) <=> \E e \in S : b \in BytesOf(rest(e))
    BY <1>1 DEF BytesOf
  <2>2. \A b : b \in BytesOf(S) <=> \E e \in S : b \in Bytes(e)
    BY DEF BytesOf
  <2> QED
    BY <1>3, <2>1, <2>2
<1> QED
  BY <1>4, <1>5, <1>6 DEF T
----------------------------------------------------------------------------
\* Two regions overlap when they share a byte.
LEMMA OverlapIsSharing ==
  ASSUME NEW N \in Nat, NEW e, ProperRegion(e, N), NEW r, ProperRegion(r, N)
  PROVE  Overlap(r, e) <=> Bytes(r) \cap Bytes(e) # {}
<1>1. /\ e.addr \in Nat /\ e.size \in Nat \ {0}
      /\ r.addr \in Nat /\ r.size \in Nat \ {0}
  BY DEF ProperRegion
<1>2. CASE Overlap(r, e)
  <2>1. IF r.addr < e.addr THEN e.addr \in Bytes(r) \cap Bytes(e)
                           ELSE r.addr \in Bytes(r) \cap Bytes(e)
    BY <1>1, <1>2 DEF Overlap, Bytes, End
  <2> QED
    BY <1>2, <2>1
<1>3. CASE ~Overlap(r, e)
  <2>1. \A b : ~(b \in Bytes(r) /\ b \in Bytes(e))
    BY <1>1, <1>3 DEF Overlap, Bytes, End
  <2> QED
    BY <1>3, <2>1
<1> QED
  BY <1>2, <1>3

\* is_in_mapping_set tells none, all and some of the bytes of a region apart:
\* the regions of a set are not even adjacent, so that a region all of whose
\* bytes are covered lies in one of them.
LEMMA IsInMappingSet ==
  ASSUME NEW N \in Nat, NEW S, RegionSet(S, N), NEW r, ProperRegion(r, N)
  PROVE  is_in_mapping_set(r, S) = IF Bytes(r) \cap BytesOf(S) = {} THEN 0
                                   ELSE IF Bytes(r) \subseteq BytesOf(S) THEN 1 ELSE 2
<1>1. /\ r.addr \in Nat /\ r.size \in Nat \ {0}
      /\ \A e \in S : e.addr \in Nat /\ e.size \in Nat \ {0} /\ ProperRegion(e, N)
  BY DEF ProperRegion, RegionSet
<1>2. Contains(S, r) <=> Bytes(r) \cap BytesOf(S) # {}
  BY <1>1, OverlapIsSharing DEF Contains, BytesOf
<1>3. CASE ~Contains(S, r)
  BY <1>2, <1>3 DEF is_in_mapping_set
<1>4. CASE Contains(S, r)
  <2> DEFINE e == Lookup(S, r)
  <2>1. e \in S /\ Overlap(r, e)
    BY <1>4 DEF Lookup, Contains
  <2>2. is_in_mapping_set(r, S) = IF Within(r, e) THEN 1 ELSE 2
    BY <1>4, <2>1 DEF is_in_mapping_set, check_overlap
  <2> HIDE DEF e
  <2>3. ASSUME Within(r, e)
        PROVE  Bytes(r) \subseteq BytesOf(S)
    <3>1. Bytes(r) \subseteq Bytes(e)
      BY <1>1, <2>1, <2>3 DEF Within, Bytes, End
    <3> QED
      BY <2>1, <3>1 DEF BytesOf
  <2>4. ASSUME ~Within(r, e)
        PROVE  ~(Bytes(r) \subseteq BytesOf(S))
    \* The byte next to e, on a side where r sticks out, is in no region.
    <3>1. CASE r.addr < e.addr
      <4>1. e.addr - 1 \in Bytes(r)
        BY <1>1, <2>1, <3>1 DEF Bytes, Overlap, End
      <4>2. \A f \in S : e.addr - 1 \notin Bytes(f)
        BY <1>1, <2>1 DEF RegionSet, Apart, Bytes, End
      <4> QED
        BY <4>1, <4>2 DEF BytesOf
    <3>2. CASE End(e) < End(r)
      <4>1. End(e) \in Bytes(r)
        BY <1>1, <2>1, <3>2 DEF Bytes, Overlap, End
      <4>2. \A f \in S : End(e) \notin Bytes(f)
        BY <1>1, <2>1 DEF RegionSet, Apart, Bytes, End
      <4> QED
        BY <4>1, <4>2 DEF BytesOf
    <3> QED
      BY <1>1, <2>1, <2>4, <3>1, <3>2 DEF Within, End
  <2> QED
    BY <1>2, <1>4, <2>2, <2>3, <2>4
<1> QED
  BY <1>3, <1>4
----------------------------------------------------------------------------
\* Widen makes a box span one more region, and no less than before.
LEMMA WidenSpans ==
  ASSUME NoAddr \in Nat, NEW b, ProperBox(b, NoAddr),
         "min_add" \in DOMAIN b, "max_add" \in DOMAIN b,
         NEW r, r.addr \in Nat, r.size \in Nat, End(r) < NoAddr
  PROVE  /\ ProperBox(Widen(b, r), NoAddr)
         /\ Spans(Widen(b, r), r)
         /\ \A e : e.addr \in Nat /\ End(e) \in Nat /\ End(e) < NoAddr /\ e.addr < NoAddr /\ Spans(b, e)
                   => Spans(Widen(b, r), e)
  BY DEF ProperBox, Widen, Spans, End

\* The box computed from scratch spans every region of the set.
LEMMA BoxOfSpans ==
  ASSUME NoAddr \in Nat, NEW S,
         \A e \in S : e.addr \in Nat /\ e.addr < NoAddr /\ End(e) \in Nat /\ End(e) < NoAddr
  PROVE  /\ BoxOf(S) \in [min_add : 0 .. NoAddr, max_add : 0 .. NoAddr]
         /\ ProperBox(BoxOf(S), NoAddr)
         /\ S = {} <=> BoxOf(S) = EmptyBox
         /\ \A e \in S : Spans(BoxOf(S), e)
<1>1. CASE S = {}
  BY <1>1 DEF BoxOf, EmptyBox, ProperBox
<1>2. CASE S # {}
  <2> DEFINE starts == {e.addr : e \in S}
             ends == {End(e) : e \in S}
  <2>1. starts \subseteq Nat /\ starts # {} /\ ends \subseteq 0 .. NoAddr /\ ends # {}
    BY <1>2
  <2>2. Min(starts) \in starts /\ \A y \in starts : Min(starts) <= y
    BY <2>1, MinOfNats
  <2>3. Max(ends) \in ends /\ \A y \in ends : Max(ends) >= y
    BY <2>1, MaxOfNats
  <2>4. BoxOf(S) = [min_add |-> Min(starts), max_add |-> Max(ends)]
    BY <1>2 DEF BoxOf
  <2> HIDE DEF starts, ends
  <2>5. /\ Min(starts) \in Nat /\ Min(starts) < NoAddr
        /\ Max(ends) \in Nat /\ Max(ends) < NoAddr
    BY <2>2, <2>3 DEF starts, ends
  <2>6. \A e \in S : e.addr \in starts /\ End(e) \in ends
    BY DEF starts, ends
  <2> QED
    BY <1>2, <2>2, <2>3, <2>4, <2>5, <2>6 DEF ProperBox, Spans, EmptyBox
<1> QED
  BY <1>1, <1>2
----------------------------------------------------------------------------
(* The registered mappings.                                                *)

\* BoxSpans holds initially.
LEMMA InitBoxSpans == MappingsInit => BoxSpans
  BY MappingsAssumption
  DEF MappingsInit, BoxSpans, MappingsTypeOK, RegionSet, EmptyBox, ProperBox

\* Registering keeps BoxSpans: the box is widened before entries are merged.
LEMMA RegisterBoxSpans ==
  ASSUME BoxSpans, NEW r \in MapRequests, REGISTER_PMEM_MAPPING(r)
  PROVE  BoxSpans'
<1>1. NoAddr \in Nat /\ ProperRegion(r, NoAddr) /\ RegionSet(pmem_mappings, NoAddr)
  BY MappingsAssumption DEF BoxSpans, MappingsTypeOK
<1>2. /\ pmem_mappings' = add_region(r, pmem_mappings)
      /\ box' = Widen(box, r)
  BY DEF REGISTER_PMEM_MAPPING
<1>3. /\ RegionSet(pmem_mappings', NoAddr)
      /\ BytesOf(pmem_mappings') = BytesOf(pmem_mappings) \cup Bytes(r)
  BY <1>1, <1>2, AddRegion
<1>4. /\ r.addr \in Nat /\ r.size \in Nat /\ End(r) < NoAddr /\ End(r) \in Nat
      /\ box \in [min_add : 0 .. NoAddr, max_add : 0 .. NoAddr]
  BY <1>1 DEF ProperRegion, BoxSpans, MappingsTypeOK, End
<1>5. /\ ProperBox(box', NoAddr)
      /\ Spans(box', r)
      /\ \A e : e.addr \in Nat /\ End(e) \in Nat /\ End(e) < NoAddr /\ e.addr < NoAddr /\ Spans(box, e)
                => Spans(box', e)
  BY <1>1, <1>2, <1>4, WidenSpans DEF BoxSpans
<1>6. box' \in [min_add : 0 .. NoAddr, max_add : 0 .. NoAddr]
  <2> DEFINE empty == box.min_add = NoAddr /\ box.max_add = NoAddr
             lo == IF empty \/ box.min_add > r.addr THEN r.addr ELSE box.min_add
             hi == IF empty \/ box.max_add < End(r) THEN End(r) ELSE box.max_add
  <2>1. r.addr \in 0 .. NoAddr /\ End(r) \in 0 .. NoAddr
    BY <1>1, <1>4 DEF End
  <2>2. lo \in 0 .. NoAddr /\ hi \in 0 .. NoAddr
    BY <1>4, <2>1
  <2>3. box' = [box EXCEPT !.min_add = lo, !.max_add = hi]
    BY <1>2 DEF Widen
  <2> HIDE DEF lo, hi
  <2> QED
    BY <1>4, <2>2, <2>3
<1>7. ASSUME NEW e \in pmem_mappings'
      PROVE  Spans(box', e)
  <2>1. e.addr \in Nat /\ e.size \in Nat \ {0} /\ End(e) < NoAddr
    BY <1>3 DEF RegionSet, ProperRegion
  <2>2. \A b \in BytesOf(pmem_mappings') : box'.min_add <= b /\ b + 1 <= box'.max_add
    <3>1. \A d \in pmem_mappings : /\ d.addr \in Nat /\ d.addr < NoAddr /\ d.size \in Nat
                                   /\ End(d) \in Nat /\ End(d) < NoAddr /\ Spans(box', d)
      BY <1>1, <1>5 DEF BoxSpans, RegionSet, ProperRegion, End
    <3> QED
      BY <1>3, <1>4, <1>5, <1>6, <3>1 DEF BytesOf, Bytes, Spans
  <2>3. e.addr \in Bytes(e) /\ End(e) - 1 \in Bytes(e)
    BY <2>1 DEF Bytes, End
  <2>4. e.addr \in BytesOf(pmem_mappings') /\ End(e) - 1 \in BytesOf(pmem_mappings')
    BY <2>3 DEF BytesOf
  <2> QED
    BY <1>6, <2>1, <2>2, <2>4 DEF Spans, End
<1> QED
  BY <1>3, <1>5, <1>6, <1>7 DEF BoxSpans, MappingsTypeOK

\* Removing keeps BoxSpans: the box moves only to the ends of what is left.
LEMMA RemoveBoxSpans ==
  ASSUME BoxSpans, NEW r \in MapRequests, REMOVE_PMEM_MAPPING(r)
  PROVE  BoxSpans'
<1> DEFINE S == pmem_mappings'
<1>1. NoAddr \in Nat /\ ProperRegion(r, NoAddr) /\ RegionSet(pmem_mappings, NoAddr)
  BY MappingsAssumption DEF BoxSpans, MappingsTypeOK
<1>2. S = remove_region(r, pmem_mappings) /\ box' = Shrink(r, S)
  BY DEF REMOVE_PMEM_MAPPING
<1>3. /\ RegionSet(S, NoAddr)
      /\ \A p \in S : \E e \in pmem_mappings : e.addr <= p.addr /\ End(p) <= End(e)
  BY <1>1, <1>2, RemoveRegion
<1>4. \A p \in S : /\ p.addr \in Nat /\ p.addr < NoAddr
                   /\ p.size \in Nat \ {0} /\ End(p) \in Nat /\ End(p) < NoAddr
  BY <1>1, <1>3 DEF RegionSet, ProperRegion, End
<1>5. \A e \in pmem_mappings : e.addr \in Nat /\ End(e) \in Nat /\ Spans(box, e)
  BY <1>1 DEF BoxSpans, RegionSet, ProperRegion, End
<1>6. box \in [min_add : 0 .. NoAddr, max_add : 0 .. NoAddr] /\ ProperBox(box, NoAddr)
  BY DEF BoxSpans, MappingsTypeOK
<1>7. \A p \in S : Spans(box, p)
  BY <1>3, <1>4, <1>5, <1>6 DEF Spans
<1>8. /\ BoxOf(S) \in [min_add : 0 .. NoAddr, max_add : 0 .. NoAddr]
      /\ ProperBox(BoxOf(S), NoAddr)
      /\ S = {} <=> BoxOf(S) = EmptyBox
      /\ \A p \in S : Spans(BoxOf(S), p)
  BY <1>1, <1>4, BoxOfSpans
<1> HIDE DEF S
<1>9. CASE S = {}
  BY <1>1, <1>2, <1>3, <1>6, <1>8, <1>9
  DEF BoxSpans, MappingsTypeOK, Shrink, EmptyBox, ProperBox, S
<1>10. CASE S # {}
  <2>1. PICK p \in S : TRUE
    BY <1>10
  <2>2. box.min_add < NoAddr /\ box.max_add < NoAddr
    BY <1>1, <1>4, <1>6, <1>7, <2>1 DEF ProperBox, Spans
  <2>3. BoxOf(S).min_add < NoAddr /\ BoxOf(S).max_add < NoAddr
    BY <1>1, <1>4, <1>8, <2>1 DEF ProperBox, Spans
  <2>4. box' = [min_add |-> IF r.addr = box.min_add THEN BoxOf(S).min_add ELSE box.min_add,
                max_add |-> IF End(r) = box.max_add THEN BoxOf(S).max_add ELSE box.max_add]
    BY <1>2, <1>10 DEF Shrink
  <2> QED
    BY <1>3, <1>6, <1>7, <1>8, <2>2, <2>3, <2>4 DEF BoxSpans, MappingsTypeOK, ProperBox, Spans, S
<1> QED
  BY <1>9, <1>10

\* Every reachable state satisfies BoxSpans: REGISTER_PMEM_MAPPING and
\* REMOVE_PMEM_MAPPING, in any order, leave a box that spans the mappings.
THEOREM AlwaysBoxSpans == MappingsSpec => []BoxSpans
<1>1. BoxSpans /\ [MappingsNext]_mappingVars => BoxSpans'
  <2>1. CASE MappingsNext
    BY <2>1, RegisterBoxSpans, RemoveBoxSpans DEF MappingsNext
  <2>2. CASE UNCHANGED mappingVars
    BY <2>2 DEF mappingVars, BoxSpans, MappingsTypeOK
  <2> QED
    BY <2>1, <2>2
<1> QED
  BY <1>1, InitBoxSpans, PTL DEF MappingsSpec

\* The set of mappings is always one of proper regions, disjoint and apart.
THEOREM MappingsTypeCorrect == MappingsSpec => []MappingsTypeOK
<1>1. BoxSpans => MappingsTypeOK
  BY DEF BoxSpans
<1> QED
  BY <1>1, AlwaysBoxSpans, PTL
----------------------------------------------------------------------------
\* is_pmem_access is always right: its pre-filter by the bounding box neither
\* hides a store to a mapped byte nor admits any other.
THEOREM FilterIsExact == MappingsSpec => []FilterExact
<1>1. ASSUME BoxSpans, NEW r \in Accesses
      PROVE  is_pmem_access(r) <=> Bytes(r) \cap BytesOf(pmem_mappings) # {}
  <2>1. NoAddr \in Nat /\ ProperRegion(r, NoAddr)
    BY MappingsAssumption
  <2>2. \A e \in pmem_mappings : /\ ProperRegion(e, NoAddr) /\ Spans(box, e)
                                 /\ e.addr \in Nat /\ End(e) \in Nat
    BY <1>1 DEF BoxSpans, MappingsTypeOK, RegionSet, ProperRegion, End
  <2>3. Contains(pmem_mappings, r) <=> Bytes(r) \cap BytesOf(pmem_mappings) # {}
    BY <2>1, <2>2, OverlapIsSharing DEF Contains, BytesOf
  <2>4. Contains(pmem_mappings, r) => Touches(box, r)
    <3> SUFFICES ASSUME NEW e \in pmem_mappings, Overlap(r, e)
                 PROVE  Touches(box, r)
      BY DEF Contains
    <3>1. /\ r.addr \in Nat /\ End(r) \in Nat
          /\ box.min_add \in Nat /\ box.max_add \in Nat
      BY <1>1, <2>1 DEF ProperRegion, End, BoxSpans, MappingsTypeOK
    <3> QED
      BY <2>2, <3>1 DEF Overlap, Touches, Spans
  <2> QED
    BY <2>3, <2>4 DEF is_pmem_access
<1>2. BoxSpans => FilterExact
  BY <1>1 DEF FilterExact
<1> QED
  BY <1>2, AlwaysBoxSpans, PTL

\* CHECK_IS_PMEM_MAPPING always answers whether none, all or some of the bytes
\* of a range are mapped.
THEOREM CheckIsExact == MappingsSpec => []CheckExact
<1>1. BoxSpans => CheckExact
  <2> SUFFICES ASSUME BoxSpans, NEW r \in Accesses
               PROVE  is_in_mapping_set(r, pmem_mappings) =
                        IF Bytes(r) \cap BytesOf(pmem_mappings) = {} THEN 0
                        ELSE IF Bytes(r) \subseteq BytesOf(pmem_mappings) THEN 1 ELSE 2
    BY DEF CheckExact
  <2> QED
    BY MappingsAssumption, IsInMappingSet DEF BoxSpans, MappingsTypeOK
<1> QED
  BY <1>1, AlwaysBoxSpans, PTL

\* Every request adds or removes exactly the bytes it names.
LEMMA NextExact == BoxSpans => ExactStep
<1>1. ASSUME BoxSpans, NEW r \in MapRequests
      PROVE  NoAddr \in Nat /\ ProperRegion(r, NoAddr) /\ RegionSet(pmem_mappings, NoAddr)
  BY <1>1, MappingsAssumption DEF BoxSpans, MappingsTypeOK
<1>2. ASSUME BoxSpans, NEW r \in MapRequests, REGISTER_PMEM_MAPPING(r)
      PROVE  Bytewise!Register(r)
  BY <1>1, <1>2, AddRegion
  DEF REGISTER_PMEM_MAPPING, Bytewise!Register, Bytewise!Bytes, Bytewise!End, Bytes, End
<1>3. ASSUME BoxSpans, NEW r \in MapRequests, REMOVE_PMEM_MAPPING(r)
      PROVE  Bytewise!Remove(r)
  BY <1>1, <1>3, RemoveRegion
  DEF REMOVE_PMEM_MAPPING, Bytewise!Remove, Bytewise!Bytes, Bytewise!End, Bytes, End
<1> QED
  BY <1>2, <1>3 DEF ExactStep

\* REGISTER_PMEM_MAPPING and REMOVE_PMEM_MAPPING always do to the mapped bytes
\* what they are asked to do.
THEOREM RequestsAreExact == MappingsSpec => RequestsExact
<1>1. BoxSpans /\ [MappingsNext]_mappingVars => [ExactStep]_mappingVars
  BY NextExact
<1> QED
  BY <1>1, AlwaysBoxSpans, PTL DEF MappingsSpec, RequestsExact

\* The mappings implement MappedBytes: each request adds or removes bytes as
\* that specification does.
THEOREM MappingsImplementMappedBytes == MappingsSpec => ImplementsMappedBytes
<1>1. MappingsInit => Bytewise!Init
  BY DEF MappingsInit, Bytewise!Init, BytesOf
<1>2. BoxSpans /\ [MappingsNext]_mappingVars => [Bytewise!Next]_(BytesOf(pmem_mappings))
  <2>1. ASSUME BoxSpans, MappingsNext
        PROVE  Bytewise!Next
    BY <2>1, NextExact DEF MappingsNext, ExactStep, Bytewise!Next
  <2>2. ASSUME UNCHANGED mappingVars
        PROVE  UNCHANGED BytesOf(pmem_mappings)
    BY <2>2 DEF mappingVars
  <2> QED
    BY <2>1, <2>2
<1> QED
  BY <1>1, <1>2, AlwaysBoxSpans, PTL DEF MappingsSpec, ImplementsMappedBytes, Bytewise!Spec
----------------------------------------------------------------------------
(* Transactions.                                                           *)

\* A cached region is empty or proper.
CachedOK(c) == c = NoRegion \/ ProperRegion(c, NoAddr)

\* What TxInfo says, field by field.
LEMMA TxInfoFields ==
  ASSUME NEW tx \in TxInfo
  PROVE  /\ tx = [counter |-> tx.counter, regions |-> tx.regions,
                  cached_region |-> tx.cached_region]
         /\ tx.counter \in 1 .. MaxNesting
         /\ RegionSet(tx.regions, NoAddr)
         /\ CachedOK(tx.cached_region)
  BY DEF TxInfo, CachedOK

\* A record with these fields is a transaction.
LEMMA TxInfoIntro ==
  ASSUME NEW n \in 1 .. MaxNesting, NEW S, RegionSet(S, NoAddr), NEW c, CachedOK(c)
  PROVE  [counter |-> n, regions |-> S, cached_region |-> c] \in TxInfo
<1>1. S \in SUBSET [addr : Nat, size : Nat]
  BY DEF RegionSet, ProperRegion, Region
<1>2. c \in [addr : Nat, size : Nat]
  BY DEF CachedOK, NoRegion, ProperRegion, Region
<1> QED
  BY <1>1, <1>2 DEF TxInfo, CachedOK

\* The empty region has no bytes and overlaps nothing.
LEMMA NoRegionEmpty ==
  /\ Bytes(NoRegion) = {}
  /\ \A r : ProperRegion(r, NoAddr) => ~Overlap(r, NoRegion) /\ ~Overlap(NoRegion, r)
<1>1. NoRegion.addr = 0 /\ NoRegion.size = 0 /\ End(NoRegion) = 0
  BY DEF NoRegion, Region, End
<1> QED
  BY <1>1 DEF Bytes, Overlap, ProperRegion

\* check_overlap answers 1 exactly when all bytes of the first region are in
\* the second, and 0 when none is.
LEMMA CheckOverlap ==
  ASSUME NEW r, ProperRegion(r, NoAddr), NEW c, CachedOK(c)
  PROVE  /\ check_overlap(r, c) = 1 <=> Bytes(r) \subseteq Bytes(c)
         /\ Overlap(r, c) <=> Bytes(r) \cap Bytes(c) # {}
         /\ check_overlap(c, r) = 1 => Bytes(c) \subseteq Bytes(r)
         /\ check_overlap(c, r) = 0 => Bytes(c) \cap Bytes(r) = {}
<1>1. /\ NoAddr \in Nat
      /\ r.addr \in Nat /\ r.size \in Nat \ {0}
      /\ r.addr \in Bytes(r) /\ End(r) - 1 \in Bytes(r)
  BY TransactionsAssumption DEF ProperRegion, Bytes, End
<1>2. CASE c = NoRegion
  BY <1>1, <1>2, NoRegionEmpty DEF check_overlap
<1>3. CASE ProperRegion(c, NoAddr)
  <2>1. c.addr \in Nat /\ c.size \in Nat \ {0} /\ c.addr \in Bytes(c) /\ End(c) - 1 \in Bytes(c)
    BY <1>3 DEF ProperRegion, Bytes, End
  <2>2. Overlap(r, c) <=> Bytes(r) \cap Bytes(c) # {}
    BY <1>1, <1>3, OverlapIsSharing
  <2>3. Overlap(c, r) <=> Overlap(r, c)
    BY DEF Overlap
  <2>4. Within(r, c) <=> Bytes(r) \subseteq Bytes(c)
    BY <1>1, <2>1 DEF Within, Bytes, End
  <2>5. Within(c, r) => Bytes(c) \subseteq Bytes(r)
    BY <1>1, <2>1 DEF Within, Bytes, End
  <2> QED
    BY <1>1, <2>2, <2>3, <2>4, <2>5 DEF check_overlap
<1> QED
  BY <1>2, <1>3 DEF CachedOK
----------------------------------------------------------------------------
\* flush_cache keeps a transaction one, and its logged bytes: they are all in
\* the merged regions afterwards.
LEMMA FlushCache ==
  ASSUME NEW tx \in TxInfo
  PROVE  /\ flush_cache(tx) \in TxInfo
         /\ RegionSet(flush_cache(tx).regions, NoAddr)
         /\ BytesOf(flush_cache(tx).regions) = Tracked(tx)
         /\ Tracked(flush_cache(tx)) = Tracked(tx)
         /\ flush_cache(tx).counter = tx.counter
<1>1. /\ tx = [counter |-> tx.counter, regions |-> tx.regions,
               cached_region |-> tx.cached_region]
      /\ tx.counter \in 1 .. MaxNesting
      /\ RegionSet(tx.regions, NoAddr)
      /\ CachedOK(tx.cached_region)
  BY TxInfoFields
<1>2. CASE tx.cached_region = NoRegion
  BY <1>1, <1>2, NoRegionEmpty DEF flush_cache, Tracked
<1>3. CASE tx.cached_region # NoRegion
  <2> DEFINE S == add_region(tx.cached_region, tx.regions)
             new == [counter |-> tx.counter, regions |-> S, cached_region |-> NoRegion]
  <2>1. NoAddr \in Nat /\ ProperRegion(tx.cached_region, NoAddr)
    BY <1>1, <1>3, TransactionsAssumption DEF CachedOK
  <2>2. RegionSet(S, NoAddr) /\ BytesOf(S) = BytesOf(tx.regions) \cup Bytes(tx.cached_region)
    BY <1>1, <2>1, AddRegion
  <2>3. flush_cache(tx) = new
    <3>1. flush_cache(tx) = [tx EXCEPT !.regions = S, !.cached_region = NoRegion]
      BY <1>3 DEF flush_cache
    <3> HIDE DEF S
    <3> QED
      BY <1>1, <3>1
  <2> HIDE DEF S
  <2>4. new \in TxInfo
    BY <1>1, <2>2, TxInfoIntro DEF CachedOK
  <2>5. new.regions = S /\ new.cached_region = NoRegion /\ new.counter = tx.counter
    OBVIOUS
  <2> HIDE DEF new
  <2> QED
    BY <2>2, <2>3, <2>4, <2>5, NoRegionEmpty DEF Tracked
<1> QED
  BY <1>2, <1>3

\* add_obj_to_tx finds part of a region logged exactly when a byte of it is.
LEMMA LoggedBytes ==
  ASSUME NEW tx \in TxInfo, NEW r, ProperRegion(r, NoAddr)
  PROVE  Logged(tx, r) <=> Tracked(tx) \cap Bytes(r) # {}
<1>1. RegionSet(tx.regions, NoAddr) /\ CachedOK(tx.cached_region) /\ NoAddr \in Nat
  BY TxInfoFields, TransactionsAssumption
<1>2. Overlap(r, tx.cached_region) <=> Bytes(r) \cap Bytes(tx.cached_region) # {}
  BY <1>1, CheckOverlap
<1>3. is_in_mapping_set(r, tx.regions) # 0 <=> Bytes(r) \cap BytesOf(tx.regions) # {}
  BY <1>1, IsInMappingSet
<1> QED
  BY <1>2, <1>3 DEF Logged, Tracked

\* Adding a region to a transaction logs its bytes and loses none, whichever
\* way the cached region makes place for it.
LEMMA AddsRegion ==
  ASSUME NEW tx \in TxInfo, NEW r, ProperRegion(r, NoAddr)
  PROVE  /\ WithRegion(tx, r) \in TxInfo
         /\ Tracked(WithRegion(tx, r)) = Tracked(tx) \cup Bytes(r)
<1>1. /\ tx = [counter |-> tx.counter, regions |-> tx.regions,
               cached_region |-> tx.cached_region]
      /\ tx.counter \in 1 .. MaxNesting
      /\ RegionSet(tx.regions, NoAddr)
      /\ CachedOK(tx.cached_region)
      /\ NoAddr \in Nat
  BY TxInfoFields, TransactionsAssumption
<1> DEFINE overlap == check_overlap(tx.cached_region, r)
           F == flush_cache(tx).regions
           R == remove_region(r, F)
           others == IF tx.cached_region = NoRegion \/ overlap = 1 THEN tx.regions
                     ELSE IF overlap = 0 THEN F ELSE R
           new == [counter |-> tx.counter, regions |-> others, cached_region |-> r]
<1>2. RegionSet(F, NoAddr) /\ BytesOf(F) = BytesOf(tx.regions) \cup Bytes(tx.cached_region)
  BY FlushCache DEF Tracked
<1>3. RegionSet(R, NoAddr) /\ BytesOf(R) = BytesOf(F) \ Bytes(r)
  <2> HIDE DEF F
  <2> QED
    BY <1>1, <1>2, RemoveRegion
<1>4. overlap = 1 => Bytes(tx.cached_region) \subseteq Bytes(r)
  BY <1>1, CheckOverlap
<1>5. WithRegion(tx, r) = new
  <2>1. WithRegion(tx, r) = [tx EXCEPT !.regions = others, !.cached_region = r]
    BY DEF WithRegion
  <2> HIDE DEF others
  <2> QED
    BY <1>1, <2>1
<1> HIDE DEF F, R, overlap
<1>6. RegionSet(others, NoAddr)
  BY <1>1, <1>2, <1>3
<1>7. BytesOf(others) \cup Bytes(r) = Tracked(tx) \cup Bytes(r)
  <2>1. CASE tx.cached_region = NoRegion
    BY <2>1, NoRegionEmpty DEF Tracked
  <2>2. CASE tx.cached_region # NoRegion /\ overlap = 1
    BY <1>4, <2>2 DEF Tracked
  <2>3. CASE tx.cached_region # NoRegion /\ overlap # 1
    BY <1>2, <1>3, <2>3 DEF Tracked
  <2> QED
    BY <2>1, <2>2, <2>3
<1> HIDE DEF others
<1>8. new \in TxInfo
  BY <1>1, <1>6, TxInfoIntro DEF CachedOK
<1>9. new.regions = others /\ new.cached_region = r
  OBVIOUS
<1> HIDE DEF new
<1> QED
  BY <1>5, <1>7, <1>8, <1>9 DEF Tracked

\* Removing a region takes no bytes but its own, and all of those when the
\* cached region has none of them.
LEMMA RemovesRegion ==
  ASSUME NEW tx \in TxInfo, NEW r, ProperRegion(r, NoAddr)
  PROVE  /\ WithoutRegion(tx, r) \in TxInfo
         /\ Tracked(WithoutRegion(tx, r)) \subseteq Tracked(tx)
         /\ Tracked(tx) \ Bytes(r) \subseteq Tracked(WithoutRegion(tx, r))
         /\ ~Overlap(r, tx.cached_region) =>
              Tracked(WithoutRegion(tx, r)) = Tracked(tx) \ Bytes(r)
<1>1. /\ tx = [counter |-> tx.counter, regions |-> tx.regions,
               cached_region |-> tx.cached_region]
      /\ tx.counter \in 1 .. MaxNesting
      /\ RegionSet(tx.regions, NoAddr)
      /\ CachedOK(tx.cached_region)
      /\ NoAddr \in Nat
  BY TxInfoFields, TransactionsAssumption
<1>2. Overlap(r, tx.cached_region) <=> Bytes(r) \cap Bytes(tx.cached_region) # {}
  BY <1>1, CheckOverlap
<1> DEFINE new(S, c) == [counter |-> tx.counter, regions |-> S, cached_region |-> c]
<1>3. ASSUME NEW S, RegionSet(S, NoAddr), NEW c, CachedOK(c)
      PROVE  /\ new(S, c) \in TxInfo
             /\ Tracked(new(S, c)) = BytesOf(S) \cup Bytes(c)
  BY <1>1, <1>3, TxInfoIntro DEF Tracked
<1>4. \A S : [tx EXCEPT !.regions = S] = new(S, tx.cached_region)
  BY <1>1
<1>5. CASE tx.cached_region = r
  <2>1. WithoutRegion(tx, r) = new(tx.regions, NoRegion)
    BY <1>1, <1>5 DEF WithoutRegion
  <2>2. Overlap(r, tx.cached_region)
    BY <1>5 DEF Overlap, ProperRegion, End
  <2>3. CachedOK(NoRegion)
    BY DEF CachedOK
  <2>4. /\ WithoutRegion(tx, r) \in TxInfo
        /\ Tracked(WithoutRegion(tx, r)) = BytesOf(tx.regions)
    BY <1>1, <1>3, <2>1, <2>3, NoRegionEmpty
  <2> QED
    BY <1>5, <2>2, <2>4 DEF Tracked
<1>6. CASE tx.cached_region # r /\ Overlap(r, tx.cached_region)
  <2> DEFINE A == add_region(tx.cached_region, tx.regions)
             S == remove_region(r, A)
  <2>1. ProperRegion(tx.cached_region, NoAddr)
    BY <1>1, <1>6, NoRegionEmpty DEF CachedOK
  <2>2. RegionSet(A, NoAddr) /\ BytesOf(A) = Tracked(tx)
    BY <1>1, <2>1, AddRegion DEF Tracked
  <2>3. WithoutRegion(tx, r) = [tx EXCEPT !.regions = S]
    BY <1>6 DEF WithoutRegion
  <2> HIDE DEF A
  <2>4. RegionSet(S, NoAddr) /\ BytesOf(S) = Tracked(tx) \ Bytes(r)
    BY <1>1, <2>2, RemoveRegion
  <2> HIDE DEF S, new
  <2>5. WithoutRegion(tx, r) = new(S, tx.cached_region)
    BY <1>4, <2>3
  <2>6. /\ WithoutRegion(tx, r) \in TxInfo
        /\ Tracked(WithoutRegion(tx, r)) = BytesOf(S) \cup Bytes(tx.cached_region)
    BY <1>1, <1>3, <2>4, <2>5
  <2> QED
    BY <1>6, <2>4, <2>6 DEF Tracked
<1>7. CASE tx.cached_region # r /\ ~Overlap(r, tx.cached_region)
  <2> DEFINE S == remove_region(r, tx.regions)
  <2>1. WithoutRegion(tx, r) = [tx EXCEPT !.regions = S]
    BY <1>7 DEF WithoutRegion
  <2>2. RegionSet(S, NoAddr) /\ BytesOf(S) = BytesOf(tx.regions) \ Bytes(r)
    BY <1>1, RemoveRegion
  <2> HIDE DEF S, new
  <2>3. WithoutRegion(tx, r) = new(S, tx.cached_region)
    BY <1>4, <2>1
  <2>4. /\ WithoutRegion(tx, r) \in TxInfo
        /\ Tracked(WithoutRegion(tx, r)) = BytesOf(S) \cup Bytes(tx.cached_region)
    BY <1>1, <1>3, <2>2, <2>3
  <2> QED
    BY <1>2, <1>7, <2>2, <2>4 DEF Tracked
<1> QED
  BY <1>5, <1>6, <1>7

\* Removing the empty region, as ADD_THREAD_TO_TX_N does, changes nothing.
LEMMA RemovesNothing ==
  ASSUME NEW tx \in TxInfo
  PROVE  WithoutRegion(tx, NoRegion) = tx
<1>1. /\ tx = [counter |-> tx.counter, regions |-> tx.regions,
               cached_region |-> tx.cached_region]
      /\ RegionSet(tx.regions, NoAddr)
      /\ CachedOK(tx.cached_region)
  BY TxInfoFields
<1>2. CASE tx.cached_region = NoRegion
  BY <1>1, <1>2 DEF WithoutRegion
<1>3. CASE tx.cached_region # NoRegion
  <2>1. ~Overlap(NoRegion, tx.cached_region)
    BY <1>1, <1>3, NoRegionEmpty DEF CachedOK
  <2>2. \A e \in tx.regions : ~Overlap(e, NoRegion)
    BY <1>1, NoRegionEmpty DEF RegionSet
  <2>3. remove_region(NoRegion, tx.regions) = tx.regions
    BY <2>2 DEF remove_region
  <2> QED
    BY <1>1, <1>3, <2>1, <2>3 DEF WithoutRegion
<1> QED
  BY <1>2, <1>3
----------------------------------------------------------------------------
\* The inductive invariant for the types, in parts.  Finitely many
\* transactions run, so that the events of an addition can be counted.
TxsOK ==
  /\ Running \subseteq TxIds /\ IsFiniteSet(Running)
  /\ \A x \in Running : transactions[x] \in TxInfo

ThreadsOK ==
  /\ DOMAIN threads \subseteq Threads
  /\ \A t \in DOMAIN threads : threads[t] \subseteq TxIds /\ threads[t] # {}

EventsOK ==
  /\ oot_stores_reg \in 0 .. MAX_OOT_STORES
  /\ cross_tx_reg \in 0 .. MAX_CROSS_EVS /\ redundant_logging_tx_reg \in 0 .. MAX_CROSS_EVS
  /\ ret \in 0 .. 2

TypeInv ==
  TxsOK /\ ThreadsOK /\ RegionSet(excludes, NoAddr) /\ EventsOK /\ exited \in BOOLEAN

\* TypeInv is TypeOK and more.
LEMMA TypeInvImplies == TypeInv => TypeOK
  BY Zenon DEF TypeInv, TypeOK, TxsOK, ThreadsOK, EventsOK

\* TypeInv holds initially.
LEMMA InitType == Init => TypeInv
<1> SUFFICES ASSUME Init PROVE TypeInv
  OBVIOUS
<1>1. DOMAIN transactions = {} /\ DOMAIN threads = {}
  BY DEF Init
<1>2. TxsOK /\ ThreadsOK
  BY <1>1, FS_EmptySet DEF Running, TxsOK, ThreadsOK
<1>3. EventsOK /\ RegionSet(excludes, NoAddr)
  <2>1. /\ oot_stores_reg = 0 /\ cross_tx_reg = 0 /\ redundant_logging_tx_reg = 0
        /\ ret = 0 /\ excludes = {}
    BY Zenon DEF Init
  <2> QED
    BY <2>1, TransactionsAssumption DEF EventsOK, RegionSet
<1>4. exited \in BOOLEAN
  BY Zenon DEF Init
<1> QED
  BY <1>2, <1>3, <1>4, Zenon DEF TypeInv

\* Starting a transaction keeps TypeInv.
LEMMA RegisterType ==
  ASSUME TypeInv, NEW p \in Started, register_new_tx(p[1], p[2])
  PROVE  TypeInv'
<1> DEFINE t == p[1]
           x == p[2]
           tx == IF x \in Running THEN transactions[x] ELSE NewTx
           ids == IF t \in DOMAIN threads THEN threads[t] ELSE {}
<1>1. t \in Threads /\ x \in TxIds /\ MaxNesting \in Nat
  BY TransactionsAssumption DEF TxIds
<1>2. /\ tx = [counter |-> tx.counter, regions |-> tx.regions,
               cached_region |-> tx.cached_region]
      /\ tx.counter \in 0 .. MaxNesting
      /\ RegionSet(tx.regions, NoAddr)
      /\ CachedOK(tx.cached_region)
  <2>1. CASE x \in Running
    <3>1. tx = transactions[x] /\ transactions[x] \in TxInfo
      BY <2>1 DEF TypeInv, TxsOK
    <3> QED
      BY <1>1, <3>1, TxInfoFields
  <2>2. CASE x \notin Running
    BY <1>1, <2>2 DEF NewTx, RegionSet, CachedOK
  <2> QED
    BY <2>1, <2>2
<1>3. ids \subseteq TxIds
  BY DEF TypeInv, ThreadsOK
<1>4. /\ tx.counter < MaxNesting
      /\ transactions' = [y \in Running \cup {x} |->
                            IF y = x THEN [tx EXCEPT !.counter = @ + 1] ELSE transactions[y]]
      /\ threads' = [u \in DOMAIN threads \cup {t} |->
                       IF u = t THEN ids \cup {x} ELSE threads[u]]
  BY DEF register_new_tx
<1> HIDE DEF tx, ids, t, x
<1>5. [tx EXCEPT !.counter = @ + 1] \in TxInfo
  <2>1. [tx EXCEPT !.counter = @ + 1] =
          [counter |-> tx.counter + 1, regions |-> tx.regions, cached_region |-> tx.cached_region]
    BY <1>2
  <2>2. tx.counter + 1 \in 1 .. MaxNesting
    BY <1>1, <1>2, <1>4
  <2> QED
    BY <1>2, <2>1, <2>2, TxInfoIntro
<1>6. Running' = Running \cup {x} /\ IsFiniteSet(Running')
  BY <1>4, FS_AddElement DEF Running, TypeInv, TxsOK
<1>7. TxsOK'
  BY <1>1, <1>4, <1>5, <1>6 DEF TypeInv, TxsOK
<1>8. ThreadsOK'
  BY <1>1, <1>3, <1>4 DEF TypeInv, ThreadsOK
<1>9. EventsOK' /\ RegionSet(excludes, NoAddr)'
  BY DEF register_new_tx, TypeInv, EventsOK
<1>10. exited' \in BOOLEAN
  BY Zenon DEF register_new_tx, TypeInv
<1> QED
  BY <1>7, <1>8, <1>9, <1>10, Zenon DEF TypeInv

\* Ending a transaction keeps TypeInv.
LEMMA RemoveTxType ==
  ASSUME TypeInv, NEW x \in TxIds, remove_tx(x)
  PROVE  TypeInv'
<1>1. TxsOK' /\ ThreadsOK' /\ ret' \in 0 .. 2
  <2>1. CASE x \notin Running
    BY <2>1 DEF remove_tx, TypeInv, TxsOK, ThreadsOK, Running
  <2>2. CASE x \in Running /\ transactions[x].counter > 1
    <3> DEFINE tx == transactions[x]
               new == [tx EXCEPT !.counter = @ - 1]
    <3>1. transactions' = [transactions EXCEPT ![x] = new] /\ threads' = threads /\ ret' = 0
      BY <2>2 DEF remove_tx
    <3>2. /\ tx = [counter |-> tx.counter, regions |-> tx.regions,
                   cached_region |-> tx.cached_region]
          /\ tx.counter \in 1 .. MaxNesting /\ tx.counter > 1
          /\ RegionSet(tx.regions, NoAddr)
          /\ CachedOK(tx.cached_region)
      <4>1. tx \in TxInfo
        BY <2>2 DEF TypeInv, TxsOK
      <4> HIDE DEF tx
      <4>2. tx.counter > 1
        BY <2>2 DEF tx
      <4> QED
        BY <4>1, <4>2, TxInfoFields
    <3> HIDE DEF tx
    <3>3. new = [counter |-> tx.counter - 1, regions |-> tx.regions,
                 cached_region |-> tx.cached_region]
      BY <3>2
    <3>4. tx.counter - 1 \in 1 .. MaxNesting
      BY <3>2, TransactionsAssumption
    <3>5. new \in TxInfo
      BY <3>2, <3>3, <3>4, TxInfoIntro
    <3> HIDE DEF new
    <3>6. Running' = Running /\ \A y \in Running : transactions'[y] = IF y = x THEN new ELSE transactions[y]
      BY <3>1 DEF Running
    <3> QED
      BY <3>1, <3>5, <3>6 DEF TypeInv, TxsOK, ThreadsOK
  <2>3. CASE x \in Running /\ ~(transactions[x].counter > 1)
    <3> DEFINE gone == Visited(x) \cap Emptied(x)
    <3>1. /\ transactions' = [y \in Running \ {x} |-> transactions[y]]
          /\ threads' = [t \in DOMAIN threads \ gone |->
                           IF t \in Visited(x) THEN threads[t] \ {x} ELSE threads[t]]
          /\ ret' = 0
      BY <2>3 DEF remove_tx, Restrict
    <3>2. Running' = Running \ {x} /\ IsFiniteSet(Running')
      BY <3>1, FS_RemoveElement DEF Running, TypeInv, TxsOK
    <3>3. TxsOK'
      BY <3>1, <3>2 DEF TypeInv, TxsOK
    <3>4. \A t \in DOMAIN threads \ gone : t \in Visited(x) => threads[t] \ {x} # {}
      BY DEF Emptied
    <3>5. ThreadsOK'
      BY <3>1, <3>4 DEF TypeInv, ThreadsOK
    <3> QED
      BY <3>1, <3>3, <3>5
  <2> QED
    BY <2>1, <2>2, <2>3
<1>2. EventsOK' /\ RegionSet(excludes, NoAddr)'
  BY <1>1 DEF remove_tx, TypeInv, EventsOK
<1>3. exited' \in BOOLEAN
  BY Zenon DEF remove_tx, TypeInv
<1> QED
  BY <1>1, <1>2, <1>3, Zenon DEF TypeInv

\* Replacing one running transaction by another record keeps TxsOK.
LEMMA ReplaceTx ==
  ASSUME TxsOK, NEW x \in Running, NEW new \in TxInfo,
         transactions' = [transactions EXCEPT ![x] = new]
  PROVE  /\ TxsOK' /\ Running' = Running /\ transactions'[x] = new
         /\ \A y \in Running \ {x} : transactions'[y] = transactions[y]
  BY DEF TxsOK, Running

\* The other transactions that have logged part of a region are finitely many.
LEMMA CrossingCount ==
  ASSUME TxsOK, NEW x, NEW r
  PROVE  IsFiniteSet(Crossing(x, r)) /\ Crossing(x, r) \subseteq Nat /\ x \notin Crossing(x, r)
<1>1. IsFiniteSet(Running) /\ Crossing(x, r) \in SUBSET Running /\ x \notin Crossing(x, r)
  BY DEF TxsOK, Crossing
<1>2. Running \subseteq Nat
  <2>1. TxIds \subseteq Nat
    BY TransactionsAssumption DEF TxIds
  <2> QED
    BY <2>1 DEF TxsOK
<1> QED
  BY <1>1, <1>2, FS_Subset

\* A finite set of naturals that is not empty has a greatest element.
LEMMA GreatestNat ==
  ASSUME NEW S, IsFiniteSet(S), S \subseteq Nat, S # {}
  PROVE  \E m \in S : \A y \in S : y <= m
<1> DEFINE below(p) == {q \in S : q < p}
           ranks == {Cardinality(below(p)) : p \in S}
<1>1. \A p : IsFiniteSet(below(p)) /\ Cardinality(below(p)) \in Nat
  <2>1. \A p : below(p) \in SUBSET S
    OBVIOUS
  <2> HIDE DEF below
  <2> QED
    BY <2>1, FS_Subset, FS_CardinalityType
<1>2. Cardinality(S) \in Nat /\ ranks \subseteq 0 .. Cardinality(S) /\ ranks # {}
  <2>1. \A p : below(p) \in SUBSET S
    OBVIOUS
  <2> HIDE DEF below
  <2>2. \A p : Cardinality(below(p)) <= Cardinality(S)
    BY <2>1, FS_Subset
  <2>3. Cardinality(S) \in Nat
    BY FS_CardinalityType
  <2>4. \A p : Cardinality(below(p)) \in 0 .. Cardinality(S)
    BY <1>1, <2>2, <2>3
  <2> QED
    BY <2>3, <2>4, Zenon
<1>3. PICK m \in S : \A y \in S : Cardinality(below(m)) >= Cardinality(below(y))
  <2>1. Max(ranks) \in ranks /\ \A k \in ranks : Max(ranks) >= k
    BY <1>2, MaxOfNats
  <2> QED
    BY <2>1
<1>4. ASSUME NEW y \in S, m < y
      PROVE  Cardinality(below(m)) < Cardinality(below(y))
  <2>1. below(m) \in SUBSET below(y) /\ below(m) # below(y)
    <3>1. \A q \in S : q \in Nat
      OBVIOUS
    <3>2. m \in below(y) /\ m \notin below(m) /\ \A q \in below(m) : q \in below(y)
      BY <1>4, <3>1
    <3> QED
      BY <3>2
  <2> HIDE DEF below
  <2>2. Cardinality(below(m)) <= Cardinality(below(y)) /\ Cardinality(below(m)) # Cardinality(below(y))
    BY <1>1, <2>1, FS_Subset
  <2> QED
    BY <1>1, <2>2
<1>5. ASSUME NEW y \in S PROVE y <= m
  <2>1. y \in Nat /\ m \in Nat
    OBVIOUS
  <2>2. ~(m < y)
    <3> HIDE DEF below
    <3> QED
      BY <1>1, <1>3, <1>4
  <2> QED
    BY <2>1, <2>2
<1> QED
  BY <1>5

\* The events of an addition, which the loop over the transactions registers
\* one by one: they never overflow a register, and if they are not all of them
\* then a register is full.
LEMMA RegisteredEvents ==
  ASSUME TypeInv, NEW x \in Running, NEW r
  PROVE  LET done == Registered(x, r)
             n == Cardinality(done \ {x})
         IN  /\ n \in Nat /\ cross_tx_reg + n <= MAX_CROSS_EVS
             /\ x \in done => redundant_logging_tx_reg < MAX_CROSS_EVS
             /\ done = Events(x, r) => done \ {x} = Crossing(x, r)
             /\ done # Events(x, r) =>
                  \/ cross_tx_reg + n = MAX_CROSS_EVS
                  \/ x \notin done /\ redundant_logging_tx_reg = MAX_CROSS_EVS
<1> DEFINE C == Crossing(x, r)
           E == Events(x, r)
           D == Registered(x, r)
           n == Cardinality(D \ {x})
           below(y) == {z \in C : z < y}
<1>1. IsFiniteSet(C) /\ C \subseteq Nat /\ x \notin C /\ x \in Nat
  <2>1. x \in TxIds /\ TxIds \subseteq Nat
    BY TransactionsAssumption DEF TypeInv, TxsOK, TxIds
  <2> QED
    BY <2>1, CrossingCount DEF TypeInv
<1>2. /\ cross_tx_reg \in Nat /\ cross_tx_reg <= MAX_CROSS_EVS /\ MAX_CROSS_EVS \in Nat
      /\ redundant_logging_tx_reg \in Nat /\ redundant_logging_tx_reg <= MAX_CROSS_EVS
  BY TransactionsAssumption DEF TypeInv, EventsOK
<1>3. /\ D \subseteq E /\ E \subseteq Nat /\ E \ {x} = C /\ D \ {x} \subseteq C
      /\ \A y \in D : \A z \in E : z <= y => EventFits(x, r, z)
      /\ \A y \in E : (\A z \in E : z <= y => EventFits(x, r, z)) => y \in D
  BY <1>1 DEF Registered, Events
<1>4. /\ EventFits(x, r, x) <=> redundant_logging_tx_reg < MAX_CROSS_EVS
      /\ \A y \in C : EventFits(x, r, y) <=> cross_tx_reg + Cardinality(below(y)) < MAX_CROSS_EVS
  BY <1>1 DEF EventFits
<1>5. /\ IsFiniteSet(D \ {x}) /\ n \in Nat
      /\ \A y : IsFiniteSet(below(y)) /\ Cardinality(below(y)) \in Nat
  <2>1. \A S \in SUBSET C : IsFiniteSet(S) /\ Cardinality(S) \in Nat
    BY <1>1, FS_Subset, FS_CardinalityType
  <2>2. D \ {x} \in SUBSET C /\ \A y : below(y) \in SUBSET C
    BY <1>3
  <2> QED
    BY <2>1, <2>2
<1> HIDE DEF C, E, D
<1>6. cross_tx_reg + n <= MAX_CROSS_EVS
  <2>1. CASE D \ {x} = {}
    <3>1. n = 0
      BY <2>1, FS_EmptySet
    <3> QED
      BY <1>2, <3>1
  <2>2. CASE D \ {x} # {}
    <3>1. PICK m \in D \ {x} : \A y \in D \ {x} : y <= m
      BY <1>1, <1>3, <1>5, <2>2, GreatestNat
    <3>2. m \in C /\ m \in Nat /\ m \notin below(m)
      BY <1>1, <1>3, <3>1
    <3>3. cross_tx_reg + Cardinality(below(m)) < MAX_CROSS_EVS
      BY <1>3, <1>4, <3>1, <3>2
    <3>4. Cardinality(below(m) \cup {m}) = Cardinality(below(m)) + 1 /\ IsFiniteSet(below(m) \cup {m})
      <4>1. IsFiniteSet(below(m)) /\ m \notin below(m)
        BY <1>5, <3>2
      <4> HIDE DEF below
      <4> QED
        BY <4>1, FS_AddElement
    <3>5. D \ {x} \subseteq below(m) \cup {m}
      <4> SUFFICES ASSUME NEW y \in D \ {x}, y # m PROVE y \in below(m)
        OBVIOUS
      <4>1. y \in C /\ y \in Nat /\ y <= m
        BY <1>1, <1>3, <3>1
      <4> QED
        BY <3>2, <4>1
    <3>6. n <= Cardinality(below(m) \cup {m})
      BY <3>4, <3>5, FS_Subset
    <3>7. Cardinality(below(m)) \in Nat
      BY <1>5
    <3> QED
      BY <1>2, <1>5, <3>3, <3>4, <3>6, <3>7
  <2> QED
    BY <2>1, <2>2
<1>7. x \in D => redundant_logging_tx_reg < MAX_CROSS_EVS
  BY <1>1, <1>3, <1>4
<1>8. ASSUME D # E
      PROVE  \/ cross_tx_reg + n = MAX_CROSS_EVS
             \/ x \notin D /\ redundant_logging_tx_reg = MAX_CROSS_EVS
  <2> DEFINE unfit == {z \in E : ~EventFits(x, r, z)}
  <2>1. unfit # {} /\ unfit \subseteq Nat
    BY <1>3, <1>8
  <2>2. PICK e \in unfit : \A z \in unfit : e <= z
    BY <2>1, MinOfNats
  <2>3. e \in E /\ e \in Nat /\ ~EventFits(x, r, e) /\ e \notin D
    BY <1>3, <2>2
  <2>4. CASE e = x
    BY <1>2, <1>4, <2>3, <2>4
  <2>5. CASE e # x
    <3>1. e \in C
      BY <1>3, <2>3, <2>5
    <3>2. below(e) \subseteq D \ {x}
      <4> SUFFICES ASSUME NEW y \in C, y < e PROVE y \in D \ {x}
        OBVIOUS
      <4>1. y \in E /\ y # x /\ y \in Nat
        BY <1>1, <1>3
      <4>2. ASSUME NEW z \in E, z <= y PROVE EventFits(x, r, z)
        <5>1. z \in Nat /\ ~(e <= z)
          BY <1>3, <2>3, <4>1, <4>2
        <5> QED
          BY <2>2, <5>1
      <4> QED
        BY <1>3, <4>1, <4>2
    <3>3. Cardinality(below(e)) <= n
      BY <1>5, <3>2, FS_Subset
    <3>4. cross_tx_reg + Cardinality(below(e)) >= MAX_CROSS_EVS
      <4>1. Cardinality(below(e)) \in Nat
        BY <1>5
      <4> QED
        BY <1>2, <1>4, <2>3, <3>1, <4>1
    <3>5. Cardinality(below(e)) \in Nat
      BY <1>5
    <3> QED
      BY <1>2, <1>5, <1>6, <3>3, <3>4, <3>5
  <2> QED
    BY <2>4, <2>5
<1> QED
  BY <1>3, <1>5, <1>6, <1>7, <1>8 DEF C, D, E

\* Adding a region to a transaction keeps TypeInv; the events that it
\* registers fit in their registers.
LEMMA AddObjType ==
  ASSUME TypeInv, NEW t, NEW x, NEW r \in Objects, add_obj_to_tx(t, x, r)
  PROVE  TypeInv'
<1> DEFINE done == Registered(x, r)
           n == Cardinality(done \ {x})
           k == IF x \in done THEN 1 ELSE 0
           refused == x \notin Running \/ ~is_tx_in_thread(t, x)
<1>1. UNCHANGED <<threads, excludes, oot_stores_reg>>
  BY DEF add_obj_to_tx
<1>2. ThreadsOK' /\ RegionSet(excludes, NoAddr)'
  BY <1>1 DEF TypeInv, ThreadsOK
<1>3. CASE refused
  <2>1. /\ ret' = IF x \notin Running THEN 1 ELSE 2
        /\ UNCHANGED <<transactions, cross_tx_reg, redundant_logging_tx_reg, exited>>
    BY <1>3, Zenon DEF add_obj_to_tx
  <2>2. TxsOK' /\ EventsOK'
    BY <1>1, <2>1 DEF TypeInv, TxsOK, EventsOK, Running
  <2> QED
    BY <1>2, <2>1, <2>2, Zenon DEF TypeInv
<1>4. CASE ~refused
  <2>1. /\ cross_tx_reg' = cross_tx_reg + n
        /\ redundant_logging_tx_reg' = redundant_logging_tx_reg + k
    BY <1>4, Zenon DEF add_obj_to_tx
  <2>2. cross_tx_reg' \in 0 .. MAX_CROSS_EVS /\ redundant_logging_tx_reg' \in 0 .. MAX_CROSS_EVS
    <3>1. /\ n \in Nat /\ cross_tx_reg + n <= MAX_CROSS_EVS
          /\ x \in done => redundant_logging_tx_reg < MAX_CROSS_EVS
      BY <1>4, RegisteredEvents
    <3> HIDE DEF n, done
    <3> QED
      BY <2>1, <3>1, TransactionsAssumption DEF TypeInv, EventsOK
  <2>3. CASE done # Events(x, r)
    <3>1. exited' = TRUE /\ UNCHANGED <<transactions, ret>>
      BY <1>4, <2>3, Zenon DEF add_obj_to_tx
    <3>2. TxsOK' /\ EventsOK'
      BY <1>1, <2>2, <3>1 DEF TypeInv, TxsOK, EventsOK, Running
    <3> QED
      BY <1>2, <3>1, <3>2, Zenon DEF TypeInv
  <2>4. CASE done = Events(x, r)
    <3>1. ret' = 0 /\ UNCHANGED exited
      BY <1>4, <2>4, Zenon DEF add_obj_to_tx
    <3>2. transactions' = [transactions EXCEPT ![x] = WithRegion(transactions[x], r)]
      BY <1>4, <2>4 DEF add_obj_to_tx
    <3>3. transactions[x] \in TxInfo /\ ProperRegion(r, NoAddr)
      BY <1>4, TransactionsAssumption DEF TypeInv, TxsOK
    <3>4. WithRegion(transactions[x], r) \in TxInfo
      BY <3>3, AddsRegion
    <3>5. TxsOK'
      BY <1>4, <3>2, <3>4, ReplaceTx DEF TypeInv
    <3>6. EventsOK'
      BY <1>1, <2>2, <3>1 DEF TypeInv, EventsOK
    <3> QED
      BY <1>2, <3>1, <3>5, <3>6, Zenon DEF TypeInv
  <2> QED
    BY <2>3, <2>4
<1> QED
  BY <1>3, <1>4

\* Removing a region from a transaction keeps TypeInv, and so do the requests
\* that remove the empty region.
LEMMA RemoveObjType ==
  ASSUME TypeInv, NEW t, NEW x, NEW r, r \in Objects \/ r = NoRegion,
         remove_obj_from_tx(t, x, r)
  PROVE  TypeInv'
<1>1. UNCHANGED <<threads, excludes, oot_stores_reg, cross_tx_reg,
                  redundant_logging_tx_reg, exited>>
  BY Zenon DEF remove_obj_from_tx
<1>2. ThreadsOK' /\ RegionSet(excludes, NoAddr)'
  BY <1>1 DEF TypeInv, ThreadsOK
<1>3. exited' \in BOOLEAN
  BY <1>1, Zenon DEF TypeInv
<1>4. CASE x \notin Running \/ ~is_tx_in_thread(t, x)
  <2>1. ret' \in 0 .. 2 /\ transactions' = transactions
    BY <1>4 DEF remove_obj_from_tx
  <2>2. TxsOK' /\ EventsOK'
    BY <1>1, <2>1 DEF TypeInv, TxsOK, EventsOK, Running
  <2> QED
    BY <1>2, <1>3, <2>2, Zenon DEF TypeInv
<1>5. CASE x \in Running /\ is_tx_in_thread(t, x)
  <2>1. /\ transactions' = [transactions EXCEPT ![x] = WithoutRegion(transactions[x], r)]
        /\ ret' = 0
    BY <1>5 DEF remove_obj_from_tx
  <2>2. transactions[x] \in TxInfo
    BY <1>5 DEF TypeInv, TxsOK
  <2>3. WithoutRegion(transactions[x], r) \in TxInfo
    BY <2>2, RemovesRegion, RemovesNothing, TransactionsAssumption
  <2>4. TxsOK'
    BY <1>5, <2>1, <2>3, ReplaceTx DEF TypeInv
  <2>5. EventsOK'
    BY <1>1, <2>1 DEF TypeInv, EventsOK
  <2> QED
    BY <1>2, <1>3, <2>4, <2>5, Zenon DEF TypeInv
<1> QED
  BY <1>4, <1>5

\* Adding a region to the global excludes keeps TypeInv.
LEMMA ExcludesType ==
  ASSUME TypeInv, NEW r \in Ignored, add_to_global_excludes(r)
  PROVE  TypeInv'
<1>1. NoAddr \in Nat /\ ProperRegion(r, NoAddr) /\ RegionSet(excludes, NoAddr)
  BY TransactionsAssumption DEF TypeInv
<1>2. RegionSet(add_region(r, excludes), NoAddr)
  BY <1>1, AddRegion
<1>3. RegionSet(excludes, NoAddr)'
  BY <1>2 DEF add_to_global_excludes
<1>4. TxsOK' /\ ThreadsOK' /\ EventsOK'
  BY DEF add_to_global_excludes, TypeInv, TxsOK, ThreadsOK, EventsOK, Running
<1>5. exited' \in BOOLEAN
  BY Zenon DEF add_to_global_excludes, TypeInv
<1> QED
  BY <1>3, <1>4, <1>5, Zenon DEF TypeInv

\* The check of a store keeps TypeInv: it merges cached regions, and registers
\* no more events than there is room for.
LEMMA StoreType ==
  ASSUME TypeInv, NEW t, NEW r \in Stores, handle_tx_store(t, r)
  PROVE  TypeInv'
<1> DEFINE full == OutOfTx(t, r) /\ oot_stores_reg = MAX_OOT_STORES
           merge(x) == x \in Asked(t, r) /\ check_overlap(r, transactions[x].cached_region) # 1
<1>1. transactions' = [x \in Running |-> IF merge(x) THEN flush_cache(transactions[x])
                                                     ELSE transactions[x]]
  BY DEF handle_tx_store
<1>2. \A x \in Running : transactions[x] \in TxInfo /\ flush_cache(transactions[x]) \in TxInfo
  BY FlushCache DEF TypeInv, TxsOK
<1>3. TxsOK'
  <2> HIDE DEF merge
  <2>1. Running' = Running /\ \A x \in Running : transactions'[x] \in TxInfo
    BY <1>1, <1>2 DEF Running
  <2> QED
    BY <2>1 DEF TypeInv, TxsOK
<1>4. ThreadsOK' /\ RegionSet(excludes, NoAddr)'
  BY DEF handle_tx_store, TypeInv, ThreadsOK
<1>5. oot_stores_reg' \in 0 .. MAX_OOT_STORES
  <2>1. oot_stores_reg' = oot_stores_reg + IF OutOfTx(t, r) /\ ~full THEN 1 ELSE 0
    BY DEF handle_tx_store
  <2>2. oot_stores_reg \in 0 .. MAX_OOT_STORES /\ MAX_OOT_STORES \in Nat
    BY TransactionsAssumption DEF TypeInv, EventsOK
  <2> QED
    BY <2>1, <2>2
<1>6. EventsOK'
  BY <1>5 DEF handle_tx_store, TypeInv, EventsOK
<1>7. exited' \in BOOLEAN
  <2>1. exited' = full
    BY Zenon DEF handle_tx_store
  <2> QED
    BY <2>1, Zenon
<1> QED
  BY <1>3, <1>4, <1>6, <1>7, Zenon DEF TypeInv

\* Every step keeps TypeInv.
LEMMA NextType == TypeInv /\ [Next]_vars => TypeInv'
<1> SUFFICES ASSUME TypeInv, [Next]_vars PROVE TypeInv'
  OBVIOUS
<1>1. CASE Next
  BY <1>1, RegisterType, RemoveTxType, AddObjType, RemoveObjType, ExcludesType, StoreType, Zenon
  DEF Next, ADD_THREAD_TO_TX_N, REMOVE_THREAD_FROM_TX_N
<1>2. CASE UNCHANGED vars
  <2>1. TxsOK' /\ ThreadsOK' /\ EventsOK' /\ RegionSet(excludes, NoAddr)'
    BY <1>2 DEF vars, TypeInv, TxsOK, ThreadsOK, EventsOK, Running
  <2>2. exited' \in BOOLEAN
    BY <1>2, Zenon DEF vars, TypeInv
  <2> QED
    BY <2>1, <2>2, Zenon DEF TypeInv
<1> QED
  BY <1>1, <1>2

\* TypeInv always holds.
LEMMA AlwaysTypeInv == Spec => []TypeInv
  BY InitType, NextType, PTL DEF Spec

\* Whatever threads start, nest, share and end, add, remove and store: regions
\* of transactions stay merged region sets and no event register overflows.
THEOREM TypeCorrect == Spec => []TypeOK
  BY AlwaysTypeInv, TypeInvImplies, PTL

\* The tool stops the program only over a full register, although one request
\* can register several events, in two registers, and be cut short between them.
THEOREM AlwaysExitsFull == Spec => []ExitsFull
<1>1. Init => ExitsFull
  BY Zenon DEF Init, ExitsFull
<1>2. TypeInv /\ ExitsFull /\ [Next]_vars => ExitsFull'
  <2> SUFFICES ASSUME TypeInv, ExitsFull, [Next]_vars PROVE ExitsFull'
    OBVIOUS
  <2>1. CASE UNCHANGED vars
    BY <2>1, Zenon DEF vars, ExitsFull
  <2>2. ASSUME NEW t, NEW x, NEW r, add_obj_to_tx(t, x, r), ~exited PROVE ExitsFull'
    <3>1. CASE exited' = exited
      BY <2>2, <3>1, Zenon DEF ExitsFull
    <3>2. CASE exited' # exited
      <4> DEFINE done == Registered(x, r)
      <4>1. /\ x \in Running /\ done # Events(x, r)
            /\ cross_tx_reg' = cross_tx_reg + Cardinality(done \ {x})
            /\ redundant_logging_tx_reg' = redundant_logging_tx_reg + IF x \in done THEN 1 ELSE 0
        BY <2>2, <3>2, Zenon DEF add_obj_to_tx
      <4>2. \/ cross_tx_reg + Cardinality(done \ {x}) = MAX_CROSS_EVS
            \/ x \notin done /\ redundant_logging_tx_reg = MAX_CROSS_EVS
        BY <4>1, RegisteredEvents
      <4>3. redundant_logging_tx_reg + 0 = redundant_logging_tx_reg
        BY DEF TypeInv, EventsOK
      <4>4. cross_tx_reg' = MAX_CROSS_EVS \/ redundant_logging_tx_reg' = MAX_CROSS_EVS
        BY <4>1, <4>2, <4>3, Zenon
      <4> QED
        BY <4>4, Zenon DEF ExitsFull
    <3> QED
      BY <3>1, <3>2, Zenon
  <2>3. ASSUME NEW t, NEW r, handle_tx_store(t, r), ~exited PROVE ExitsFull'
    <3>1. /\ exited' = (OutOfTx(t, r) /\ oot_stores_reg = MAX_OOT_STORES)
          /\ oot_stores_reg' = oot_stores_reg +
               IF OutOfTx(t, r) /\ ~(OutOfTx(t, r) /\ oot_stores_reg = MAX_OOT_STORES) THEN 1 ELSE 0
      BY <2>3, Zenon DEF handle_tx_store
    <3>2. oot_stores_reg + 0 = oot_stores_reg
      BY DEF TypeInv, EventsOK
    <3> QED
      BY <3>1, <3>2, Zenon DEF ExitsFull
  <2>4. CASE Next
    <3>1. ~exited
      BY <2>4, Zenon DEF Next
    <3>2. ASSUME UNCHANGED exited PROVE ExitsFull'
      BY <3>1, <3>2, Zenon DEF ExitsFull
    <3> QED
      BY <2>2, <2>3, <2>4, <3>1, <3>2, Zenon
      DEF Next, register_new_tx, remove_tx, add_to_global_excludes, remove_obj_from_tx,
          ADD_THREAD_TO_TX_N, REMOVE_THREAD_FROM_TX_N
  <2> QED
    BY <2>1, <2>4
<1> QED
  BY <1>1, <1>2, AlwaysTypeInv, PTL DEF Spec
----------------------------------------------------------------------------
\* One running transaction decides about a store by its logged bytes.
LEMMA StoreInTx ==
  ASSUME TxsOK, NEW x \in Running, NEW r, ProperRegion(r, NoAddr)
  PROVE  is_store_in_tx(r, x) <=> Bytes(r) \subseteq Tracked(transactions[x])
<1> DEFINE tx == transactions[x]
           F == flush_cache(tx).regions
<1>1. tx \in TxInfo /\ NoAddr \in Nat
  BY TransactionsAssumption DEF TxsOK
<1> HIDE DEF tx
<1>2. CachedOK(tx.cached_region)
  BY <1>1, TxInfoFields
<1>3. RegionSet(F, NoAddr) /\ BytesOf(F) = Tracked(tx)
  BY <1>1, FlushCache
<1>4. check_overlap(r, tx.cached_region) = 1 <=> Bytes(r) \subseteq Bytes(tx.cached_region)
  BY <1>2, CheckOverlap
<1> HIDE DEF F
<1>5. is_in_mapping_set(r, F) = IF Bytes(r) \cap BytesOf(F) = {} THEN 0
                                ELSE IF Bytes(r) \subseteq BytesOf(F) THEN 1 ELSE 2
  BY <1>1, <1>3, IsInMappingSet
<1>6. Bytes(r) # {}
  BY DEF Bytes, End, ProperRegion
<1>7. is_in_mapping_set(r, F) = 1 <=> Bytes(r) \subseteq Tracked(tx)
  BY <1>3, <1>5, <1>6
<1>8. Bytes(tx.cached_region) \subseteq Tracked(tx)
  BY DEF Tracked
<1> QED
  BY <1>4, <1>7, <1>8 DEF is_store_in_tx, tx, F

\* handle_tx_store always decides exactly which stores are out of transaction.
THEOREM AlwaysStoreExact == Spec => []StoreExact
<1>1. TypeInv => StoreExact
  <2> SUFFICES ASSUME TypeInv, NEW t \in Threads, NEW r \in Stores
               PROVE  OutOfTx(t, r) <=>
                        /\ ~(Bytes(r) \subseteq BytesOf(excludes))
                        /\ IF t \in DOMAIN threads
                           THEN \A x \in threads[t] \cap Running :
                                  ~(Bytes(r) \subseteq Tracked(transactions[x]))
                           ELSE transactions_only
    BY DEF StoreExact
  <2>1. TxsOK /\ RegionSet(excludes, NoAddr) /\ ProperRegion(r, NoAddr) /\ NoAddr \in Nat
    BY TransactionsAssumption DEF TypeInv
  <2>2. Bytes(r) # {}
    BY <2>1 DEF Bytes, End, ProperRegion
  <2>3. Excluded(r) <=> Bytes(r) \subseteq BytesOf(excludes)
    BY <2>1, <2>2, IsInMappingSet DEF Excluded
  <2>4. \A x \in Running : is_store_in_tx(r, x) <=> Bytes(r) \subseteq Tracked(transactions[x])
    BY <2>1, StoreInTx
  <2>5. \A x : x \notin Running => ~is_store_in_tx(r, x)
    BY DEF is_store_in_tx
  <2> QED
    BY <2>3, <2>4, <2>5, Zenon DEF OutOfTx
<1> QED
  BY <1>1, AlwaysTypeInv, PTL
----------------------------------------------------------------------------
\* The three ways in which an action treats transactions and threads as far as
\* membership goes: a start, an end, or no change.
LEMMA MembershipSteps ==
  ASSUME TypeInv, Next
  PROVE  \/ \E p \in Started : register_new_tx(p[1], p[2])
         \/ \E x \in TxIds : remove_tx(x)
         \/ Running' = Running /\ threads' = threads
<1>1. ASSUME NEW t, NEW x, NEW r, add_obj_to_tx(t, x, r)
      PROVE  Running' = Running /\ threads' = threads
  BY <1>1 DEF add_obj_to_tx, Running
<1>2. ASSUME NEW t, NEW x, NEW r, remove_obj_from_tx(t, x, r)
      PROVE  Running' = Running /\ threads' = threads
  BY <1>2 DEF remove_obj_from_tx, Running
<1>3. ASSUME NEW r, add_to_global_excludes(r)
      PROVE  Running' = Running /\ threads' = threads
  BY <1>3 DEF add_to_global_excludes, Running
<1>4. ASSUME NEW t, NEW r, handle_tx_store(t, r)
      PROVE  Running' = Running /\ threads' = threads
  BY <1>4 DEF handle_tx_store, Running
<1> QED
  BY <1>1, <1>2, <1>3, <1>4, Zenon
  DEF Next, ADD_THREAD_TO_TX_N, REMOVE_THREAD_FROM_TX_N

\* What a start does to membership.
LEMMA RegisterMembers ==
  ASSUME NEW t, NEW x, register_new_tx(t, x)
  PROVE  /\ Running' = Running \cup {x}
         /\ DOMAIN threads' = DOMAIN threads \cup {t}
         /\ \A u \in DOMAIN threads : u # t => threads'[u] = threads[u]
         /\ threads'[t] = (IF t \in DOMAIN threads THEN threads[t] ELSE {}) \cup {x}
  BY DEF register_new_tx, Running

\* What an end does to membership: nothing unless the outermost level ends.
LEMMA EndMembers ==
  ASSUME NEW x, remove_tx(x)
  PROVE  \/ Running' = Running /\ threads' = threads
         \/ /\ Running' = Running \ {x}
            /\ threads' = [t \in DOMAIN threads \ (Visited(x) \cap Emptied(x)) |->
                             IF t \in Visited(x) THEN threads[t] \ {x} ELSE threads[t]]
<1>1. CASE x \notin Running
  BY <1>1 DEF remove_tx, Running
<1>2. CASE x \in Running /\ transactions[x].counter > 1
  BY <1>2 DEF remove_tx, Running
<1>3. CASE x \in Running /\ ~(transactions[x].counter > 1)
  BY <1>3 DEF remove_tx, Running, Restrict
<1> QED
  BY <1>1, <1>2, <1>3

\* A running transaction always has a thread that contributes to it.
THEOREM AlwaysHasMember == Spec => []HasMember
<1>1. Init => HasMember
  BY DEF Init, HasMember, Running
<1>2. TypeInv /\ HasMember /\ [Next]_vars => HasMember'
  <2> SUFFICES ASSUME TypeInv, HasMember, [Next]_vars, NEW x \in Running'
               PROVE  \E t \in Threads : is_tx_in_thread(t, x)'
    BY DEF HasMember
  <2>1. ASSUME NEW p \in Started, register_new_tx(p[1], p[2])
        PROVE  \E t \in Threads : is_tx_in_thread(t, x)'
    <3>1. p[1] \in Threads
      BY TransactionsAssumption
    <3>2. /\ Running' = Running \cup {p[2]}
          /\ DOMAIN threads' = DOMAIN threads \cup {p[1]}
          /\ \A u \in DOMAIN threads : u # p[1] => threads'[u] = threads[u]
          /\ threads'[p[1]] = (IF p[1] \in DOMAIN threads THEN threads[p[1]] ELSE {}) \cup {p[2]}
      BY <2>1, RegisterMembers
    <3>3. CASE x = p[2]
      BY <3>1, <3>2, <3>3 DEF is_tx_in_thread
    <3>4. CASE x \in Running
      <4>1. PICK t \in Threads : is_tx_in_thread(t, x)
        BY <3>4 DEF HasMember
      <4>2. t \in DOMAIN threads' /\ x \in threads'[t]
        BY <3>2, <4>1 DEF is_tx_in_thread
      <4> QED
        BY <4>2 DEF is_tx_in_thread
    <3> QED
      BY <3>2, <3>3, <3>4
  <2>2. ASSUME NEW z \in TxIds, remove_tx(z)
        PROVE  \E t \in Threads : is_tx_in_thread(t, x)'
    <3>1. CASE Running' = Running /\ threads' = threads
      BY <3>1 DEF HasMember, is_tx_in_thread
    <3>2. CASE /\ Running' = Running \ {z}
               /\ threads' = [t \in DOMAIN threads \ (Visited(z) \cap Emptied(z)) |->
                               IF t \in Visited(z) THEN threads[t] \ {z} ELSE threads[t]]
      <4>1. PICK t \in Threads : is_tx_in_thread(t, x)
        BY <3>2 DEF HasMember
      <4>2. x # z /\ t \in DOMAIN threads /\ x \in threads[t]
        BY <3>2, <4>1 DEF is_tx_in_thread
      <4>3. t \notin Emptied(z)
        BY <4>2 DEF Emptied
      <4>4. t \in DOMAIN threads' /\ x \in threads'[t]
        BY <3>2, <4>2, <4>3
      <4> QED
        BY <4>4 DEF is_tx_in_thread
    <3> QED
      BY <2>2, <3>1, <3>2, EndMembers
  <2>3. ASSUME Running' = Running, threads' = threads
        PROVE  \E t \in Threads : is_tx_in_thread(t, x)'
    BY <2>3 DEF HasMember, is_tx_in_thread
  <2>4. CASE UNCHANGED vars
    BY <2>3, <2>4 DEF vars, Running
  <2> QED
    BY <2>1, <2>2, <2>3, <2>4, MembershipSteps
<1> QED
  BY <1>1, <1>2, AlwaysTypeInv, PTL DEF Spec

\* The inductive invariant behind NoStaleIds: a thread contributes only to
\* transactions it has started.
OwnIds ==
  /\ \A t \in DOMAIN threads : \A x \in threads[t] : <<t, x>> \in Started
  /\ NoStaleIds

\* A transaction that is not shared leaves no id behind when it ends: the loop
\* of remove_tx may stop early, but only at the one entry that it is after.
THEOREM AlwaysNoStaleIds == Spec => []NoStaleIds
<1>1. Init => OwnIds
  BY DEF Init, OwnIds, NoStaleIds
<1>2. TypeInv /\ OwnIds /\ [Next]_vars => OwnIds'
  <2> SUFFICES ASSUME TypeInv, OwnIds, [Next]_vars
               PROVE  OwnIds'
    OBVIOUS
  <2>1. ASSUME NEW p \in Started, register_new_tx(p[1], p[2])
        PROVE  OwnIds'
    <3>1. p = <<p[1], p[2]>>
      BY TransactionsAssumption
    <3>2. /\ Running' = Running \cup {p[2]}
          /\ DOMAIN threads' = DOMAIN threads \cup {p[1]}
          /\ \A u \in DOMAIN threads : u # p[1] => threads'[u] = threads[u]
          /\ threads'[p[1]] = (IF p[1] \in DOMAIN threads THEN threads[p[1]] ELSE {}) \cup {p[2]}
      BY <2>1, RegisterMembers
    <3> QED
      BY <3>1, <3>2 DEF OwnIds, NoStaleIds
  <2>2. ASSUME NEW z \in TxIds, remove_tx(z)
        PROVE  OwnIds'
    <3>1. CASE Running' = Running /\ threads' = threads
      BY <3>1 DEF OwnIds, NoStaleIds
    <3>2. CASE /\ Running' = Running \ {z}
               /\ threads' = [t \in DOMAIN threads \ (Visited(z) \cap Emptied(z)) |->
                               IF t \in Visited(z) THEN threads[t] \ {z} ELSE threads[t]]
      <4>1. \A t \in DOMAIN threads' : t \in DOMAIN threads /\ threads'[t] \subseteq threads[t]
        BY <3>2
      <4>2. ASSUME Unshared(z), NEW t \in DOMAIN threads, z \in threads[t]
            PROVE  t \in Visited(z)
        <5>1. \A u \in Emptied(z) : u \in DOMAIN threads /\ z \in threads[u]
          BY DEF Emptied, TypeInv, ThreadsOK
        <5>2. \A u \in Emptied(z) : <<u, z>> = <<t, z>>
          BY <4>2, <5>1 DEF OwnIds, Unshared
        <5>3. t \in Nat
          BY TransactionsAssumption DEF TypeInv, ThreadsOK
        <5> QED
          BY <5>2, <5>3 DEF Visited
      <4>3. Unshared(z) => \A t \in DOMAIN threads' : z \notin threads'[t]
        BY <3>2, <4>2
      <4> QED
        BY <3>2, <4>1, <4>3 DEF OwnIds, NoStaleIds
    <3> QED
      BY <2>2, <3>1, <3>2, EndMembers
  <2>3. ASSUME Running' = Running, threads' = threads
        PROVE  OwnIds'
    BY <2>3 DEF OwnIds, NoStaleIds
  <2>4. CASE UNCHANGED vars
    BY <2>3, <2>4 DEF vars, Running
  <2> QED
    BY <2>1, <2>2, <2>3, <2>4, MembershipSteps
<1>3. OwnIds => NoStaleIds
  BY DEF OwnIds
<1> QED
  BY <1>1, <1>2, <1>3, AlwaysTypeInv, PTL DEF Spec
----------------------------------------------------------------------------
\* Starts, ends, stores and excludes leave the logged bytes of a transaction
\* that keeps running alone, although stores move them from its cache to its
\* regions.
LEMMA TrackedUnchanged ==
  ASSUME TypeInv, NEW x \in Running, x \in Running',
         \/ \E p \in Started : register_new_tx(p[1], p[2])
         \/ \E z \in TxIds : remove_tx(z)
         \/ \E r \in Ignored : add_to_global_excludes(r)
         \/ \E t \in Threads, r \in Stores : handle_tx_store(t, r)
  PROVE  Tracked(transactions'[x]) = Tracked(transactions[x])
<1>1. transactions[x] \in TxInfo
  BY DEF TypeInv, TxsOK
<1>2. \A n : Tracked([transactions[x] EXCEPT !.counter = n]) = Tracked(transactions[x])
  <2> DEFINE tx == transactions[x]
  <2>1. tx = [counter |-> tx.counter, regions |-> tx.regions,
              cached_region |-> tx.cached_region]
    BY <1>1, TxInfoFields
  <2> HIDE DEF tx
  <2>2. ASSUME NEW n
        PROVE  /\ [tx EXCEPT !.counter = n].regions = tx.regions
               /\ [tx EXCEPT !.counter = n].cached_region = tx.cached_region
    BY <2>1
  <2>3. \A n : Tracked([tx EXCEPT !.counter = n]) = Tracked(tx)
    BY <2>2 DEF Tracked
  <2> QED
    BY <2>3 DEF tx
<1>3. ASSUME NEW p \in Started, register_new_tx(p[1], p[2])
      PROVE  Tracked(transactions'[x]) = Tracked(transactions[x])
  <2>1. transactions'[x] = IF x = p[2]
                           THEN [transactions[x] EXCEPT !.counter = transactions[x].counter + 1]
                           ELSE transactions[x]
    BY <1>3 DEF register_new_tx
  <2> QED
    BY <1>2, <2>1
<1>4. ASSUME NEW z \in TxIds, remove_tx(z)
      PROVE  Tracked(transactions'[x]) = Tracked(transactions[x])
  <2>1. CASE z \notin Running
    BY <1>4, <2>1 DEF remove_tx
  <2>2. CASE z \in Running /\ transactions[z].counter > 1
    <3>1. transactions'[x] = IF x = z
                             THEN [transactions[x] EXCEPT !.counter = transactions[x].counter - 1]
                             ELSE transactions[x]
      BY <1>4, <2>2 DEF remove_tx, Running
    <3> QED
      BY <1>2, <3>1
  <2>3. CASE z \in Running /\ ~(transactions[z].counter > 1)
    BY <1>4, <2>3 DEF remove_tx, Restrict, Running
  <2> QED
    BY <2>1, <2>2, <2>3
<1>5. ASSUME NEW r \in Ignored, add_to_global_excludes(r)
      PROVE  Tracked(transactions'[x]) = Tracked(transactions[x])
  BY <1>5 DEF add_to_global_excludes
<1>6. ASSUME NEW t \in Threads, NEW r \in Stores, handle_tx_store(t, r)
      PROVE  Tracked(transactions'[x]) = Tracked(transactions[x])
  <2>1. transactions'[x] = flush_cache(transactions[x]) \/ transactions'[x] = transactions[x]
    BY <1>6 DEF handle_tx_store
  <2> QED
    BY <1>1, <2>1, FlushCache
<1> QED
  BY <1>3, <1>4, <1>5, <1>6

\* What add_obj_to_tx does to logged bytes and to cross-transaction events.
LEMMA AddTracks ==
  ASSUME TypeInv, NEW x \in Running, NEW t, NEW r \in Objects,
         add_obj_to_tx(t, x, r), is_tx_in_thread(t, x)
  PROVE  \/ transactions' = transactions /\ exited' = TRUE
         \/ /\ Tracked(transactions'[x]) = Tracked(transactions[x]) \cup Bytes(r)
            /\ cross_tx_reg' = cross_tx_reg +
                 Cardinality({y \in Running \ {x} : Tracked(transactions[y]) \cap Bytes(r) # {}})
<1>1. CASE Registered(x, r) # Events(x, r)
  BY <1>1, Zenon DEF add_obj_to_tx
<1>2. CASE Registered(x, r) = Events(x, r)
  <2>1. cross_tx_reg' = cross_tx_reg + Cardinality(Crossing(x, r))
    <3>1. cross_tx_reg' = cross_tx_reg + Cardinality(Registered(x, r) \ {x})
      BY <1>2, Zenon DEF add_obj_to_tx
    <3>2. Registered(x, r) \ {x} = Crossing(x, r)
      BY <1>2, RegisteredEvents
    <3> QED
      BY <3>1, <3>2, Zenon
  <2>2. transactions' = [transactions EXCEPT ![x] = WithRegion(transactions[x], r)]
    BY <1>2 DEF add_obj_to_tx
  <2>3. ProperRegion(r, NoAddr) /\ \A y \in Running : transactions[y] \in TxInfo
    BY TransactionsAssumption DEF TypeInv, TxsOK
  <2>4. Tracked(WithRegion(transactions[x], r)) = Tracked(transactions[x]) \cup Bytes(r)
    BY <2>3, AddsRegion
  <2>5. transactions'[x] = WithRegion(transactions[x], r)
    BY <2>2 DEF Running
  <2>6. \A y \in Running : Logged(transactions[y], r) <=> Tracked(transactions[y]) \cap Bytes(r) # {}
    BY <2>3, LoggedBytes
  <2>7. Crossing(x, r) = {y \in Running \ {x} : Tracked(transactions[y]) \cap Bytes(r) # {}}
    BY <2>6 DEF Crossing
  <2> QED
    BY <2>1, <2>4, <2>5, <2>7, Zenon
<1> QED
  BY <1>1, <1>2

\* What remove_obj_from_tx does to logged bytes.
LEMMA RemoveTracks ==
  ASSUME TypeInv, NEW x \in Running, NEW t, NEW r \in Objects,
         remove_obj_from_tx(t, x, r), is_tx_in_thread(t, x)
  PROVE  /\ Tracked(transactions'[x]) \subseteq Tracked(transactions[x])
         /\ Tracked(transactions[x]) \ Bytes(r) \subseteq Tracked(transactions'[x])
         /\ ~Overlap(r, transactions[x].cached_region) =>
              Tracked(transactions'[x]) = Tracked(transactions[x]) \ Bytes(r)
<1>1. transactions'[x] = WithoutRegion(transactions[x], r)
  BY DEF remove_obj_from_tx, Running
<1>2. ProperRegion(r, NoAddr) /\ transactions[x] \in TxInfo
  BY TransactionsAssumption DEF TypeInv, TxsOK
<1> QED
  BY <1>1, <1>2, RemovesRegion

\* A request that names transaction z, or a thread that is not in it, leaves
\* the records of the other transactions alone.
LEMMA OthersAlone ==
  ASSUME NEW x \in Running, NEW t, NEW z, NEW r,
         add_obj_to_tx(t, z, r) \/ remove_obj_from_tx(t, z, r),
         x # z \/ ~is_tx_in_thread(t, z)
  PROVE  transactions'[x] = transactions[x]
<1>1. CASE add_obj_to_tx(t, z, r)
  <2>1. \/ transactions' = transactions
        \/ transactions' = [transactions EXCEPT ![z] = WithRegion(transactions[z], r)] /\ is_tx_in_thread(t, z)
    BY <1>1 DEF add_obj_to_tx
  <2> QED
    BY <2>1 DEF Running
<1>2. CASE remove_obj_from_tx(t, z, r)
  <2>1. \/ transactions' = transactions
        \/ transactions' = [transactions EXCEPT ![z] = WithoutRegion(transactions[z], r)] /\ is_tx_in_thread(t, z)
    BY <1>2 DEF remove_obj_from_tx
  <2> QED
    BY <2>1 DEF Running
<1> QED
  BY <1>1, <1>2

\* The requests that remove the empty region change no transaction.
LEMMA RemoveNoRegion ==
  ASSUME TypeInv, NEW x \in Running, NEW t, NEW z, remove_obj_from_tx(t, z, NoRegion)
  PROVE  transactions'[x] = transactions[x]
<1>1. CASE x # z \/ ~is_tx_in_thread(t, z)
  BY <1>1, OthersAlone
<1>2. CASE x = z /\ is_tx_in_thread(t, z)
  <2>1. transactions'[x] = WithoutRegion(transactions[x], NoRegion)
    BY <1>2 DEF remove_obj_from_tx, Running
  <2>2. transactions[x] \in TxInfo
    BY DEF TypeInv, TxsOK
  <2> QED
    BY <2>1, <2>2, RemovesNothing
<1> QED
  BY <1>1, <1>2

\* The logged bytes of a transaction change only by its own requests, and then
\* as asked; each addition registers one event per other transaction concerned.
THEOREM AlwaysTrackedExact == Spec => TrackedExact
<1> DEFINE old(x) == Tracked(transactions[x])
           new(x) == Tracked(transactions'[x])
           added(x, r) ==
             /\ new(x) = old(x) \cup Bytes(r)
             /\ cross_tx_reg' = cross_tx_reg +
                  Cardinality({y \in Running \ {x} : Tracked(transactions[y]) \cap Bytes(r) # {}})
           removed(x, r) ==
             /\ new(x) \subseteq old(x) /\ old(x) \ Bytes(r) \subseteq new(x)
             /\ ~Overlap(r, transactions[x].cached_region) => new(x) = old(x) \ Bytes(r)
           own(x, t) ==
             \E r \in Objects : \/ add_obj_to_tx(t, x, r) /\ added(x, r)
                                \/ remove_obj_from_tx(t, x, r) /\ removed(x, r)
           mine(x) == new(x) # old(x) => \E t \in Threads : is_tx_in_thread(t, x) /\ own(x, t)
           adds(x) == \A t \in Threads, r \in Objects :
                        add_obj_to_tx(t, x, r) /\ is_tx_in_thread(t, x) /\ ~exited' =>
                          Bytes(r) \subseteq new(x)
<1>1. ASSUME TypeInv, Next, NEW x \in Running \cap Running'
      PROVE  mine(x)
  <2>1. ASSUME NEW t \in Threads, NEW z, NEW r \in Objects, add_obj_to_tx(t, z, r)
        PROVE  mine(x)
    <3>1. CASE x # z \/ ~is_tx_in_thread(t, z)
      BY <1>1, <2>1, <3>1, OthersAlone
    <3>2. CASE x = z /\ is_tx_in_thread(t, z)
      <4>1. x \in Running /\ add_obj_to_tx(t, x, r) /\ is_tx_in_thread(t, x)
        BY <1>1, <2>1, <3>2, Zenon
      <4>2. transactions' = transactions \/ added(x, r)
        BY <1>1, <4>1, AddTracks, Zenon
      <4>3. new(x) = old(x) \/ added(x, r)
        BY <4>2, Zenon
      <4> HIDE DEF new, old, added
      <4> QED
        BY <4>1, <4>3, Zenon
    <3> QED
      BY <3>1, <3>2
  <2>2. ASSUME NEW t \in Threads, NEW z, NEW r \in Objects, remove_obj_from_tx(t, z, r)
        PROVE  mine(x)
    <3>1. CASE x # z \/ ~is_tx_in_thread(t, z)
      BY <1>1, <2>2, <3>1, OthersAlone
    <3>2. CASE x = z /\ is_tx_in_thread(t, z)
      <4>1. removed(x, r)
        BY <1>1, <2>2, <3>2, RemoveTracks
      <4> QED
        BY <2>2, <3>2, <4>1
    <3> QED
      BY <3>1, <3>2
  <2>3. ASSUME NEW t \in Threads, NEW z, remove_obj_from_tx(t, z, NoRegion)
        PROVE  mine(x)
    BY <1>1, <2>3, RemoveNoRegion
  <2>4. ASSUME \/ \E p \in Started : register_new_tx(p[1], p[2])
               \/ \E z \in TxIds : remove_tx(z)
               \/ \E r \in Ignored : add_to_global_excludes(r)
               \/ \E t \in Threads, r \in Stores : handle_tx_store(t, r)
        PROVE  mine(x)
    BY <1>1, <2>4, TrackedUnchanged
  <2> HIDE DEF mine
  <2> QED
    BY <1>1, <2>1, <2>2, <2>3, <2>4, Zenon
    DEF Next, ADD_THREAD_TO_TX_N, REMOVE_THREAD_FROM_TX_N
<1>2. ASSUME TypeInv, Next, NEW x \in Running \cap Running'
      PROVE  adds(x)
  <2> SUFFICES ASSUME NEW t \in Threads, NEW r \in Objects, add_obj_to_tx(t, x, r),
                      is_tx_in_thread(t, x), ~exited'
               PROVE  Bytes(r) \subseteq new(x)
    BY Zenon
  <2>1. \/ exited' = TRUE
        \/ new(x) = old(x) \cup Bytes(r)
    BY <1>2, AddTracks, Zenon
  <2>2. new(x) = old(x) \cup Bytes(r)
    BY <2>1, Zenon
  <2> QED
    BY <2>2
<1>3. TypeInv /\ [Next]_vars =>
        [TrackedStep]_vars
  <2>1. ASSUME TypeInv, Next
        PROVE  \A x \in Running \cap Running' : mine(x) /\ adds(x)
    BY <1>1, <1>2, <2>1, Zenon
  <2>2. ASSUME TypeInv, Next
        PROVE  TrackedStep
    BY <2>1, <2>2, Zenon DEF TrackedStep
  <2> QED
    BY <2>2, Zenon
<1> QED
  BY <1>3, AlwaysTypeInv, PTL DEF Spec, TrackedExact
============================================================================
