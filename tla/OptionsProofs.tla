--------------------------- MODULE OptionsProofs ---------------------------
(* Proofs about the tracking of stores under --mult-stores and             *)
(* --tree-reorganization.                                                  *)
EXTENDS StoreOptions, TrackerRules, TLAPS

\* Zenon is quicker on most steps and SMT does arithmetic.
USE ZenonT(3), SMTT(15), ZenonT(20)
----------------------------------------------------------------------------
(* The constants and the boxes.  The lemmas of StoreTrackerProofs are not  *)
(* in reach: its other facts would only slow down the proofs here.         *)

\* The constants as the proofs use them.
LEMMA ConstantRanges ==
  /\ NoAddr \in Nat \ {0} /\ MAX_ARRAY_NUM \in Nat
  /\ \A r \in Stores : IsRange(r)
  /\ \A f \in FlushRanges : IsRange(f)
  /\ \A r \in Cleans : IsRange(r)
  BY StoreTrackerAssumption DEF IsRange

\* Widen makes a box span one more region, and no less than before.
LEMMA WidenedBox ==
  ASSUME NEW b, ProperBox(b, NoAddr),
         "min_add" \in DOMAIN b, "max_add" \in DOMAIN b,
         NEW r, r.addr \in Nat, r.size \in Nat, End(r) < NoAddr
  PROVE  /\ ProperBox(Widen(b, r), NoAddr)
         /\ Spans(Widen(b, r), r)
         /\ \A e : e.addr \in Nat /\ End(e) \in Nat /\ End(e) < NoAddr /\ e.addr < NoAddr /\ Spans(b, e)
                   => Spans(Widen(b, r), e)
  BY ConstantRanges DEF ProperBox, Widen, Spans, End

\* The box computed from scratch spans every region of the set.
LEMMA WholeBox ==
  ASSUME NaturalSets, NEW S,
         \A e \in S : e.addr \in Nat /\ e.addr < NoAddr /\ End(e) \in Nat /\ End(e) < NoAddr
  PROVE  /\ BoxOf(S) \in [min_add : 0 .. NoAddr, max_add : 0 .. NoAddr]
         /\ ProperBox(BoxOf(S), NoAddr)
         /\ S = {} <=> BoxOf(S) = EmptyBox
         /\ \A e \in S : Spans(BoxOf(S), e)
<1>1. CASE S = {}
  BY <1>1, ConstantRanges DEF BoxOf, EmptyBox, ProperBox
<1>2. CASE S # {}
  <2> DEFINE starts == {e.addr : e \in S}
             ends == {End(e) : e \in S}
  <2>1. /\ NoAddr \in Int
        /\ starts \subseteq 0 .. NoAddr /\ starts # {} /\ ends \subseteq 0 .. NoAddr /\ ends # {}
    BY <1>2, ConstantRanges
  <2>2. Min(starts) \in starts /\ \A y \in starts : Min(starts) <= y
    BY <2>1 DEF NaturalSets
  <2>3. Max(ends) \in ends /\ \A y \in ends : Max(ends) >= y
    BY <2>1 DEF NaturalSets
  <2>4. BoxOf(S) = [min_add |-> Min(starts), max_add |-> Max(ends)]
    BY <1>2 DEF BoxOf
  <2> HIDE DEF starts, ends
  <2>5. /\ Min(starts) \in Nat /\ Min(starts) < NoAddr
        /\ Max(ends) \in Nat /\ Max(ends) < NoAddr
    BY <2>2, <2>3 DEF starts, ends
  <2>6. \A e \in S : e.addr \in starts /\ End(e) \in ends
    BY DEF starts, ends
  <2> QED
    BY <1>2, <2>1, <2>2, <2>3, <2>4, <2>5, <2>6 DEF ProperBox, Spans, EmptyBox
<1> QED
  BY <1>1, <1>2
----------------------------------------------------------------------------
(* Entries of the array and of the tree.  They have a context or not, so   *)
(* that they are described by the fields that matter.                      *)

IsEntry(e) ==
  /\ e = [k \in DOMAIN e |-> e[k]]
  /\ {"addr", "size", "state", "is_delete"} \subseteq DOMAIN e

Piece(e) == IsEntry(e) /\ e.addr \in Nat /\ e.size \in Nat \ {0} /\ End(e) < NoAddr

\* A piece of a region that the program stores to.
OfStore(e) == Piece(e) /\ \E s \in Stores : Within(e, s)

\* What is left of an entry in front of, inside and behind a range.
LEMMA EntryParts ==
  ASSUME NEW e, Piece(e), NEW f, IsRange(f), Overlap(e, f)
  PROVE  /\ LET d == FlushedPart(e, f)
            IN  Piece(d) /\ Within(d, e) /\ Within(d, f) /\ d.is_delete = e.is_delete
         /\ e.addr < f.addr =>
              LET d == LeftPart(e, f)
              IN  Piece(d) /\ Within(d, e) /\ End(d) = f.addr /\ d.is_delete = e.is_delete
         /\ End(e) > End(f) =>
              LET d == RightPart(e, f)
              IN  Piece(d) /\ Within(d, e) /\ d.addr = End(f) /\ d.is_delete = e.is_delete
<1>1. /\ IsEntry(e) /\ e.addr \in Nat /\ e.size \in Nat \ {0} /\ e.addr + e.size < NoAddr
      /\ f.addr \in Nat /\ f.size \in Nat \ {0} /\ f.addr + f.size < NoAddr /\ NoAddr \in Nat
      /\ e.addr < f.addr + f.size /\ f.addr < e.addr + e.size
  BY ConstantRanges DEF Piece, IsRange, Overlap, End
<1>2. /\ LET d == FlushedPart(e, f)
         IN  Piece(d) /\ Within(d, e) /\ Within(d, f) /\ d.is_delete = e.is_delete
  <2> DEFINE lo == IF e.addr < f.addr THEN f.addr ELSE e.addr
             hi == IF End(e) > End(f) THEN End(f) ELSE End(e)
  <2>1. /\ lo \in Nat /\ hi - lo \in Nat \ {0} /\ lo + (hi - lo) = hi
        /\ hi < NoAddr /\ e.addr <= lo /\ hi <= End(e) /\ f.addr <= lo /\ hi <= End(f)
    BY <1>1, SMT DEF End
  <2>2. FlushedPart(e, f) = [e EXCEPT !.addr = lo, !.size = hi - lo, !.state = "FLUSHED"]
    BY DEF FlushedPart
  <2> HIDE DEF lo, hi
  <2>3. LET d == FlushedPart(e, f)
        IN  IsEntry(d) /\ d.addr = lo /\ d.size = hi - lo /\ d.is_delete = e.is_delete
    BY <1>1, <2>2 DEF IsEntry
  <2>4. End(FlushedPart(e, f)) = hi
    BY <2>1, <2>3 DEF End
  <2> QED
    BY <2>1, <2>3, <2>4 DEF Piece, Within
<1>3. ASSUME e.addr < f.addr
      PROVE  LET d == LeftPart(e, f)
             IN  Piece(d) /\ Within(d, e) /\ End(d) = f.addr /\ d.is_delete = e.is_delete
  <2>1. /\ f.addr - e.addr \in Nat \ {0} /\ e.addr + (f.addr - e.addr) = f.addr
        /\ f.addr < NoAddr /\ f.addr <= End(e) /\ e.addr <= e.addr
    BY <1>1, <1>3, SMT DEF End
  <2>2. LET d == LeftPart(e, f)
        IN  IsEntry(d) /\ d.addr = e.addr /\ d.size = f.addr - e.addr /\ d.is_delete = e.is_delete
    BY <1>1 DEF IsEntry, LeftPart
  <2>3. End(LeftPart(e, f)) = f.addr
    BY <2>1, <2>2 DEF End
  <2> QED
    BY <1>1, <2>1, <2>2, <2>3 DEF Piece, Within
<1>4. ASSUME End(e) > End(f)
      PROVE  LET d == RightPart(e, f)
             IN  Piece(d) /\ Within(d, e) /\ d.addr = End(f) /\ d.is_delete = e.is_delete
  <2>1. /\ End(f) \in Nat /\ End(e) - End(f) \in Nat \ {0} /\ End(f) + (End(e) - End(f)) = End(e)
        /\ End(e) < NoAddr /\ e.addr <= End(f) /\ End(e) <= End(e)
    BY <1>1, <1>4, SMT DEF End
  <2>2. RightPart(e, f) = [e EXCEPT !.addr = End(f), !.size = End(e) - End(f)]
    BY DEF RightPart
  <2>3. LET d == RightPart(e, f)
        IN  IsEntry(d) /\ d.addr = End(f) /\ d.size = End(e) - End(f) /\ d.is_delete = e.is_delete
    BY <1>1, <2>2 DEF IsEntry
  <2>4. End(RightPart(e, f)) = End(e)
    BY <2>1, <2>3 DEF End
  <2> QED
    BY <2>1, <2>3, <2>4 DEF Piece, Within
<1> QED
  BY <1>2, <1>3, <1>4

\* Two entries that lie in two that do not overlap do not overlap.
LEMMA WithinApart ==
  ASSUME NEW d, NEW e, NEW x, NEW y, Piece(d), Piece(e), Piece(x), Piece(y),
         Within(x, d), Within(y, e), ~Overlap(d, e)
  PROVE  ~Overlap(x, y)
  BY SMT DEF Within, Overlap, Piece, End

\* Overlapping is symmetric, and a part of a part is a part.
LEMMA OverlapSymmetric == \A x, y : Overlap(x, y) <=> Overlap(y, x)
  BY DEF Overlap

\* A piece of a piece is a piece: split_off cuts again what was cut.
LEMMA WithinTransitive ==
  ASSUME NEW x, NEW y, NEW z, Piece(x), Piece(y), z.addr \in Nat, End(z) \in Nat,
         Within(x, y), Within(y, z)
  PROVE  Within(x, z)
  BY SMT DEF Within, Piece, End
----------------------------------------------------------------------------
(* Sets of disjoint pieces.                                                *)

Disjoint(S) == \A x, y \in S : x # y => ~Overlap(x, y)

Pieces(S) == \A e \in S : Piece(e)

\* Each piece of a set is replaced by parts of it.
LEMMA PartsOfPieces ==
  ASSUME NEW S, Pieces(S), NEW parts,
         \A e \in S : Disjoint(parts[e]) /\ \A x \in parts[e] : Piece(x) /\ Within(x, e)
  PROVE  LET T == UNION {parts[e] : e \in S}
         IN  /\ Pieces(T)
             /\ \A x \in T : \E e \in S : Within(x, e)
             /\ Disjoint(S) => Disjoint(T)
<1> DEFINE T == UNION {parts[e] : e \in S}
<1>1. \A x \in T : \E e \in S : x \in parts[e]
  OBVIOUS
<1>2. ASSUME Disjoint(S), NEW x \in T, NEW y \in T, x # y
      PROVE  ~Overlap(x, y)
  <2>1. PICK d \in S : x \in parts[d]
    BY <1>1
  <2>2. PICK e \in S : y \in parts[e]
    BY <1>1
  <2>3. CASE d = e
    BY <1>2, <2>1, <2>2, <2>3 DEF Disjoint
  <2>4. CASE d # e
    <3>1. ~Overlap(d, e)
      BY <1>2, <2>4 DEF Disjoint
    <3> QED
      BY <2>1, <2>2, <3>1, WithinApart DEF Pieces
  <2> QED
    BY <2>3, <2>4
<1> QED
  BY <1>1, <1>2 DEF Pieces, Disjoint

\* split_stores: what is left beside the new store does not overlap it.
LEMMA SplitOffParts ==
  ASSUME NEW e, Piece(e), NEW new, IsRange(new)
  PROVE  /\ Disjoint(SplitOff(e, new))
         /\ \A x \in SplitOff(e, new) : Piece(x) /\ Within(x, e) /\ ~Overlap(x, new)
<1>1. CASE ~Overlap(e, new)
  <2>1. SplitOff(e, new) = {e}
    BY <1>1 DEF SplitOff
  <2>2. Within(e, e)
    BY SMT DEF Piece, Within, End
  <2> QED
    BY <1>1, <2>1, <2>2 DEF Disjoint
<1>2. CASE Overlap(e, new)
  <2>1. ASSUME NEW x \in SplitOff(e, new)
        PROVE  (x = LeftPart(e, new) /\ e.addr < new.addr) \/ (x = RightPart(e, new) /\ End(e) > End(new))
    BY <1>2 DEF SplitOff
  <2>2. ASSUME e.addr < new.addr
        PROVE  LET x == LeftPart(e, new)
               IN  Piece(x) /\ Within(x, e) /\ ~Overlap(x, new) /\ End(x) = new.addr
    <3>1. LET x == LeftPart(e, new) IN Piece(x) /\ Within(x, e) /\ End(x) = new.addr
      BY <1>2, <2>2, EntryParts
    <3> QED
      BY <3>1, SMT DEF Overlap, IsRange
  <2>3. ASSUME End(e) > End(new)
        PROVE  LET x == RightPart(e, new)
               IN  Piece(x) /\ Within(x, e) /\ ~Overlap(x, new) /\ x.addr = End(new)
    <3>1. LET x == RightPart(e, new) IN Piece(x) /\ Within(x, e) /\ x.addr = End(new)
      BY <1>2, <2>3, EntryParts
    <3>2. End(new) \in Nat
      BY SMT DEF IsRange, End
    <3> QED
      BY <3>1, <3>2, SMT DEF Overlap
  <2>4. ASSUME e.addr < new.addr, End(e) > End(new)
        PROVE  ~Overlap(LeftPart(e, new), RightPart(e, new)) /\ ~Overlap(RightPart(e, new), LeftPart(e, new))
    <3>1. new.addr < End(new) /\ new.addr \in Nat /\ End(new) \in Nat
      BY SMT DEF IsRange, End
    <3> QED
      BY <2>2, <2>3, <2>4, <3>1, SMT DEF Overlap
  <2> QED
    BY <2>1, <2>2, <2>3, <2>4 DEF Disjoint
<1> QED
  BY <1>1, <1>2

\* do_flush, for a node: the part inside the range and the parts beside it.
LEMMA FlushNodeParts ==
  ASSUME NEW e, Piece(e), NEW f, IsRange(f)
  PROVE  /\ Disjoint(OptFlushNode(e, f))
         /\ \A x \in OptFlushNode(e, f) : Piece(x) /\ Within(x, e)
<1> DEFINE m == FlushedPart(e, f)
           l == LeftPart(e, f)
           z == [ZeroStore EXCEPT !.addr = End(f), !.size = End(e) - End(f), !.state = "DIRTY"]
<1>1. CASE ~(e.state = "DIRTY" /\ Overlap(f, e))
  <2>1. OptFlushNode(e, f) = {e}
    BY <1>1 DEF OptFlushNode
  <2>2. Within(e, e)
    BY SMT DEF Piece, Within, End
  <2> QED
    BY <2>1, <2>2 DEF Disjoint
<1>2. CASE e.state = "DIRTY" /\ Overlap(f, e)
  <2>1. Overlap(e, f)
    BY <1>2, OverlapSymmetric
  <2>2. ASSUME NEW x \in OptFlushNode(e, f)
        PROVE  x = m \/ (x = l /\ e.addr < f.addr) \/ (x = z /\ End(e) > End(f))
    BY <1>2 DEF OptFlushNode
  <2>3. Piece(m) /\ Within(m, e) /\ Within(m, f)
    BY <2>1, EntryParts
  <2>4. e.addr < f.addr => Piece(l) /\ Within(l, e) /\ End(l) = f.addr
    BY <2>1, EntryParts
  <2>5. /\ f.addr \in Nat /\ End(f) \in Nat /\ f.addr < End(f) /\ End(f) < NoAddr
        /\ e.addr \in Nat /\ End(e) \in Nat /\ End(e) < NoAddr /\ e.addr < End(f)
    BY <2>1, SMT DEF IsRange, End, Piece, Overlap
  <2>6. End(e) > End(f) => Piece(z) /\ Within(z, e) /\ z.addr = End(f)
    <3> HAVE End(e) > End(f)
    <3>1. IsEntry(z) /\ z.addr = End(f) /\ z.size = End(e) - End(f)
      BY DEF ZeroStore, IsEntry
    <3>2. z.size \in Nat \ {0} /\ z.addr \in Nat /\ End(f) + (End(e) - End(f)) = End(e)
      BY <2>5, <3>1, SMT
    <3>3. End(z) = End(e) /\ End(e) <= End(e) /\ e.addr <= End(f)
      <4>1. z.addr + z.size = End(e)
        BY <3>1, <3>2
      <4> QED
        BY <2>5, <4>1, SMT DEF End
    <3> HIDE DEF z
    <3> QED
      BY <2>5, <3>1, <3>2, <3>3 DEF Piece, Within
  <2> HIDE DEF m, l, z
  <2>7. /\ e.addr < f.addr => ~Overlap(l, m) /\ ~Overlap(m, l)
        /\ End(e) > End(f) => ~Overlap(z, m) /\ ~Overlap(m, z)
        /\ e.addr < f.addr /\ End(e) > End(f) => ~Overlap(l, z) /\ ~Overlap(z, l)
    BY <2>3, <2>4, <2>5, <2>6, SMT DEF Overlap, Within, Piece, End
  <2> QED
    BY <2>2, <2>3, <2>4, <2>6, <2>7 DEF Disjoint
<1> QED
  BY <1>1, <1>2

\* SET_CLEAN, for a node: the parts beside the range.
LEMMA CleanNodeParts ==
  ASSUME NEW e, Piece(e), NEW r, IsRange(r)
  PROVE  /\ Disjoint(CleanNode(e, r))
         /\ \A x \in CleanNode(e, r) : Piece(x) /\ Within(x, e)
<1> DEFINE l == LeftPart(e, r)
           t == RightPart(e, r)
           z == BeyondIn(ZeroStore, e, r)
<1>1. CASE ~Overlap(e, r)
  <2>1. CleanNode(e, r) = {e}
    BY <1>1 DEF CleanNode
  <2>2. Within(e, e)
    BY SMT DEF Piece, Within, End
  <2> QED
    BY <2>1, <2>2 DEF Disjoint
<1>2. CASE Overlap(e, r)
  <2>1. /\ r.addr \in Nat /\ End(r) \in Nat /\ r.addr < End(r) /\ End(r) < NoAddr
        /\ e.addr \in Nat /\ End(e) \in Nat /\ End(e) < NoAddr /\ e.addr < End(r)
    BY <1>2, SMT DEF IsRange, End, Piece, Overlap
  <2>2. ASSUME NEW x \in CleanNode(e, r)
        PROVE  \/ x = l /\ e.addr < r.addr
               \/ x = t /\ End(e) > End(r) /\ ~(e.addr < r.addr)
               \/ x = z /\ e.addr < r.addr /\ End(e) > End(r)
    <3>1. ~Within(e, r)
      BY <1>2, <2>2 DEF CleanNode
    <3>2. e.addr < r.addr \/ End(e) > End(r)
      BY <2>1, <3>1, SMT DEF Within
    <3>3. x = Cut(e, r) \/ (x = z /\ e.addr < r.addr /\ End(e) > End(r))
      BY <1>2, <2>2, <3>1 DEF CleanNode
    <3> QED
      BY <3>2, <3>3 DEF Cut
  <2>3. e.addr < r.addr => Piece(l) /\ Within(l, e) /\ End(l) = r.addr
    BY <1>2, EntryParts
  <2>4. End(e) > End(r) => Piece(t) /\ Within(t, e)
    BY <1>2, EntryParts
  <2>5. End(e) > End(r) => Piece(z) /\ Within(z, e) /\ z.addr = End(r)
    <3> HAVE End(e) > End(r)
    <3>1. IsEntry(z) /\ z.addr = End(r) /\ z.size = End(e) - End(r)
      BY DEF ZeroStore, IsEntry, BeyondIn
    <3>2. z.size \in Nat \ {0} /\ z.addr \in Nat /\ End(r) + (End(e) - End(r)) = End(e)
      BY <2>1, <3>1, SMT
    <3>3. End(z) = End(e) /\ End(e) <= End(e) /\ e.addr <= End(r)
      <4>1. z.addr + z.size = End(e)
        BY <3>1, <3>2
      <4> QED
        BY <2>1, <4>1, SMT DEF End
    <3> HIDE DEF z
    <3> QED
      BY <2>1, <3>1, <3>2, <3>3 DEF Piece, Within
  <2> HIDE DEF l, t, z
  <2>6. e.addr < r.addr /\ End(e) > End(r) => ~Overlap(l, z) /\ ~Overlap(z, l)
    BY <2>1, <2>3, <2>5, SMT DEF Overlap
  <2> QED
    BY <2>2, <2>3, <2>4, <2>5, <2>6 DEF Disjoint
<1> QED
  BY <1>1, <1>2

\* add_and_merge_store: the merged store reaches from the start to the end of
\* stores that were merged.  It stays away from every region that stays away
\* from all of them.
LEMMA MergedPiece ==
  ASSUME NaturalSets, NEW new, Piece(new), NEW S, Pieces(S)
  PROVE  LET m == Merged(new, S)
         IN  /\ Piece(m)
             /\ \A a : /\ a.addr \in Nat /\ End(a) \in Nat /\ a.addr < End(a) /\ ~Overlap(a, new)
                       /\ \A e \in Neighbours(new, S) : ~Overlap(a, e)
                       => ~Overlap(a, m)
<1> DEFINE all == {new} \cup Neighbours(new, S)
           lo == Min({e.addr : e \in all})
           hi == Max({End(e) : e \in all})
           m == Merged(new, S)
<1>1. IsRange(new) /\ NoAddr \in Nat
  BY ConstantRanges DEF Piece, IsRange
<1>2. \A e \in Neighbours(new, S) : Piece(e) /\ (End(e) = new.addr \/ e.addr = End(new))
  BY <1>1, SplitOffParts DEF Neighbours, Pieces
<1>3. \A e \in all : /\ e.addr \in 0 .. NoAddr /\ End(e) \in 0 .. NoAddr /\ e.addr < End(e)
                     /\ End(e) < NoAddr /\ e.addr \in Nat /\ End(e) \in Nat
  <2>1. \A e \in all : Piece(e)
    BY <1>2
  <2> HIDE DEF all
  <2> QED
    BY <1>1, <2>1, SMT DEF Piece, End
<1>4. /\ {e.addr : e \in all} \in SUBSET (0 .. NoAddr) /\ {e.addr : e \in all} # {}
      /\ {End(e) : e \in all} \in SUBSET (0 .. NoAddr) /\ {End(e) : e \in all} # {}
      /\ NoAddr \in Int
  <2>1. NoAddr \in Int
    BY <1>1, SMT
  <2> QED
    BY <1>3, <2>1
<1>5. /\ \E e \in all : lo = e.addr
      /\ \A e \in all : lo <= e.addr
      /\ \E e \in all : hi = End(e)
      /\ \A e \in all : hi >= End(e)
  <2>1. PICK A : A = {e.addr : e \in all}
    OBVIOUS
  <2>2. PICK E : E = {End(e) : e \in all}
    OBVIOUS
  <2>3. Min(A) \in A /\ (\A y \in A : Min(A) <= y) /\ Max(E) \in E /\ \A y \in E : Max(E) >= y
    BY <1>4, <2>1, <2>2, ZenonT(60) DEF NaturalSets
  <2> HIDE DEF all
  <2> QED
    BY <2>1, <2>2, <2>3
<1>6. PICK d \in all : lo = d.addr
  BY <1>5
<1>7. PICK e \in all : hi = End(e)
  BY <1>5
<1>8. lo <= new.addr /\ hi >= End(new) /\ new \in all
  BY <1>5
<1> HIDE DEF lo, hi
<1>9. lo \in Nat /\ hi \in Nat /\ hi < NoAddr /\ hi - lo \in Nat \ {0} /\ lo + (hi - lo) = hi
  BY <1>3, <1>6, <1>7, <1>8, SMT
<1>10. IsEntry(m) /\ m.addr = lo /\ m.size = hi - lo
  <2>1. m = [new EXCEPT !.addr = lo, !.size = hi - lo]
    BY DEF Merged, lo, hi
  <2> HIDE DEF m
  <2> QED
    BY <2>1 DEF Piece, IsEntry
<1>11. End(m) = hi
  BY <1>9, <1>10 DEF End
<1>12. Piece(m)
  BY <1>9, <1>10, <1>11 DEF Piece
<1>13. ASSUME NEW a, a.addr \in Nat, End(a) \in Nat, a.addr < End(a), ~Overlap(a, new),
              \A x \in Neighbours(new, S) : ~Overlap(a, x)
       PROVE  ~Overlap(a, m)
  <2>1. ~Overlap(a, d) /\ ~Overlap(a, e)
    BY <1>13
  <2>2. (d = new \/ End(d) = new.addr \/ d.addr = End(new)) /\ (e = new \/ End(e) = new.addr \/ e.addr = End(new))
    BY <1>2
  <2> HIDE DEF m, all
  <2> QED
    BY <1>3, <1>6, <1>7, <1>8, <1>10, <1>11, <1>13, <2>1, <2>2, SMT DEF Overlap
<1> QED
  BY <1>12, <1>13

\* Insert, into a tree or a reorganised tree.
LEMMA InsertPieces ==
  ASSUME NaturalSets, NEW new, Piece(new), NEW S, Pieces(S)
  PROVE  /\ Pieces(Insert(new, S))
         /\ \A a : /\ Piece(a) /\ ~Overlap(a, new) /\ \A e \in S : ~Overlap(a, e)
                   => \A x \in Insert(new, S) : ~Overlap(a, x)
         /\ Disjoint(S) /\ (tree_reorganization \/ \A e \in S : ~Overlap(e, new))
            => Disjoint(Insert(new, S))
         /\ \A x \in Insert(new, S) : \/ x = IF tree_reorganization THEN Merged(new, S) ELSE new
                                      \/ \E e \in S : Within(x, e)
<1>1. CASE tree_reorganization
  <2> DEFINE parts == [e \in S |-> SplitOff(e, new)]
             T == UNION {parts[e] : e \in S}
             N == Neighbours(new, S)
             m == Merged(new, S)
  <2>1. IsRange(new)
    BY DEF Piece, IsRange
  <2>2. \A e \in S : /\ Disjoint(parts[e])
                     /\ \A x \in parts[e] : Piece(x) /\ Within(x, e) /\ ~Overlap(x, new)
    BY <2>1, SplitOffParts DEF Pieces
  <2>3. Pieces(T) /\ (\A x \in T : \E e \in S : Within(x, e)) /\ (Disjoint(S) => Disjoint(T))
    <3> HIDE DEF parts
    <3> QED
      BY <2>2, PartsOfPieces
  <2>4. Insert(new, S) = (T \ N) \cup {m} /\ N \subseteq T
    <3>1. T = UNION {SplitOff(old, new) : old \in S}
      OBVIOUS
    <3>2. N \subseteq UNION {SplitOff(old, new) : old \in S}
      BY DEF Neighbours
    <3>3. Insert(new, S) = ((UNION {SplitOff(old, new) : old \in S}) \ N) \cup {m}
      BY <1>1 DEF Insert, add_and_merge_store
    <3> HIDE DEF T, N, m
    <3> QED
      BY <3>1, <3>2, <3>3
  <2>5. \A x \in T : ~Overlap(x, new)
    BY <2>2
  <2>6. /\ Piece(m)
        /\ \A a : /\ a.addr \in Nat /\ End(a) \in Nat /\ a.addr < End(a) /\ ~Overlap(a, new)
                  /\ \A e \in N : ~Overlap(a, e)
                  => ~Overlap(a, m)
    BY MergedPiece
  <2>7. \A a : Piece(a) => a.addr \in Nat /\ End(a) \in Nat /\ a.addr < End(a)
    BY SMT DEF Piece, End
  <2>8. ASSUME NEW a, Piece(a), \A e \in S : ~Overlap(a, e), NEW x \in T
        PROVE  ~Overlap(a, x)
    <3>1. PICK e \in S : Within(x, e)
      BY <2>3
    <3>2. Within(a, a)
      BY <2>8, SMT DEF Within, Piece, End
    <3> HIDE DEF T
    <3> QED
      BY <2>3, <2>8, <3>1, <3>2, WithinApart DEF Pieces
  <2> HIDE DEF T, N, m, parts
  <2>9. ASSUME NEW a, Piece(a), ~Overlap(a, new), \A e \in S : ~Overlap(a, e),
               NEW x \in Insert(new, S)
        PROVE  ~Overlap(a, x)
    <3>1. ~Overlap(a, m)
      BY <2>4, <2>6, <2>7, <2>8, <2>9
    <3> QED
      BY <2>4, <2>8, <2>9, <3>1
  <2>10. ASSUME Disjoint(S), NEW x \in T \ N
         PROVE  ~Overlap(x, m) /\ ~Overlap(m, x)
    <3>1. \A e \in N : ~Overlap(x, e)
      BY <2>3, <2>4, <2>10 DEF Disjoint
    <3> QED
      BY <2>3, <2>5, <2>6, <2>7, <3>1, OverlapSymmetric DEF Pieces
  <2>11. Disjoint(S) => Disjoint(Insert(new, S))
    BY <2>3, <2>4, <2>10 DEF Disjoint
  <2>12. Pieces(Insert(new, S))
    BY <2>3, <2>4, <2>6 DEF Pieces
  <2>13. \A x \in Insert(new, S) : x = m \/ \E e \in S : Within(x, e)
    BY <2>3, <2>4
  <2> QED
    BY <1>1, <2>9, <2>11, <2>12, <2>13 DEF m
<1>2. CASE ~tree_reorganization
  <2>1. Insert(new, S) = S \cup {new}
    BY <1>2 DEF Insert
  <2>2. \A e \in S : Within(e, e)
    BY SMT DEF Within, Pieces, Piece, End
  <2> QED
    BY <1>2, <2>1, <2>2, OverlapSymmetric DEF Pieces, Disjoint
<1> QED
  BY <1>1, <1>2
----------------------------------------------------------------------------
(* Stores inserted one after the other.                                    *)

\* Induction up to N, for a set of numbers.
LEMMA UpTo ==
  ASSUME NaturalSets, NEW N \in Nat, NEW P, 0 \in P, \A n \in 0 .. N - 1 : n \in P => n + 1 \in P
  PROVE  \A n \in 0 .. N : n \in P
<1> DEFINE Q == (0 .. N) \ P
<1>1. SUFFICES ASSUME Q # {} PROVE FALSE
  OBVIOUS
<1>2. Min(Q) \in Q /\ \A y \in Q : Min(Q) <= y
  <2>1. Q \in SUBSET (0 .. N) /\ N \in Int
    BY SMT
  <2> HIDE DEF Q
  <2> QED
    BY <1>1, <2>1 DEF NaturalSets
<1>3. PICK m \in Q : \A y \in Q : m <= y
  BY <1>2
<1>4. m \in Nat /\ m # 0 /\ m - 1 \in 0 .. N - 1 /\ m - 1 \in 0 .. N /\ (m - 1) + 1 = m /\ ~(m <= m - 1)
  BY <1>3, SMT
<1>5. m - 1 \in P
  BY <1>3, <1>4
<1> QED
  BY <1>3, <1>4, <1>5

\* InsertAll inserts the first store, then the second, and so on.
LEMMA InsertAllSteps ==
  ASSUME NaturalSets, NEW news, NEW S, Len(news) \in Nat
  PROVE  \E g : /\ g[0] = S
                /\ \A n \in 1 .. Len(news) : g[n] = Insert(news[n], g[n - 1])
                /\ InsertAll(news, S) = g[Len(news)]
<1> DEFINE N == Len(news)
           Steps(g, k) == g = [n \in 0 .. k |-> IF n = 0 THEN S ELSE Insert(news[n], g[n - 1])]
           P == {k \in 0 .. N : \E g : Steps(g, k)}
<1>1. N \in Nat
  OBVIOUS
<1>2. InsertAll(news, S) = (CHOOSE g : Steps(g, N))[N]
  BY DEF InsertAll
<1> HIDE DEF N
<1>3. 0 \in P
  <2>1. Steps([n \in 0 .. 0 |-> S], 0)
    BY SMT
  <2>2. 0 \in 0 .. N
    BY <1>1, SMT
  <2> HIDE DEF Steps
  <2> QED
    BY <2>1, <2>2
<1>4. ASSUME NEW k \in 0 .. N - 1, k \in P
      PROVE  k + 1 \in P
  <2>1. PICK g : Steps(g, k)
    BY <1>4
  <2>2. /\ k \in Nat /\ k + 1 \in 0 .. N /\ k + 1 \in 0 .. k + 1 /\ k + 1 # 0 /\ (k + 1) - 1 = k /\ k # k + 1
        /\ \A n \in 0 .. k + 1 : n # 0 => n - 1 \in 0 .. k /\ n - 1 # k + 1
        /\ \A n \in 0 .. k + 1 : n # k + 1 => n \in 0 .. k
    BY <1>1, <1>4, SMT
  <2> DEFINE h == [n \in 0 .. k + 1 |-> IF n = k + 1 THEN Insert(news[k + 1], g[k]) ELSE g[n]]
  <2>3. \A n \in 0 .. k : n \in 0 .. k + 1 /\ n # k + 1 /\ h[n] = g[n]
    <3>1. \A n \in 0 .. k : n \in 0 .. k + 1 /\ n # k + 1
      BY <2>2, SMT
    <3> QED
      BY <3>1
  <2>4. \A n \in 0 .. k + 1 : h[n] = IF n = 0 THEN S ELSE Insert(news[n], h[n - 1])
    <3> TAKE n \in 0 .. k + 1
    <3>1. CASE n = k + 1
      <4>1. h[n - 1] = g[k] /\ n # 0
        BY <2>2, <2>3, <3>1
      <4> QED
        BY <3>1, <4>1
    <3>2. CASE n # k + 1
      <4>1. n \in 0 .. k /\ h[n] = g[n]
        BY <2>2, <2>3, <3>2
      <4>2. g[n] = IF n = 0 THEN S ELSE Insert(news[n], g[n - 1])
        BY <2>1, <4>1
      <4>3. n # 0 => h[n - 1] = g[n - 1]
        BY <2>2, <2>3
      <4> HIDE DEF h
      <4> QED
        BY <4>1, <4>2, <4>3
    <3> QED
      BY <3>1, <3>2
  <2>5. Steps(h, k + 1)
    <3>1. h = [n \in 0 .. k + 1 |-> h[n]]
      OBVIOUS
    <3> HIDE DEF h
    <3> QED
      BY <2>4, <3>1
  <2> QED
    BY <2>2, <2>5
<1>5. \E g : Steps(g, N)
  <2>1. N \in 0 .. N
    BY <1>1, SMT
  <2>2. N \in P
    <3> HIDE DEF P
    <3> QED
      BY <1>1, <1>3, <1>4, <2>1, UpTo
  <2> QED
    BY <2>2
<1>6. PICK g : Steps(g, N) /\ InsertAll(news, S) = g[N]
  BY <1>2, <1>5
<1>7. 0 \in 0 .. N /\ \A n \in 1 .. N : n \in 0 .. N /\ n # 0
  BY <1>1, SMT
<1>8. g[0] = S /\ \A n \in 1 .. N : g[n] = Insert(news[n], g[n - 1])
  BY <1>6, <1>7
<1> QED
  BY <1>6, <1>8 DEF N

\* The elements of a finite set of numbers in order.
LEMMA InOrderOf ==
  ASSUME NaturalSets, FiniteRules, NEW P, P \subseteq Nat, IsFiniteSet(P), NEW f
  PROVE  /\ Len(InOrder(P, f)) = Cardinality(P) /\ Cardinality(P) \in Nat
         /\ \A n \in 1 .. Cardinality(P) : InOrder(P, f)[n] \in {f[p] : p \in P}
<1> DEFINE upto(p) == {q \in P : q <= p}
           below(p) == {q \in P : q < p}
           at(n) == CHOOSE p \in P : Cardinality(upto(p)) = n
<1>1. Cardinality(P) \in Nat
  BY DEF NaturalSets
<1>2. InOrder(P, f) = [n \in 1 .. Cardinality(P) |-> f[at(n)]]
  BY DEF InOrder
<1>3. Len(InOrder(P, f)) = Cardinality(P)
  <2>1. ASSUME NEW k \in Nat, NEW s, s = [n \in 1 .. k |-> s[n]] PROVE Len(s) = k
    BY <2>1, SMT
  <2>2. InOrder(P, f) = [n \in 1 .. Cardinality(P) |-> InOrder(P, f)[n]]
    BY <1>2
  <2> QED
    BY <1>1, <2>1, <2>2
<1>4. ASSUME NEW p \in P
      PROVE  Cardinality(upto(p)) = Cardinality(below(p)) + 1
  <2>1. upto(p) = below(p) \cup {p} /\ p \notin below(p)
    <3>1. \A q \in P : q \in Nat /\ p \in Nat
      OBVIOUS
    <3>2. \A q \in P : (q <= p <=> q < p \/ q = p) /\ ~(p < p)
      BY <3>1, SMT
    <3> QED
      BY <3>2
  <2>2. IsFiniteSet(below(p))
    <3>1. below(p) \in SUBSET P
      OBVIOUS
    <3> HIDE DEF below
    <3> QED
      BY <3>1 DEF FiniteRules
  <2> HIDE DEF upto, below
  <2> QED
    BY <2>1, <2>2 DEF FiniteRules
<1>5. ASSUME NEW n \in 1 .. Cardinality(P)
      PROVE  \E p \in P : Cardinality(upto(p)) = n
  <2>1. n - 1 \in 0 .. Cardinality(P) - 1 /\ (n - 1) + 1 = n
    BY <1>1, SMT
  <2>2. \A j \in 0 .. Cardinality(P) - 1 : \E p \in P : Cardinality(below(p)) = j
    <3>1. P \in SUBSET Nat
      OBVIOUS
    <3> QED
      BY <3>1 DEF NaturalSets
  <2>3. PICK p \in P : Cardinality(below(p)) = n - 1
    BY <2>1, <2>2
  <2> HIDE DEF upto, below
  <2> QED
    BY <1>4, <2>1, <2>3
<1>6. \A n \in 1 .. Cardinality(P) : at(n) \in P
  <2> HIDE DEF upto
  <2> QED
    BY <1>5
<1> HIDE DEF at
<1> QED
  BY <1>1, <1>2, <1>3, <1>6

\* The tree after stores are inserted.
LEMMA InsertAllPieces ==
  ASSUME NaturalSets, NEW S, Pieces(S), NEW news, Len(news) \in Nat,
         \A n \in 1 .. Len(news) : Piece(news[n])
  PROVE  LET T == InsertAll(news, S)
         IN  /\ Pieces(T)
             /\ tree_reorganization /\ Disjoint(S) => Disjoint(T)
             /\ ~tree_reorganization => T = S \cup {news[n] : n \in 1 .. Len(news)}
             /\ Len(news) = 0 => T = S
<1> DEFINE N == Len(news)
           first(n) == {news[j] : j \in 1 .. n}
<1>1. PICK g : /\ g[0] = S
               /\ \A n \in 1 .. N : g[n] = Insert(news[n], g[n - 1])
               /\ InsertAll(news, S) = g[N]
  BY InsertAllSteps
<1> DEFINE Good(n) == /\ Pieces(g[n])
                      /\ tree_reorganization /\ Disjoint(S) => Disjoint(g[n])
                      /\ ~tree_reorganization => g[n] = S \cup first(n)
           P == {n \in 0 .. N : Good(n)}
<1>2. N \in Nat /\ 0 \in 0 .. N /\ N \in 0 .. N
  BY SMT
<1> HIDE DEF N
<1>3. 0 \in P
  <2>1. first(0) = {}
    BY SMT
  <2> QED
    BY <1>1, <1>2, <2>1
<1>4. ASSUME NEW n \in 0 .. N - 1, n \in P
      PROVE  n + 1 \in P
  <2>1. n + 1 \in 1 .. N /\ n + 1 \in 0 .. N /\ (n + 1) - 1 = n /\ n \in Nat
    BY <1>2, SMT
  <2>2. g[n + 1] = Insert(news[n + 1], g[n]) /\ Piece(news[n + 1])
    BY <1>1, <2>1 DEF N
  <2>3. Good(n)
    BY <1>4
  <2>4. Pieces(g[n + 1]) /\ (tree_reorganization /\ Disjoint(S) => Disjoint(g[n + 1]))
    BY <2>2, <2>3, InsertPieces
  <2>5. ~tree_reorganization => g[n + 1] = S \cup first(n + 1)
    <3>1. first(n + 1) = first(n) \cup {news[n + 1]}
      <4>1. 1 .. n + 1 = (1 .. n) \cup {n + 1}
        BY <2>1, SMT
      <4> QED
        BY <4>1
    <3> HIDE DEF first
    <3> QED
      BY <2>2, <2>3, <3>1 DEF Insert
  <2> QED
    BY <2>1, <2>4, <2>5
<1>5. Good(N)
  <2>1. N \in P
    <3> HIDE DEF P
    <3> QED
      BY <1>2, <1>3, <1>4, UpTo
  <2> QED
    BY <2>1
<1> QED
  BY <1>1, <1>5 DEF N

\* Inserting stores into a finite tree leaves it finite, whatever they are.
LEMMA InsertAllFinite ==
  ASSUME NaturalSets, FiniteRules, NEW S, IsFiniteSet(S), NEW news, Len(news) \in Nat
  PROVE  IsFiniteSet(InsertAll(news, S))
<1> DEFINE N == Len(news)
<1>1. PICK g : /\ g[0] = S
               /\ \A n \in 1 .. N : g[n] = Insert(news[n], g[n - 1])
               /\ InsertAll(news, S) = g[N]
  BY InsertAllSteps
<1> DEFINE P == {n \in 0 .. N : IsFiniteSet(g[n])}
<1>2. N \in Nat /\ 0 \in 0 .. N /\ N \in 0 .. N
  BY SMT
<1>3. ASSUME NEW new, NEW T, IsFiniteSet(T)
      PROVE  IsFiniteSet(Insert(new, T))
  <2> DEFINE parts == [e \in T |-> SplitOff(e, new)]
  <2>1. \A e \in T : IsFiniteSet(SplitOff(e, new))
    <3>1. \A x, y : IsFiniteSet({x}) /\ IsFiniteSet({y}) /\ IsFiniteSet({x} \cup {y})
                    /\ IsFiniteSet({x} \cup {}) /\ IsFiniteSet({} \cup {x}) /\ IsFiniteSet({} \cup {})
      <4>1. \A x : {} \cup {x} = {x} /\ {x} \cup {} = {x}
        OBVIOUS
      <4>2. {} \cup {} = {}
        OBVIOUS
      <4>3. \A x : IsFiniteSet({x})
        BY <4>1 DEF FiniteRules
      <4> QED
        BY <4>1, <4>2, <4>3 DEF FiniteRules
    <3> QED
      BY <3>1 DEF SplitOff
  <2>2. IsFiniteSet(UNION {parts[e] : e \in DOMAIN parts})
    <3>1. DOMAIN parts = T /\ \A e \in DOMAIN parts : IsFiniteSet(parts[e])
      BY <2>1
    <3> HIDE DEF parts
    <3> QED
      BY <1>3, <3>1 DEF FiniteRules
  <2>3. UNION {parts[e] : e \in DOMAIN parts} = UNION {SplitOff(old, new) : old \in T}
    OBVIOUS
  <2>4. PICK U : U = UNION {SplitOff(old, new) : old \in T}
    OBVIOUS
  <2>5. IsFiniteSet(U) /\ IsFiniteSet(U \ Neighbours(new, T))
    <3>1. U \ Neighbours(new, T) \in SUBSET U
      OBVIOUS
    <3> QED
      BY <2>2, <2>3, <2>4, <3>1 DEF FiniteRules
  <2>6. IsFiniteSet((U \ Neighbours(new, T)) \cup {Merged(new, T)}) /\ IsFiniteSet(T \cup {new})
    BY <1>3, <2>5 DEF FiniteRules
  <2> QED
    BY <2>4, <2>6 DEF Insert, add_and_merge_store
<1> HIDE DEF N
<1>4. 0 \in P
  BY <1>1, <1>2
<1>5. ASSUME NEW n \in 0 .. N - 1, n \in P
      PROVE  n + 1 \in P
  <2>1. n + 1 \in 1 .. N /\ n + 1 \in 0 .. N /\ (n + 1) - 1 = n
    BY <1>2, SMT
  <2> QED
    BY <1>1, <1>3, <1>5, <2>1
<1>6. N \in P
  <2> HIDE DEF P
  <2> QED
    BY <1>2, <1>4, <1>5, UpTo
<1> QED
  BY <1>1, <1>6
----------------------------------------------------------------------------
(* The snippets.                                                           *)

\* Every used slot belongs to a snippet.
SnippetsOK ==
  /\ snippets \in Seq(Snippet) /\ snippets # << >>
  /\ Current.start_index <= Current.index
  /\ \A k \in 1 .. Last : snippets[k].index <= Current.index
  /\ \A i \in LiveSlots : \E k \in 1 .. Last : i \in Slots(snippets[k])

\* The numbers of the snippets, and their slots.
LEMMA SnippetFacts ==
  ASSUME SnippetsOK
  PROVE  /\ Last \in Nat \ {0} /\ Last \in 1 .. Last
         /\ \A k \in 1 .. Last : snippets[k] \in Snippet
         /\ Current \in Snippet /\ Current = snippets[Last]
         /\ Current.start_index \in Nat /\ Current.index \in 0 .. MAX_ARRAY_NUM /\ Current.index \in Nat
         /\ MAX_ARRAY_NUM \in Nat
         /\ LiveSlots \subseteq 0 .. MAX_ARRAY_NUM - 1 /\ LiveSlots \subseteq Nat
         /\ \A k \in 1 .. Last : Slots(snippets[k]) \subseteq LiveSlots
<1>1. /\ Last \in Nat \ {0} /\ Last \in 1 .. Last
      /\ \A k \in 1 .. Last : snippets[k] \in Snippet
  BY DEF SnippetsOK, Last
<1>2. Current \in Snippet /\ Current = snippets[Last]
  BY <1>1 DEF Current
<1>3. Current.start_index \in Nat /\ Current.index \in 0 .. MAX_ARRAY_NUM /\ Current.index \in Nat
      /\ MAX_ARRAY_NUM \in Nat
  BY <1>2, ConstantRanges DEF Snippet
<1>4. LiveSlots \subseteq 0 .. MAX_ARRAY_NUM - 1 /\ LiveSlots \subseteq Nat
  BY <1>3, SMT DEF LiveSlots
<1>5. \A k \in 1 .. Last : Slots(snippets[k]) \subseteq LiveSlots
  <2> TAKE k \in 1 .. Last
  <2>1. snippets[k].start_index \in 0 .. MAX_ARRAY_NUM /\ snippets[k].index \in 0 .. MAX_ARRAY_NUM
    BY <1>1 DEF Snippet
  <2>2. snippets[k].index <= Current.index
    BY DEF SnippetsOK
  <2> QED
    BY <1>3, <2>1, <2>2, SMT DEF Slots, LiveSlots
<1> QED
  BY <1>1, <1>2, <1>3, <1>4, <1>5

\* A run of slots that gets longer at its end, in the last of the snippets.
LEMMA LongerRun ==
  ASSUME SnippetsOK, NEW n \in 0 .. MAX_ARRAY_NUM, n >= Current.index,
         NEW run \in Snippet, run.start_index = Current.start_index, run.index = n
  PROVE  /\ Slots(run) = Slots(Current) \cup (Current.index .. n - 1)
         /\ 0 .. n - 1 = LiveSlots \cup (Current.index .. n - 1)
<1>1. /\ Current.start_index \in Nat /\ Current.index \in Nat /\ n \in Nat
      /\ Current.start_index <= Current.index
  BY SnippetFacts, SMT DEF SnippetsOK
<1> QED
  BY <1>1, SMT DEF Slots, LiveSlots

\* The current snippet is written.
LEMMA CurrentWritten ==
  ASSUME SnippetsOK, NEW c \in Snippet, snippets' = [snippets EXCEPT ![Last] = c],
         c.start_index = Current.start_index, c.index >= Current.index
  PROVE  /\ SnippetsOK' /\ Last' = Last /\ Current' = c
         /\ LiveSlots' = LiveSlots \cup (Current.index .. c.index - 1)
         /\ Slots(c) = Slots(Current) \cup (Current.index .. c.index - 1)
         /\ \A k \in 1 .. Last : snippets'[k] = IF k = Last THEN c ELSE snippets[k]
<1>1. /\ snippets' \in Seq(Snippet) /\ snippets' # << >> /\ Last' = Last
      /\ \A k \in 1 .. Last : snippets'[k] = IF k = Last THEN c ELSE snippets[k]
  BY SMT DEF SnippetsOK, Last
<1>2. Current' = c
  BY <1>1, SnippetFacts DEF Current
<1>3. c.index \in 0 .. MAX_ARRAY_NUM /\ c.index \in Nat /\ c.start_index \in Nat
  BY ConstantRanges, SMT DEF Snippet
<1>4. /\ LiveSlots' = LiveSlots \cup (Current.index .. c.index - 1)
      /\ Slots(c) = Slots(Current) \cup (Current.index .. c.index - 1)
  BY <1>2, <1>3, LongerRun DEF LiveSlots
<1>5. \A k \in 1 .. Last : snippets'[k].index <= c.index
  <2> TAKE k \in 1 .. Last
  <2>1. /\ snippets[k].index \in 0 .. MAX_ARRAY_NUM /\ Current.index \in Nat
        /\ snippets[k].index <= Current.index
    BY SnippetFacts DEF Snippet, SnippetsOK
  <2>2. c.index <= c.index /\ snippets[k].index <= c.index
    BY <1>3, <2>1, SMT
  <2> QED
    BY <1>1, <2>2
<1>6. \A i \in LiveSlots' : \E k \in 1 .. Last' : i \in Slots(snippets'[k])
  <2> TAKE i \in LiveSlots'
  <2>1. CASE i \in LiveSlots
    <3>1. PICK k \in 1 .. Last : i \in Slots(snippets[k])
      BY <2>1 DEF SnippetsOK
    <3>2. k = Last => i \in Slots(c)
      BY <1>4, <3>1, SnippetFacts
    <3> QED
      BY <1>1, <3>1, <3>2
  <2>2. CASE i \in Current.index .. c.index - 1
    BY <1>1, <1>4, <2>2, SnippetFacts
  <2> QED
    BY <1>4, <2>1, <2>2
<1>7. c.start_index <= c.index
  BY <1>3, SnippetFacts, SMT DEF SnippetsOK
<1> QED
  BY <1>1, <1>2, <1>4, <1>5, <1>6, <1>7 DEF SnippetsOK

\* do_flush marks snippets, lengthens the last one and may begin another.
LEMMA SnippetsMarked ==
  ASSUME SnippetsOK, NEW f, NEW n \in 0 .. MAX_ARRAY_NUM, n >= Current.index,
         n = IndexAfter(Remainders(f)), snippets' = FlushSnippets(f)
  PROVE  /\ SnippetsOK'
         /\ LiveSlots' = LiveSlots \cup (Current.index .. n - 1)
         /\ \/ Current'.min_add = Current.min_add /\ Current'.max_add = Current.max_add
            \/ Current'.min_add = NoAddr /\ Current'.max_add = NoAddr
         /\ \A k \in 1 .. Last' :
              \/ /\ k \in 1 .. Last
                 /\ snippets'[k].min_add = snippets[k].min_add /\ snippets'[k].max_add = snippets[k].max_add
                 /\ Slots(snippets'[k]) = IF k = Last THEN Slots(Current) \cup (Current.index .. n - 1)
                                                      ELSE Slots(snippets[k])
              \/ /\ Slots(snippets'[k]) = {}
                 /\ snippets'[k].min_add = NoAddr /\ snippets'[k].max_add = NoAddr
<1> DEFINE mark(k) ==
             IF Whole(snippets[k], f) THEN "ALL_FLUSHED"
             ELSE IF Scanned(snippets[k], f) /\ Fresh(snippets[k], f) # {} THEN "PART_FLUSHED"
             ELSE snippets[k].flushed_num
           marked == [k \in 1 .. Last |->
                        [snippets[k] EXCEPT !.flushed_num = mark(k),
                                            !.index = IF k = Last THEN n ELSE @]]
           new == init_snippet_info(n)
<1>1. snippets' = IF mark(Last) = "NO_FLUSHED" THEN marked ELSE Append(marked, new)
  BY DEF FlushSnippets
<1>2. new \in Snippet /\ new.start_index = n /\ new.index = n
      /\ new.min_add = NoAddr /\ new.max_add = NoAddr
  BY ConstantRanges DEF init_snippet_info, Snippet, FlushedNum
<1>3. \A k \in 1 .. Last : mark(k) \in FlushedNum
  BY SnippetFacts DEF FlushedNum, Snippet
<1> HIDE DEF mark, new
<1>4. ASSUME NEW k \in 1 .. Last
      PROVE  /\ marked[k] \in Snippet
             /\ marked[k].start_index = snippets[k].start_index
             /\ marked[k].index = IF k = Last THEN n ELSE snippets[k].index
             /\ marked[k].min_add = snippets[k].min_add /\ marked[k].max_add = snippets[k].max_add
  <2> DEFINE m == IF k = Last THEN n ELSE snippets[k].index
             g == mark(k)
  <2>1. marked[k] = [snippets[k] EXCEPT !.flushed_num = g, !.index = m]
    OBVIOUS
  <2>2. snippets[k] \in Snippet /\ m \in 0 .. MAX_ARRAY_NUM /\ g \in FlushedNum
    BY <1>3, SnippetFacts DEF Snippet
  <2> HIDE DEF m, g, marked
  <2>3. /\ marked[k] \in Snippet /\ marked[k].start_index = snippets[k].start_index
        /\ marked[k].index = m
        /\ marked[k].min_add = snippets[k].min_add /\ marked[k].max_add = snippets[k].max_add
    BY <2>1, <2>2 DEF Snippet
  <2> QED
    BY <2>3 DEF m
<1>5. marked \in [1 .. Last -> Snippet]
  BY <1>4
<1> HIDE DEF marked
<1>6. /\ snippets' \in Seq(Snippet) /\ snippets' # << >>
      /\ \/ Last' = Last /\ \A k \in 1 .. Last : snippets'[k] = marked[k]
         \/ /\ Last' = Last + 1 /\ snippets'[Last + 1] = new
            /\ \A k \in 1 .. Last : snippets'[k] = marked[k]
  <2>1. ASSUME NEW S, NEW l \in Nat \ {0}, NEW s \in [1 .. l -> S], NEW x \in S
        PROVE  /\ s \in Seq(S) /\ s # << >> /\ Len(s) = l
               /\ Append(s, x) \in Seq(S) /\ Append(s, x) # << >> /\ Len(Append(s, x)) = l + 1
               /\ Append(s, x)[l + 1] = x /\ \A k \in 1 .. l : Append(s, x)[k] = s[k]
    BY SMT
  <2> QED
    BY <1>1, <1>2, <1>5, <2>1, SnippetFacts DEF Last
<1>7. /\ Slots(marked[Last]) = Slots(Current) \cup (Current.index .. n - 1)
      /\ 0 .. n - 1 = LiveSlots \cup (Current.index .. n - 1)
  BY <1>4, LongerRun, SnippetFacts
<1>8. \A k \in 1 .. Last : k # Last => Slots(marked[k]) = Slots(snippets[k])
  BY <1>4 DEF Slots
<1>9. n \in Nat /\ Slots(new) = {}
  <2>1. n \in Nat /\ n .. n - 1 = {}
    BY ConstantRanges, SMT
  <2> QED
    BY <1>2, <2>1 DEF Slots
<1>10. /\ Current'.index = n /\ Current'.start_index <= Current'.index
       /\ \/ Current'.min_add = Current.min_add /\ Current'.max_add = Current.max_add
          \/ Current'.min_add = NoAddr /\ Current'.max_add = NoAddr
  <2>1. CASE Last' = Last /\ \A k \in 1 .. Last : snippets'[k] = marked[k]
    <3>1. Current' = marked[Last]
      BY <2>1, SnippetFacts DEF Current
    <3>2. Current.start_index <= n
      BY <1>9, SnippetFacts, SMT DEF SnippetsOK
    <3> QED
      BY <1>4, <3>1, <3>2, SnippetFacts
  <2>2. CASE Last' = Last + 1 /\ snippets'[Last + 1] = new
    <3>1. Current' = new /\ n <= n
      BY <1>9, <2>2, SMT DEF Current
    <3> QED
      BY <1>2, <3>1
  <2> QED
    BY <1>6, <2>1, <2>2
<1>11. LiveSlots' = LiveSlots \cup (Current.index .. n - 1)
  BY <1>7, <1>10 DEF LiveSlots
<1>12. \A k \in 1 .. Last' : (k \in 1 .. Last /\ snippets'[k] = marked[k]) \/ snippets'[k] = new
  <2>1. ASSUME NEW k \in 1 .. Last + 1 PROVE k \in 1 .. Last \/ k = Last + 1
    BY SnippetFacts, SMT
  <2> QED
    BY <1>6, <2>1
<1>13. \A k \in 1 .. Last : k \in 1 .. Last' /\ snippets'[k] = marked[k]
  <2>1. \A k \in 1 .. Last : k \in 1 .. Last + 1
    BY SnippetFacts, SMT
  <2> QED
    BY <1>6, <2>1
<1>14. \A k \in 1 .. Last' : snippets'[k].index <= n
  <2>1. \A k \in 1 .. Last : snippets[k].index <= n /\ n <= n
    <3> TAKE k \in 1 .. Last
    <3>1. /\ snippets[k].index \in 0 .. MAX_ARRAY_NUM /\ Current.index \in Nat
          /\ snippets[k].index <= Current.index
      BY SnippetFacts DEF Snippet, SnippetsOK
    <3> QED
      BY <1>9, <3>1, SMT
  <2>2. n <= n
    BY <1>9, SMT
  <2> QED
    BY <1>2, <1>4, <1>12, <2>1, <2>2
<1>15. \A i \in LiveSlots' : \E k \in 1 .. Last' : i \in Slots(snippets'[k])
  <2> TAKE i \in LiveSlots'
  <2>1. CASE i \in LiveSlots
    <3>1. PICK k \in 1 .. Last : i \in Slots(snippets[k])
      BY <2>1 DEF SnippetsOK
    <3>2. i \in Slots(marked[k])
      BY <1>7, <1>8, <3>1, SnippetFacts
    <3> QED
      BY <1>13, <3>1, <3>2
  <2>2. CASE i \in Current.index .. n - 1
    BY <1>7, <1>13, <2>2, SnippetFacts
  <2> QED
    BY <1>11, <2>1, <2>2
<1>16. SnippetsOK'
  BY <1>6, <1>10, <1>14, <1>15 DEF SnippetsOK
<1> QED
  BY <1>2, <1>4, <1>7, <1>8, <1>9, <1>10, <1>11, <1>12, <1>16

\* The next free slot after the remainders of a set have been appended.
LEMMA NextFree ==
  ASSUME SnippetsOK, NaturalSets, NEW P, IsFiniteSet(P)
  PROVE  /\ IndexAfter(P) \in 0 .. MAX_ARRAY_NUM /\ IndexAfter(P) >= Current.index
         /\ P = {} => IndexAfter(P) = Current.index
<1>1. Cardinality(P) \in Nat
  BY DEF NaturalSets
<1>2. P = {} => Cardinality(P) = 0
  <2>1. Cardinality(1 .. 0) = 0
    BY DEF NaturalSets
  <2>2. 1 .. 0 = {}
    BY SMT
  <2> QED
    BY <2>1, <2>2
<1>3. Current.index \in 0 .. MAX_ARRAY_NUM /\ MAX_ARRAY_NUM \in Nat
  BY SnippetFacts
<1> QED
  BY <1>1, <1>2, <1>3, SMT DEF IndexAfter

\* What is split is in used slots, and finitely much.
LEMMA SplitSlots ==
  ASSUME SnippetsOK, NaturalSets, NEW f
  PROVE  /\ FreshSlots(f) \subseteq LiveSlots
         /\ Remainders(f) \subseteq Nat /\ IsFiniteSet(Remainders(f))
         /\ CleanSlots(f) \subseteq LiveSlots
         /\ Pierced(f) \subseteq Nat /\ IsFiniteSet(Pierced(f))
         /\ \A P \in SUBSET Remainders(f) : P \subseteq Nat /\ IsFiniteSet(P)
         /\ \A P \in SUBSET Pierced(f) : P \subseteq Nat /\ IsFiniteSet(P)
<1>1. FreshSlots(f) \subseteq LiveSlots
  BY SnippetFacts DEF FreshSlots, Fresh, Met
<1>2. Remainders(f) \subseteq 0 .. 2 * MAX_ARRAY_NUM
  <2>1. \A i \in LiveSlots : 2 * i \in 0 .. 2 * MAX_ARRAY_NUM /\ 2 * i + 1 \in 0 .. 2 * MAX_ARRAY_NUM
    <3>1. \A i \in 0 .. MAX_ARRAY_NUM - 1 :
            2 * i \in 0 .. 2 * MAX_ARRAY_NUM /\ 2 * i + 1 \in 0 .. 2 * MAX_ARRAY_NUM
      BY ConstantRanges, SMT
    <3> QED
      BY <3>1, SnippetFacts
  <2> QED
    BY <1>1, <2>1 DEF Remainders
<1>3. CleanSlots(f) \subseteq LiveSlots /\ Pierced(f) \subseteq 0 .. MAX_ARRAY_NUM - 1
  BY SnippetFacts DEF CleanSlots, Pierced
<1>4. 2 * MAX_ARRAY_NUM \in Int /\ MAX_ARRAY_NUM - 1 \in Int
  BY ConstantRanges, SMT
<1>5. \A b \in Int : \A P \in SUBSET (0 .. b) : P \subseteq Nat /\ IsFiniteSet(P)
  <2>1. \A b \in Int : 0 .. b \subseteq Nat
    BY SMT
  <2> QED
    BY <2>1 DEF NaturalSets
<1>6. /\ \A P \in SUBSET Remainders(f) : P \in SUBSET (0 .. 2 * MAX_ARRAY_NUM)
      /\ \A P \in SUBSET Pierced(f) : P \in SUBSET (0 .. MAX_ARRAY_NUM - 1)
  BY <1>2, <1>3
<1>7. /\ \A P \in SUBSET Remainders(f) : P \subseteq Nat /\ IsFiniteSet(P)
      /\ \A P \in SUBSET Pierced(f) : P \subseteq Nat /\ IsFiniteSet(P)
  BY <1>4, <1>5, <1>6
<1>8. Remainders(f) \in SUBSET Remainders(f) /\ Pierced(f) \in SUBSET Pierced(f)
  OBVIOUS
<1> QED
  BY <1>1, <1>3, <1>7, <1>8

\* A store to the array takes the next slot for the current snippet.
LEMMA SlotTaken ==
  ASSUME SnippetsOK, NEW r \in Stores, Current.index < MAX_ARRAY_NUM
  PROVE  LET c == Widen([Current EXCEPT !.index = Current.index + 1], r)
         IN  /\ c \in Snippet /\ c.start_index = Current.start_index
             /\ c.index = Current.index + 1 /\ c.index >= Current.index
             /\ Current.index .. c.index - 1 = {Current.index}
<1> DEFINE b == [Current EXCEPT !.index = Current.index + 1]
           c == Widen(b, r)
<1>1. /\ Current \in Snippet /\ Current.index + 1 \in 0 .. MAX_ARRAY_NUM /\ Current.index \in Nat
      /\ Current.index + 1 >= Current.index
      /\ Current.index .. (Current.index + 1) - 1 = {Current.index}
  BY SnippetFacts, SMT
<1>2. /\ b \in Snippet /\ b.start_index = Current.start_index /\ b.index = Current.index + 1
      /\ b.min_add \in 0 .. NoAddr /\ b.max_add \in 0 .. NoAddr
  BY <1>1 DEF Snippet
<1> HIDE DEF b
<1>3. PICK lo \in 0 .. NoAddr, hi \in 0 .. NoAddr : c = [b EXCEPT !.min_add = lo, !.max_add = hi]
  <2>1. r.addr \in 0 .. NoAddr /\ End(r) \in 0 .. NoAddr
    BY ConstantRanges DEF IsRange, End
  <2> QED
    BY <1>2, <2>1 DEF Widen
<1>4. c \in Snippet /\ c.start_index = b.start_index /\ c.index = b.index
  BY <1>2, <1>3 DEF Snippet
<1> QED
  BY <1>1, <1>2, <1>4 DEF b
----------------------------------------------------------------------------
(* Types.                                                                  *)

\* The inductive invariant for the types of the options' state.
OptionsTypeInv ==
  NaturalSets /\ FiniteRules /\ SnippetsOK /\ IsFiniteSet(tree) /\ OptionsTypeOK

\* Finite images and unions of finite sets.
LEMMA FiniteImages ==
  ASSUME FiniteRules, NEW S, IsFiniteSet(S)
  PROVE  /\ \A f : (\A x \in S : IsFiniteSet(f[x])) => IsFiniteSet(UNION {f[x] : x \in S})
         /\ \A f : IsFiniteSet({f[x] : x \in S})
         /\ \A x : IsFiniteSet({x})
<1>1. ASSUME NEW f, \A x \in S : IsFiniteSet(f[x])
      PROVE  IsFiniteSet(UNION {f[x] : x \in S})
  <2> DEFINE g == [x \in S |-> f[x]]
  <2>1. DOMAIN g = S /\ \A x \in DOMAIN g : IsFiniteSet(g[x])
    BY <1>1
  <2>2. IsFiniteSet(UNION {g[x] : x \in DOMAIN g})
    <3> HIDE DEF g
    <3> QED
      BY <2>1 DEF FiniteRules
  <2>3. UNION {g[x] : x \in DOMAIN g} = UNION {f[x] : x \in S}
    OBVIOUS
  <2> QED
    BY <2>2, <2>3
<1>2. \A x : IsFiniteSet({x})
  <2> TAKE x
  <2>1. IsFiniteSet({} \cup {x})
    BY DEF FiniteRules
  <2>2. {} \cup {x} = {x}
    OBVIOUS
  <2> QED
    BY <2>1, <2>2
<1>3. ASSUME NEW f
      PROVE  IsFiniteSet({f[x] : x \in S})
  <2> DEFINE g == [x \in S |-> {f[x]}]
  <2>1. \A x \in S : IsFiniteSet(g[x])
    BY <1>2
  <2>2. IsFiniteSet(UNION {g[x] : x \in S})
    <3> HIDE DEF g
    <3> QED
      BY <1>1, <2>1
  <2>3. UNION {g[x] : x \in S} = {f[x] : x \in S}
    OBVIOUS
  <2> QED
    BY <2>2, <2>3
<1> QED
  BY <1>1, <1>2, <1>3

\* What an operation makes of one node is finitely many nodes.
LEMMA NodesFinite ==
  ASSUME FiniteRules, NEW e, NEW f
  PROVE  IsFiniteSet(SplitOff(e, f)) /\ IsFiniteSet(OptFlushNode(e, f)) /\ IsFiniteSet(CleanNode(e, f))
<1>1. /\ IsFiniteSet({}) /\ \A x : IsFiniteSet({x})
      /\ \A S, T : IsFiniteSet(S) /\ IsFiniteSet(T) => IsFiniteSet(S \cup T)
  <2>1. IsFiniteSet({}) /\ \A S, T : IsFiniteSet(S) /\ IsFiniteSet(T) => IsFiniteSet(S \cup T)
    BY DEF FiniteRules
  <2> QED
    BY <2>1, FiniteImages
<1>2. IsFiniteSet(SplitOff(e, f))
  BY <1>1 DEF SplitOff
<1>3. IsFiniteSet(OptFlushNode(e, f))
  BY <1>1 DEF OptFlushNode
<1>4. IsFiniteSet(CleanNode(e, f))
  BY <1>1 DEF CleanNode
<1> QED
  BY <1>2, <1>3, <1>4

\* handle_with_mult_stores: the events, and what is left in the tree.
LEMMA OverwrittenType ==
  ASSUME OptionsTypeInv, NEW r \in Stores
  PROVE  /\ Overwritten(r).events \in [number : Nat, bytes : SUBSET (0 .. NoAddr)]
         /\ IsFiniteSet(Overwritten(r).tree)
<1>0. NaturalSets /\ FiniteRules /\ SnippetsOK /\ IsFiniteSet(tree)
  BY DEF OptionsTypeInv
<1>1. IsFiniteSet(Hit(r)) /\ IsFiniteSet(HitNodes(r))
  <2>1. Hit(r) \in SUBSET (0 .. MAX_ARRAY_NUM - 1) /\ MAX_ARRAY_NUM - 1 \in Int
    <3>1. MAX_ARRAY_NUM - 1 \in Int
      BY ConstantRanges, SMT
    <3> QED
      BY <1>0, <3>1, SnippetFacts DEF Hit
  <2>2. HitNodes(r) \in SUBSET tree
    BY DEF HitNodes
  <2>3. IsFiniteSet(Hit(r))
    BY <1>0, <2>1 DEF NaturalSets
  <2>4. IsFiniteSet(HitNodes(r))
    BY <1>0, <2>2 DEF FiniteRules
  <2> QED
    BY <2>3, <2>4
<1>2. NoEvents \in [number : Nat, bytes : SUBSET (0 .. NoAddr)]
  BY DEF NoEvents
<1>3. Overwrites(r) \in [number : Nat, bytes : SUBSET (0 .. NoAddr)]
  <2>1. Cardinality(Hit(r)) + Cardinality(HitNodes(r)) \in Nat
    <3>1. Cardinality(Hit(r)) \in Nat /\ Cardinality(HitNodes(r)) \in Nat
      BY <1>0, <1>1 DEF NaturalSets
    <3> QED
      BY <3>1, SMT
  <2>2. Bytes(r) \subseteq 0 .. NoAddr
    <3>1. r.addr \in Nat /\ r.size \in Nat \ {0} /\ r.addr + r.size < NoAddr /\ NoAddr \in Nat
      BY ConstantRanges DEF IsRange, End
    <3> QED
      BY <3>1, SMT DEF Bytes, End
  <2>3. \A e : OverlapPart(e, r) \subseteq 0 .. NoAddr
    BY <2>2 DEF OverlapPart
  <2>4. UNION ({OverlapPart(array[i], r) : i \in Hit(r)}
               \cup {OverlapPart(e, r) : e \in {n \in HitNodes(r) : ~Within(n, r)}})
          \in SUBSET (0 .. NoAddr)
    BY <2>3
  <2> QED
    BY <2>1, <2>4 DEF Overwrites
<1>4. IsFiniteSet((tree \ HitNodes(r)) \cup After(r) \cup UNION {SplitOff(e, r) : e \in HitNodes(r)})
  <2>1. IsFiniteSet(tree \ HitNodes(r))
    <3>1. tree \ HitNodes(r) \in SUBSET tree
      OBVIOUS
    <3> QED
      BY <1>0, <3>1 DEF FiniteRules
  <2>2. IsFiniteSet(After(r))
    <3> DEFINE J == {j \in Hit(r) : array[j].addr < r.addr /\ End(array[j]) > End(r)}
               g == [i \in J |-> RightPart(array[i], r)]
    <3>1. IsFiniteSet(J)
      <4>1. J \in SUBSET Hit(r)
        OBVIOUS
      <4> HIDE DEF J
      <4> QED
        BY <1>0, <1>1, <4>1 DEF FiniteRules
    <3>2. After(r) = {g[i] : i \in J}
      BY DEF After
    <3> HIDE DEF J, g
    <3> QED
      BY <1>0, <3>1, <3>2, FiniteImages
  <2>3. IsFiniteSet(UNION {SplitOff(e, r) : e \in HitNodes(r)})
    <3> DEFINE g == [e \in HitNodes(r) |-> SplitOff(e, r)]
    <3>1. \A e \in HitNodes(r) : IsFiniteSet(g[e])
      BY <1>0, NodesFinite
    <3>2. UNION {SplitOff(e, r) : e \in HitNodes(r)} = UNION {g[e] : e \in HitNodes(r)}
      OBVIOUS
    <3> HIDE DEF g
    <3> QED
      BY <1>0, <1>1, <3>1, <3>2, FiniteImages
  <2>4. \A S, T : IsFiniteSet(S) /\ IsFiniteSet(T) => IsFiniteSet(S \cup T)
    BY <1>0 DEF FiniteRules
  <2> QED
    BY <2>1, <2>2, <2>3, <2>4
<1>5. CASE ~track_multiple_stores
  <2>1. Overwritten(r) = [array |-> array, tree |-> tree, events |-> NoEvents]
    BY <1>5 DEF Overwritten
  <2> QED
    BY <1>0, <1>2, <2>1
<1>6. CASE track_multiple_stores
  <2>1. /\ Overwritten(r).tree = (tree \ HitNodes(r)) \cup After(r)
                                 \cup UNION {SplitOff(e, r) : e \in HitNodes(r)}
        /\ Overwritten(r).events = Overwrites(r)
    BY <1>6 DEF Overwritten
  <2> QED
    BY <1>3, <1>4, <2>1
<1> QED
  BY <1>5, <1>6

\* One more store in the tree.
LEMMA InsertFinite ==
  ASSUME FiniteRules, NEW new, NEW S, IsFiniteSet(S)
  PROVE  IsFiniteSet(Insert(new, S))
<1>1. \A T, x : IsFiniteSet(T) => IsFiniteSet(T \cup {x})
  BY DEF FiniteRules
<1>2. IsFiniteSet(add_and_merge_store(new, S))
  <2> DEFINE g == [e \in S |-> SplitOff(e, new)]
  <2>1. \A e \in S : IsFiniteSet(g[e])
    BY NodesFinite
  <2>2. UNION {SplitOff(old, new) : old \in S} = UNION {g[e] : e \in S}
    OBVIOUS
  <2> HIDE DEF g
  <2>3. IsFiniteSet(UNION {SplitOff(old, new) : old \in S})
    BY <2>1, <2>2, FiniteImages
  <2>4. (UNION {SplitOff(old, new) : old \in S}) \ Neighbours(new, S)
          \in SUBSET UNION {SplitOff(old, new) : old \in S}
    OBVIOUS
  <2>5. IsFiniteSet((UNION {SplitOff(old, new) : old \in S}) \ Neighbours(new, S))
    BY <2>3, <2>4 DEF FiniteRules
  <2> QED
    BY <1>1, <2>5 DEF add_and_merge_store
<1> QED
  BY <1>1, <1>2 DEF Insert

\* trace_pmem_store keeps the types.
LEMMA OptStoreTypes ==
  ASSUME OptionsTypeInv, NEW r \in Stores, NEW c \in Contexts, OptStore(r, c)
  PROVE  OptionsTypeInv'
<1>0. /\ NaturalSets /\ FiniteRules /\ SnippetsOK /\ IsFiniteSet(tree) /\ OptionsTypeOK
      /\ MAX_MULT_OVERWRITES \in Nat
  BY StoreOptionsAssumption DEF OptionsTypeInv
<1>1. options' = options /\ listings' = listings
  BY DEF OptStore
<1>2. CASE EventsFit(Overwritten(r).events)
  <2>1. /\ OptStoreToArray(r, c) \/ OptStoreToTree(r, c)
        /\ multiple_stores_reg' = multiple_stores_reg + Overwritten(r).events.number
        /\ overwrites' = Overwritten(r).events /\ exited' = exited
    BY <1>2 DEF OptStore
  <2>2. multiple_stores_reg' \in 0 .. MAX_MULT_OVERWRITES
    <3>1. /\ multiple_stores_reg \in 0 .. MAX_MULT_OVERWRITES
          /\ Overwritten(r).events.number \in Nat
      BY <1>0, OverwrittenType DEF OptionsTypeOK
    <3> QED
      BY <1>0, <1>2, <2>1, <3>1, SMT DEF EventsFit
  <2>3. OptionsTypeOK'
    BY <1>0, <1>1, <2>1, <2>2, OverwrittenType DEF OptionsTypeOK
  <2>4. CASE OptStoreToArray(r, c)
    <3> DEFINE s == Widen([Current EXCEPT !.index = Current.index + 1], r)
    <3>1. /\ Current.index < MAX_ARRAY_NUM /\ tree' = Overwritten(r).tree
          /\ snippets' = [snippets EXCEPT ![Last] = s]
      BY <2>4 DEF OptStoreToArray
    <3>2. s \in Snippet /\ s.start_index = Current.start_index /\ s.index >= Current.index
      BY <1>0, <3>1, SlotTaken
    <3> HIDE DEF s
    <3>3. SnippetsOK'
      BY <1>0, <3>1, <3>2, CurrentWritten
    <3> QED
      BY <1>0, <2>3, <3>1, <3>3, OverwrittenType DEF OptionsTypeInv
  <2>5. CASE OptStoreToTree(r, c)
    <3>1. PICK new : snippets' = snippets /\ tree' = Insert(new, Overwritten(r).tree)
      BY <2>5 DEF OptStoreToTree
    <3>2. IsFiniteSet(tree')
      BY <1>0, <3>1, OverwrittenType, InsertFinite
    <3>3. SnippetsOK'
      BY <1>0, <3>1 DEF SnippetsOK, Last, Current, LiveSlots, Slots
    <3> QED
      BY <1>0, <2>3, <3>2, <3>3 DEF OptionsTypeInv
  <2> QED
    BY <2>1, <2>4, <2>5
<1>3. CASE ~EventsFit(Overwritten(r).events)
  <2>1. /\ exited' = TRUE /\ overwrites' = NoEvents /\ snippets' = snippets /\ tree' = tree
        /\ multiple_stores_reg' = MAX_MULT_OVERWRITES
    BY <1>3 DEF OptStore
  <2>2. /\ NoEvents \in [number : Nat, bytes : SUBSET (0 .. NoAddr)]
        /\ MAX_MULT_OVERWRITES \in 0 .. MAX_MULT_OVERWRITES
    BY <1>0 DEF NoEvents
  <2>3. OptionsTypeOK'
    BY <1>0, <1>1, <2>1, <2>2 DEF OptionsTypeOK
  <2>4. SnippetsOK'
    BY <1>0, <2>1 DEF SnippetsOK, Last, Current, LiveSlots, Slots
  <2> QED
    BY <1>0, <2>1, <2>3, <2>4 DEF OptionsTypeInv
<1> QED
  BY <1>2, <1>3

\* One empty snippet, as at the beginning and after a fence.
LEMMA OneSnippet ==
  ASSUME NEW s, s = <<init_snippet_info(0)>>
  PROVE  /\ s \in Seq(Snippet) /\ s # << >> /\ Len(s) = 1
         /\ s[1].index = 0 /\ s[1].start_index = 0
         /\ s[1].min_add = NoAddr /\ s[1].max_add = NoAddr
<1>1. init_snippet_info(0) \in Snippet
  BY ConstantRanges, SMT DEF init_snippet_info, Snippet, FlushedNum
<1>2. ASSUME NEW S, NEW x \in S
      PROVE  <<x>> \in Seq(S) /\ <<x>> # << >> /\ Len(<<x>>) = 1 /\ <<x>>[1] = x
  BY SMT
<1>3. s \in Seq(Snippet) /\ s # << >> /\ Len(s) = 1 /\ s[1] = init_snippet_info(0)
  BY <1>1, <1>2
<1> QED
  BY <1>3 DEF init_snippet_info

\* That snippet has no slots.
LEMMA OneSnippetOK ==
  /\ snippets = <<init_snippet_info(0)>> => SnippetsOK /\ LiveSlots = {} /\ Last = 1
  /\ snippets' = <<init_snippet_info(0)>> => SnippetsOK' /\ LiveSlots' = {} /\ Last' = 1
<1>1. 0 <= 0 /\ 0 .. 0 - 1 = {} /\ \A k \in 1 .. 1 : k = 1
  BY SMT
<1>2. ASSUME snippets = <<init_snippet_info(0)>>
      PROVE  SnippetsOK /\ LiveSlots = {} /\ Last = 1
  <2>1. Last = 1 /\ Current = snippets[1]
    BY <1>2, OneSnippet DEF Last, Current
  <2>2. LiveSlots = {}
    BY <1>1, <1>2, <2>1, OneSnippet DEF LiveSlots
  <2> QED
    BY <1>1, <1>2, <2>1, <2>2, OneSnippet DEF SnippetsOK
<1>3. ASSUME snippets' = <<init_snippet_info(0)>>
      PROVE  SnippetsOK' /\ LiveSlots' = {} /\ Last' = 1
  <2>1. Last' = 1 /\ Current' = snippets'[1]
    BY <1>3, OneSnippet DEF Last, Current
  <2>2. LiveSlots' = {}
    BY <1>1, <1>3, <2>1, OneSnippet DEF LiveSlots
  <2> QED
    BY <1>1, <1>3, <2>1, <2>2, OneSnippet DEF SnippetsOK
<1> QED
  BY <1>2, <1>3

\* An operation that registers nothing keeps the types of the register.
LEMMA QuietlyTypes ==
  ASSUME OptionsTypeOK, Quietly
  PROVE  OptionsTypeOK'
<1>1. NoEvents \in [number : Nat, bytes : SUBSET (0 .. NoAddr)]
  BY DEF NoEvents
<1> QED
  BY <1>1 DEF OptionsTypeOK, Quietly

\* do_flush keeps the types.
LEMMA OptFlushTypes ==
  ASSUME OptionsTypeInv, NEW q \in Flushes, OptFlush(q)
  PROVE  OptionsTypeInv'
<1>0. NaturalSets /\ FiniteRules /\ SnippetsOK /\ IsFiniteSet(tree) /\ OptionsTypeOK
  BY DEF OptionsTypeInv
<1> DEFINE f == flush_info(q)
           P == Remainders(f)
           beyond == {p \in P : SlotOf(P, p) >= MAX_ARRAY_NUM}
           news == InOrder(beyond, [p \in beyond |-> Remainder(p, f)])
           full == InsertAll(news, tree)
<1>1. /\ snippets' = FlushSnippets(f)
      /\ tree' = IF Touches(box, f) THEN UNION {OptFlushNode(e, f) : e \in full} ELSE full
      /\ Quietly
  BY DEF OptFlush
<1>2. SnippetsOK'
  <2>1. IsFiniteSet(Remainders(f))
    BY <1>0, SplitSlots
  <2>2. IndexAfter(Remainders(f)) \in 0 .. MAX_ARRAY_NUM /\ IndexAfter(Remainders(f)) >= Current.index
    BY <1>0, <2>1, NextFree
  <2> HIDE DEF f
  <2> QED
    BY <1>0, <1>1, <2>2, SnippetsMarked
<1>3. IsFiniteSet(full)
  <2>1. beyond \subseteq Nat /\ IsFiniteSet(beyond)
    <3>1. beyond \in SUBSET Remainders(f)
      OBVIOUS
    <3> QED
      BY <1>0, <3>1, SplitSlots
  <2> HIDE DEF beyond
  <2>2. Len(news) \in Nat
    BY <1>0, <2>1, InOrderOf
  <2> HIDE DEF news
  <2> QED
    BY <1>0, <2>2, InsertAllFinite
<1> HIDE DEF full, f
<1>4. IsFiniteSet(UNION {OptFlushNode(e, f) : e \in full})
  <2> DEFINE g == [e \in full |-> OptFlushNode(e, f)]
  <2>1. \A e \in full : IsFiniteSet(g[e])
    BY <1>0, NodesFinite
  <2>2. UNION {OptFlushNode(e, f) : e \in full} = UNION {g[e] : e \in full}
    OBVIOUS
  <2> HIDE DEF g
  <2>3. IsFiniteSet(UNION {g[e] : e \in full})
    BY <1>0, <1>3, <2>1, FiniteImages
  <2> QED
    BY <2>2, <2>3
<1>5. IsFiniteSet(tree')
  BY <1>1, <1>3, <1>4
<1>6. OptionsTypeOK'
  BY <1>0, <1>1, QuietlyTypes
<1> QED
  BY <1>0, <1>2, <1>5, <1>6 DEF OptionsTypeInv

\* SET_CLEAN keeps the types.
LEMMA OptCleanTypes ==
  ASSUME OptionsTypeInv, NEW r \in Cleans, OptClean(r)
  PROVE  OptionsTypeInv'
<1>0. NaturalSets /\ FiniteRules /\ SnippetsOK /\ IsFiniteSet(tree) /\ OptionsTypeOK
  BY DEF OptionsTypeInv
<1> DEFINE P == Pierced(r)
           beyond == {p \in P : SlotOf(P, p) >= MAX_ARRAY_NUM}
           news == InOrder(beyond, [p \in beyond |-> BeyondIn(ZeroStore, array[p], r)])
           full == InsertAll(news, tree)
           n == IndexAfter(P)
           s == [Current EXCEPT !.index = n]
<1>1. /\ snippets' = [snippets EXCEPT ![Last].index = n]
      /\ tree' = UNION {CleanNode(e, r) : e \in full}
      /\ Quietly
  BY DEF OptClean
<1>2. SnippetsOK'
  <2>1. n \in 0 .. MAX_ARRAY_NUM /\ n >= Current.index
    BY <1>0, SplitSlots, NextFree
  <2> HIDE DEF n
  <2>2. Current \in Snippet /\ Last \in 1 .. Last /\ Current = snippets[Last]
    BY <1>0, SnippetFacts
  <2>3. s \in Snippet /\ s.start_index = Current.start_index /\ s.index = n
    BY <2>1, <2>2 DEF Snippet
  <2>4. snippets' = [snippets EXCEPT ![Last] = s]
    BY <1>1, <2>2
  <2> HIDE DEF s
  <2> QED
    BY <1>0, <2>1, <2>3, <2>4, CurrentWritten
<1>3. IsFiniteSet(full)
  <2>1. beyond \subseteq Nat /\ IsFiniteSet(beyond)
    <3>1. beyond \in SUBSET Pierced(r)
      OBVIOUS
    <3> QED
      BY <1>0, <3>1, SplitSlots
  <2> HIDE DEF beyond
  <2>2. Len(news) \in Nat
    BY <1>0, <2>1, InOrderOf
  <2> HIDE DEF news
  <2> QED
    BY <1>0, <2>2, InsertAllFinite
<1> HIDE DEF full
<1>4. IsFiniteSet(UNION {CleanNode(e, r) : e \in full})
  <2> DEFINE g == [e \in full |-> CleanNode(e, r)]
  <2>1. \A e \in full : IsFiniteSet(g[e])
    BY <1>0, NodesFinite
  <2>2. UNION {CleanNode(e, r) : e \in full} = UNION {g[e] : e \in full}
    OBVIOUS
  <2> HIDE DEF g
  <2>3. IsFiniteSet(UNION {g[e] : e \in full})
    BY <1>0, <1>3, <2>1, FiniteImages
  <2> QED
    BY <2>2, <2>3
<1>5. OptionsTypeOK'
  BY <1>0, <1>1, QuietlyTypes
<1> QED
  BY <1>0, <1>1, <1>2, <1>4, <1>5 DEF OptionsTypeInv

\* do_fence keeps the types.
LEMMA OptFenceTypes ==
  ASSUME OptionsTypeInv, OptFence
  PROVE  OptionsTypeInv'
<1>0. NaturalSets /\ FiniteRules /\ SnippetsOK /\ IsFiniteSet(tree) /\ OptionsTypeOK
  BY DEF OptionsTypeInv
<1> DEFINE slots == {j \in LiveSlots : /\ ~AllFlushed(j)
                                       /\ array[j].state # "FLUSHED"
                                       /\ ~array[j].is_delete}
           kept == {e \in tree : e.state # "FLUSHED"}
<1>1. /\ snippets' = <<init_snippet_info(0)>> /\ tree' = InsertAll(InOrder(slots, array), kept)
      /\ Quietly
  BY DEF OptFence
<1>2. slots \subseteq Nat /\ IsFiniteSet(slots)
  <2>1. slots \in SUBSET (0 .. MAX_ARRAY_NUM - 1) /\ slots \subseteq Nat
    BY <1>0, SnippetFacts
  <2>2. MAX_ARRAY_NUM - 1 \in Int
    BY ConstantRanges, SMT
  <2> HIDE DEF slots
  <2> QED
    BY <1>0, <2>1, <2>2 DEF NaturalSets
<1>3. IsFiniteSet(kept)
  <2>1. kept \in SUBSET tree
    OBVIOUS
  <2> HIDE DEF kept
  <2> QED
    BY <1>0, <2>1 DEF FiniteRules
<1> HIDE DEF slots, kept
<1>4. Len(InOrder(slots, array)) \in Nat
  BY <1>0, <1>2, InOrderOf
<1>5. IsFiniteSet(tree')
  BY <1>0, <1>1, <1>3, <1>4, InsertAllFinite
<1>6. SnippetsOK' /\ OptionsTypeOK'
  BY <1>0, <1>1, OneSnippetOK, QuietlyTypes
<1> QED
  BY <1>0, <1>5, <1>6 DEF OptionsTypeInv

\* print_pmem_stats keeps the types, though the detailed listing writes what
\* it merged to the stores.
LEMMA ListingTypes ==
  ASSUME OptionsTypeInv, print_pmem_stats
  PROVE  OptionsTypeInv'
<1>0. NaturalSets /\ FiniteRules /\ SnippetsOK /\ IsFiniteSet(tree) /\ OptionsTypeOK
  BY DEF OptionsTypeInv
<1>1. /\ overwrites' = NoEvents /\ options' = options /\ exited' = exited
      /\ multiple_stores_reg' = multiple_stores_reg
  BY DEF print_pmem_stats
<1>2. snippets' = snippets /\ IsFiniteSet(tree') /\ listings' \in 0 .. MaxListings
  <2>1. CASE print_store_stats /\ UNCHANGED listings
    BY <1>0, <2>1 DEF print_store_stats, OptionsTypeOK
  <2>2. CASE listings < MaxListings /\ print_store_stats_detail /\ listings' = listings + 1
    <3>1. listings' \in 0 .. MaxListings
      <4>1. listings \in 0 .. MaxListings /\ MaxListings \in Nat
        BY <1>0, StoreOptionsAssumption DEF OptionsTypeOK
      <4> QED
        BY <2>2, <4>1, SMT
    <3>2. /\ snippets' = snippets
          /\ \E g : \E nodes \in Orders(tree) : tree' = {g[m] : m \in DOMAIN nodes}
      <4> DEFINE marked == [i \in DOMAIN array |->
                              IF AllFlushed(i) /\ ~array[i].is_delete
                              THEN [array[i] EXCEPT !.state = "FLUSHED"] ELSE array[i]]
                 slots == {i \in LiveSlots : ~array[i].is_delete}
                 n == Cardinality(slots)
                 list(nodes) == Listed(InOrder(slots, marked) \o nodes)
      <4>1. \E nodes \in Orders(tree) :
              snippets' = snippets /\ tree' = {list(nodes).stores[n + m] : m \in DOMAIN nodes}
        BY <2>2 DEF print_store_stats_detail
      <4> HIDE DEF n, list
      <4>2. PICK nodes \in Orders(tree) :
              snippets' = snippets /\ tree' = {list(nodes).stores[n + m] : m \in DOMAIN nodes}
        BY <4>1
      <4>3. tree' = {[k \in DOMAIN nodes |-> list(nodes).stores[n + k]][m] : m \in DOMAIN nodes}
        BY <4>2
      <4> QED
        BY <4>2, <4>3
    <3>3. PICK g : \E nodes \in Orders(tree) : tree' = {g[m] : m \in DOMAIN nodes}
      BY <3>2
    <3>4. PICK nodes \in Orders(tree) : tree' = {g[m] : m \in DOMAIN nodes}
      BY <3>3
    <3>5. IsFiniteSet(DOMAIN nodes)
      <4>1. DOMAIN nodes = 1 .. Cardinality(tree)
        BY DEF Orders
      <4>2. Cardinality(tree) \in Nat
        BY <1>0 DEF NaturalSets
      <4>3. Cardinality(tree) \in Int /\ 1 .. Cardinality(tree) \in SUBSET (0 .. Cardinality(tree))
        BY <4>2, SMT
      <4> QED
        BY <1>0, <4>1, <4>3 DEF NaturalSets
    <3>6. IsFiniteSet(tree')
      BY <1>0, <3>4, <3>5, FiniteImages
    <3> QED
      BY <3>1, <3>2, <3>6
  <2> QED
    BY <2>1, <2>2 DEF print_pmem_stats
<1>3. NoEvents \in [number : Nat, bytes : SUBSET (0 .. NoAddr)]
  BY DEF NoEvents
<1>4. OptionsTypeOK'
  BY <1>0, <1>1, <1>2, <1>3 DEF OptionsTypeOK
<1>5. SnippetsOK'
  BY <1>0, <1>2 DEF SnippetsOK, Last, Current, LiveSlots, Slots
<1> QED
  BY <1>0, <1>2, <1>4, <1>5 DEF OptionsTypeInv

\* The initial state has the types.
LEMMA InitOptionsTypes ==
  NaturalSets /\ FiniteRules /\ OptionsInit => OptionsTypeInv
<1> SUFFICES ASSUME NaturalSets, FiniteRules, OptionsInit PROVE OptionsTypeInv
  OBVIOUS
<1>1. SnippetsOK /\ IsFiniteSet(tree)
  BY OneSnippetOK DEF OptionsInit, Init, FiniteRules
<1>2. 0 \in 0 .. MAX_MULT_OVERWRITES /\ 0 \in 0 .. MaxListings
  BY StoreOptionsAssumption, SMT
<1>3. NoEvents \in [number : Nat, bytes : SUBSET (0 .. NoAddr)]
  BY DEF NoEvents
<1>4. OptionsTypeOK
  BY <1>2, <1>3 DEF OptionsInit, OptionsTypeOK
<1> QED
  BY <1>1, <1>4 DEF OptionsTypeInv

\* Every step keeps the types.
LEMMA NextOptionsTypes ==
  OptionsTypeInv /\ [OptionsNext]_allVars => OptionsTypeInv'
<1> SUFFICES ASSUME OptionsTypeInv, [OptionsNext]_allVars PROVE OptionsTypeInv'
  OBVIOUS
<1>1. CASE OptionsNext
  BY <1>1, OptStoreTypes, OptFlushTypes, OptFenceTypes, OptCleanTypes, ListingTypes DEF OptionsNext
<1>2. CASE UNCHANGED allVars
  <2>1. /\ snippets' = snippets /\ tree' = tree /\ options' = options /\ overwrites' = overwrites
        /\ multiple_stores_reg' = multiple_stores_reg /\ exited' = exited /\ listings' = listings
    BY <1>2 DEF allVars, vars, optionVars
  <2> QED
    BY <2>1 DEF OptionsTypeInv, SnippetsOK, Last, Current, LiveSlots, Slots, OptionsTypeOK
<1> QED
  BY <1>1, <1>2

\* The register of overwrites holds at most what MAX_MULT_OVERWRITES allows and
\* the events of an operation lie in the address space, under all options.
LEMMA OptionsTypeCorrectGiven == NaturalSets /\ FiniteRules /\ OptionsSpec => []OptionsTypeOK
<1>1. OptionsTypeInv => OptionsTypeOK
  BY DEF OptionsTypeInv
<1> QED
  BY <1>1, InitOptionsTypes, NextOptionsTypes, PTL DEF OptionsSpec
----------------------------------------------------------------------------
(* Every byte belongs to one store.                                        *)

Undeleted == {i \in LiveSlots : ~array[i].is_delete}

\* What makes OneStorePerByte inductive until a detailed listing merges stores:
\* a slot holds a part of one store, and every box spans what it is there for,
\* so that a new store finds all those that it overlaps.
Kept ==
  /\ DOMAIN array = 0 .. MAX_ARRAY_NUM - 1
  /\ \A i \in LiveSlots : OfStore(array[i])
  /\ Pieces(tree)
  /\ \A k \in 1 .. Last : \A i \in Slots(snippets[k]) : Spans(snippets[k], array[i])
  /\ \A e \in tree : Spans(box, e)
  /\ ProperBox(Current, NoAddr) /\ ProperBox(box, NoAddr)
  /\ "min_add" \in DOMAIN box /\ "max_add" \in DOMAIN box
  /\ track_multiple_stores =>
       /\ \A i, j \in Undeleted : i # j => ~Overlap(array[i], array[j])
       /\ \A i \in Undeleted : \A e \in tree : ~Overlap(array[i], e)
  /\ track_multiple_stores \/ tree_reorganization => Disjoint(tree)

OneStoreInv ==
  OptionsTypeInv /\ Granular /\ NoneInside /\ (listings = 0 => Kept)

\* An entry that an operation has cut or left alone.
Shrunk(x, e) == Piece(x) /\ Within(x, e) /\ (e.is_delete => x.is_delete)

\* What a box spans, it spans the parts of.
LEMMA SpansParts ==
  ASSUME NEW b, b.min_add \in Nat, b.max_add \in Nat, NEW e, Piece(e), NEW x, Piece(x),
         Spans(b, e), Within(x, e)
  PROVE  Spans(b, x)
  BY SMT DEF Spans, Within, Piece, End

\* The numbers of a piece.
LEMMA PieceFacts ==
  ASSUME NEW e, Piece(e)
  PROVE  /\ e.addr \in Nat /\ e.size \in Nat \ {0} /\ End(e) \in Nat /\ End(e) < NoAddr
         /\ e.addr < NoAddr /\ e.addr < End(e) /\ IsEntry(e) /\ Within(e, e)
<1>1. e.addr \in Nat /\ e.size \in Nat \ {0} /\ e.addr + e.size < NoAddr /\ NoAddr \in Nat
  BY ConstantRanges DEF Piece, End
<1>2. e.addr + e.size \in Nat /\ e.addr < NoAddr /\ e.addr < e.addr + e.size
      /\ e.addr <= e.addr /\ e.addr + e.size <= e.addr + e.size
  BY <1>1, SMT
<1> QED
  BY <1>1, <1>2 DEF Piece, End, Within

\* A part of a part of a stored region is a part of it.
LEMMA OfStoreParts ==
  ASSUME NEW e, OfStore(e), NEW x, Piece(x), Within(x, e)
  PROVE  OfStore(x)
<1>1. PICK s \in Stores : Within(e, s)
  BY DEF OfStore
<1>2. s.addr \in Nat /\ End(s) \in Nat
  <2>1. s.addr \in Nat /\ s.size \in Nat
    BY ConstantRanges DEF IsRange
  <2> QED
    BY <2>1, SMT DEF End
<1>3. Within(x, s)
  BY <1>1, <1>2, WithinTransitive DEF OfStore
<1> QED
  BY <1>3 DEF OfStore

\* A flush or clean range holds what it meets of a store.
LEMMA GranularParts ==
  ASSUME Granular, NEW f \in FlushRanges \cup Cleans, NEW e, OfStore(e), Overlap(f, e)
  PROVE  ~(e.addr < f.addr) /\ ~(End(e) > End(f)) /\ Overlap(e, f) /\ IsRange(f)
<1>1. PICK s \in Stores : Within(e, s)
  BY DEF OfStore
<1>2. /\ s.addr \in Nat /\ s.size \in Nat /\ f.addr \in Nat /\ f.size \in Nat
      /\ e.addr \in Nat /\ e.size \in Nat /\ IsRange(f)
  BY ConstantRanges, PieceFacts DEF IsRange, OfStore
<1>3. Overlap(s, f)
  BY <1>1, <1>2, SMT DEF Within, Overlap, End
<1>4. Within(s, f)
  BY <1>3 DEF Granular
<1> QED
  BY <1>1, <1>2, <1>4, SMT DEF Within, Overlap, End

\* Cutting entries, or leaving them alone, keeps every byte to one store.
LEMMA ShrunkKept ==
  ASSUME SnippetsOK, SnippetsOK', Kept, options' = options, box' = box,
         DOMAIN array' = DOMAIN array, LiveSlots' = LiveSlots,
         \A i \in LiveSlots : Shrunk(array'[i], array[i]),
         Pieces(tree'), \A x \in tree' : \E e \in tree : Within(x, e),
         Disjoint(tree) => Disjoint(tree'),
         \A k \in 1 .. Last' :
           \/ /\ k \in 1 .. Last /\ Slots(snippets'[k]) = Slots(snippets[k])
              /\ snippets'[k].min_add = snippets[k].min_add /\ snippets'[k].max_add = snippets[k].max_add
           \/ Slots(snippets'[k]) = {},
         ProperBox(Current', NoAddr)
  PROVE  Kept'
<1>1. \A i \in LiveSlots' : OfStore(array'[i]) /\ OfStore(array[i])
  BY OfStoreParts DEF Kept, Shrunk
<1>2. \A k \in 1 .. Last' : \A i \in Slots(snippets'[k]) : Spans(snippets'[k], array'[i])
  <2> TAKE k \in 1 .. Last'
  <2> TAKE i \in Slots(snippets'[k])
  <2>1. /\ k \in 1 .. Last /\ i \in Slots(snippets[k]) /\ i \in LiveSlots
        /\ snippets'[k].min_add = snippets[k].min_add /\ snippets'[k].max_add = snippets[k].max_add
    BY SnippetFacts
  <2>2. snippets[k].min_add \in Nat /\ snippets[k].max_add \in Nat
    <3>1. \A n \in 0 .. NoAddr : n \in Nat
      BY ConstantRanges, SMT
    <3> QED
      BY <2>1, <3>1, SnippetFacts DEF Snippet
  <2>3. Spans(snippets[k], array[i]) /\ Piece(array[i]) /\ Shrunk(array'[i], array[i])
    BY <2>1 DEF Kept, OfStore
  <2>4. Spans(snippets[k], array'[i])
    BY <2>2, <2>3, SpansParts DEF Shrunk
  <2> QED
    BY <2>1, <2>4 DEF Spans
<1>3. \A e \in tree' : Spans(box', e)
  <2> TAKE x \in tree'
  <2>1. PICK e \in tree : Within(x, e)
    OBVIOUS
  <2>2. box.min_add \in Nat /\ box.max_add \in Nat
    BY ConstantRanges DEF Kept, ProperBox
  <2> QED
    BY <2>1, <2>2, SpansParts DEF Kept, Pieces
<1>4. Undeleted' \subseteq Undeleted
  BY DEF Undeleted, Shrunk
<1>5. \A i \in Undeleted : Piece(array[i]) /\ Piece(array'[i]) /\ Within(array'[i], array[i])
  BY <1>1 DEF Undeleted, OfStore, Shrunk
<1>6. ASSUME track_multiple_stores'
      PROVE  /\ \A i, j \in Undeleted' : i # j => ~Overlap(array'[i], array'[j])
             /\ \A i \in Undeleted' : \A e \in tree' : ~Overlap(array'[i], e)
  <2>1. track_multiple_stores
    BY <1>6 DEF track_multiple_stores
  <2>2. ASSUME NEW i \in Undeleted', NEW j \in Undeleted', i # j
        PROVE  ~Overlap(array'[i], array'[j])
    <3>1. ~Overlap(array[i], array[j]) /\ i \in Undeleted /\ j \in Undeleted
      BY <1>4, <2>1, <2>2 DEF Kept
    <3> QED
      BY <1>5, <3>1, WithinApart
  <2>3. ASSUME NEW i \in Undeleted', NEW x \in tree'
        PROVE  ~Overlap(array'[i], x)
    <3>1. PICK e \in tree : Within(x, e)
      OBVIOUS
    <3>2. ~Overlap(array[i], e) /\ i \in Undeleted /\ Piece(e) /\ Piece(x)
      BY <1>4, <2>1 DEF Kept, Pieces
    <3> QED
      BY <1>5, <3>1, <3>2, WithinApart
  <2> QED
    BY <2>2, <2>3
<1>7. track_multiple_stores' \/ tree_reorganization' => Disjoint(tree')
  BY DEF Kept, track_multiple_stores, tree_reorganization
<1>8. /\ DOMAIN array' = 0 .. MAX_ARRAY_NUM - 1 /\ ProperBox(box', NoAddr)
      /\ "min_add" \in DOMAIN box' /\ "max_add" \in DOMAIN box'
  BY DEF Kept
<1> QED
  BY <1>1, <1>2, <1>3, <1>6, <1>7, <1>8 DEF Kept, Pieces, Disjoint, OfStore

\* Writing the state of an entry leaves its bytes.
LEMMA StateWritten ==
  ASSUME NEW e, Piece(e), NEW st
  PROVE  Shrunk([e EXCEPT !.state = st], e) /\ Shrunk(e, e)
<1>1. LET d == [e EXCEPT !.state = st]
      IN  IsEntry(d) /\ d.addr = e.addr /\ d.size = e.size /\ d.is_delete = e.is_delete
  BY PieceFacts DEF IsEntry
<1>2. Within([e EXCEPT !.state = st], e) /\ Within(e, e)
  BY <1>1, PieceFacts DEF Within, End
<1> QED
  BY <1>1, <1>2 DEF Shrunk, Piece, End

\* Nothing is inserted in the tree when there are no remainders.
LEMMA NoneInserted ==
  ASSUME NaturalSets, FiniteRules, Pieces(tree), NEW P, P = {}, NEW f
  PROVE  InsertAll(InOrder(P, f), tree) = tree
<1>1. P \subseteq Nat /\ IsFiniteSet(P) /\ Cardinality(P) = 0
  <2>1. Cardinality(1 .. 0) = 0
    BY DEF NaturalSets
  <2>2. 1 .. 0 = {}
    BY SMT
  <2> QED
    BY <2>1, <2>2 DEF FiniteRules
<1>2. Len(InOrder(P, f)) = 0
  BY <1>1, InOrderOf
<1>3. PICK news : news = InOrder(P, f)
  OBVIOUS
<1>4. Len(news) \in Nat /\ \A n \in 1 .. Len(news) : Piece(news[n])
  BY <1>2, <1>3, SMT
<1> QED
  BY <1>2, <1>3, <1>4, InsertAllPieces

\* do_flush flushes stores as wholes and cuts only nodes that were merged.
LEMMA OptFlushKept ==
  ASSUME OneStoreInv, listings = 0, NEW q \in Flushes, OptFlush(q)
  PROVE  Kept'
<1>0. NaturalSets /\ FiniteRules /\ SnippetsOK /\ Kept /\ Granular /\ OptionsTypeInv
  BY DEF OneStoreInv, OptionsTypeInv
<1>1. PICK f : f = flush_info(q)
  OBVIOUS
<1>2. f \in FlushRanges /\ IsRange(f)
  BY <1>1, ConstantRanges DEF FlushRanges
<1>3. \A i \in FreshSlots(f) : /\ i \in LiveSlots /\ OfStore(array[i]) /\ Overlap(array[i], f)
                               /\ ~(array[i].addr < f.addr) /\ ~(End(array[i]) > End(f))
  <2> TAKE i \in FreshSlots(f)
  <2>1. i \in LiveSlots /\ Overlap(f, array[i])
    BY <1>0, SplitSlots DEF FreshSlots, Fresh, Met
  <2>2. OfStore(array[i])
    BY <1>0, <2>1 DEF Kept
  <2> QED
    BY <1>0, <1>2, <2>1, <2>2, GranularParts
<1>4. Remainders(f) = {}
  BY <1>3 DEF Remainders
<1>5. /\ snippets' = FlushSnippets(f) /\ array' = FlushArray(f) /\ box' = box /\ options' = options
      /\ LET P == Remainders(f)
             beyond == {p \in P : SlotOf(P, p) >= MAX_ARRAY_NUM}
             full == InsertAll(InOrder(beyond, [p \in beyond |-> Remainder(p, f)]), tree)
         IN  tree' = IF Touches(box, f) THEN UNION {OptFlushNode(e, f) : e \in full} ELSE full
  BY <1>1 DEF OptFlush, Quietly
<1>6. tree' = IF Touches(box, f) THEN UNION {OptFlushNode(e, f) : e \in tree} ELSE tree
  <2>1. PICK beyond : beyond = {p \in Remainders(f) : SlotOf(Remainders(f), p) >= MAX_ARRAY_NUM}
    OBVIOUS
  <2>2. beyond = {}
    BY <1>4, <2>1
  <2>3. InsertAll(InOrder(beyond, [p \in beyond |-> Remainder(p, f)]), tree) = tree
    BY <1>0, <2>2, NoneInserted DEF Kept
  <2> QED
    BY <1>5, <2>1, <2>3
<1>7. /\ Pieces(tree') /\ \A x \in tree' : \E e \in tree : Within(x, e)
      /\ Disjoint(tree) => Disjoint(tree')
  <2>1. Pieces(tree)
    BY <1>0 DEF Kept
  <2>2. PICK parts : parts = [e \in tree |-> OptFlushNode(e, f)]
    OBVIOUS
  <2>3. \A e \in tree : parts[e] = OptFlushNode(e, f)
    BY <2>2
  <2>4. \A e \in tree : Disjoint(parts[e]) /\ \A x \in parts[e] : Piece(x) /\ Within(x, e)
    BY <1>2, <2>1, <2>3, FlushNodeParts DEF Pieces
  <2>5. PICK T : T = UNION {parts[e] : e \in tree}
    OBVIOUS
  <2>6. Pieces(T) /\ (\A x \in T : \E e \in tree : Within(x, e)) /\ (Disjoint(tree) => Disjoint(T))
    BY <2>1, <2>4, <2>5, PartsOfPieces
  <2>7. T = UNION {OptFlushNode(e, f) : e \in tree}
    BY <2>3, <2>5
  <2>8. \A e \in tree : Within(e, e)
    BY <2>1, PieceFacts DEF Pieces
  <2>9. CASE Touches(box, f)
    <3>1. tree' = T
      BY <1>6, <2>7, <2>9
    <3> QED
      BY <2>6, <3>1
  <2>10. CASE ~Touches(box, f)
    <3>1. tree' = tree
      BY <1>6, <2>10
    <3> QED
      BY <2>1, <2>8, <3>1
  <2> QED
    BY <2>9, <2>10
<1>8. DOMAIN array' = DOMAIN array /\ \A i \in LiveSlots : Shrunk(array'[i], array[i])
  <2>1. ASSUME NEW i \in LiveSlots
        PROVE  Shrunk(array'[i], array[i])
    <3>1. i \in DOMAIN array /\ Piece(array[i])
      BY <1>0, SnippetFacts DEF Kept, OfStore
    <3>2. \/ i \in FreshSlots(f) /\ array'[i] = FlushedPart(array[i], f)
          \/ array'[i] = [array[i] EXCEPT !.state = "FLUSHED"]
          \/ array'[i] = array[i]
      BY <1>4, <1>5, <3>1 DEF FlushArray
    <3>3. ASSUME i \in FreshSlots(f)
          PROVE  Shrunk(FlushedPart(array[i], f), array[i])
      BY <1>2, <1>3, <3>1, <3>3, EntryParts DEF Shrunk
    <3> QED
      BY <3>1, <3>2, <3>3, StateWritten
  <2> QED
    BY <1>5, <2>1 DEF FlushArray
<1>9. PICK n : n = IndexAfter(Remainders(f))
  OBVIOUS
<1>10. n \in 0 .. MAX_ARRAY_NUM /\ n >= Current.index /\ Current.index .. n - 1 = {}
  <2>1. n = Current.index /\ n \in 0 .. MAX_ARRAY_NUM /\ n >= Current.index
    BY <1>0, <1>4, <1>9, SplitSlots, NextFree
  <2>2. Current.index \in Nat
    BY <1>0, SnippetFacts
  <2>3. Current.index .. n - 1 = {}
    BY <2>1, <2>2, SMT
  <2> QED
    BY <2>1, <2>3
<1>11. /\ SnippetsOK' /\ LiveSlots' = LiveSlots
       /\ \A k \in 1 .. Last' :
            \/ /\ k \in 1 .. Last /\ Slots(snippets'[k]) = Slots(snippets[k])
               /\ snippets'[k].min_add = snippets[k].min_add /\ snippets'[k].max_add = snippets[k].max_add
            \/ Slots(snippets'[k]) = {}
       /\ \/ Current'.min_add = Current.min_add /\ Current'.max_add = Current.max_add
          \/ Current'.min_add = NoAddr /\ Current'.max_add = NoAddr
  <2>1. Current = snippets[Last]
    BY DEF Current
  <2> QED
    BY <1>0, <1>5, <1>9, <1>10, <2>1, SnippetsMarked
<1>12. ProperBox(Current', NoAddr)
  BY <1>0, <1>11 DEF Kept, ProperBox
<1> QED
  BY <1>0, <1>5, <1>7, <1>8, <1>11, <1>12, ShrunkKept

\* SET_CLEAN deletes stores of the array as wholes.
LEMMA OptCleanKept ==
  ASSUME OneStoreInv, listings = 0, NEW r \in Cleans, OptClean(r)
  PROVE  Kept'
<1>0. NaturalSets /\ FiniteRules /\ SnippetsOK /\ Kept /\ Granular /\ OptionsTypeInv
  BY DEF OneStoreInv, OptionsTypeInv
<1>1. IsRange(r)
  BY ConstantRanges
<1>2. \A i \in CleanSlots(r) : /\ i \in LiveSlots /\ OfStore(array[i])
                               /\ ~(array[i].addr < r.addr) /\ ~(End(array[i]) > End(r))
  <2> TAKE i \in CleanSlots(r)
  <2>1. i \in LiveSlots /\ Overlap(r, array[i])
    BY DEF CleanSlots
  <2>2. OfStore(array[i])
    BY <1>0, <2>1 DEF Kept
  <2> QED
    BY <1>0, <2>1, <2>2, GranularParts
<1>3. Pierced(r) = {}
  BY <1>2 DEF Pierced
<1>4. /\ snippets' = [snippets EXCEPT ![Last].index = IndexAfter(Pierced(r))]
      /\ box' = box /\ options' = options
      /\ array' = [i \in DOMAIN array |->
                     IF i \in CleanSlots(r) THEN Cut(array[i], r)
                     ELSE IF \E p \in Pierced(r) : SlotOf(Pierced(r), p) = i
                     THEN BeyondIn(array[i], array[CHOOSE p \in Pierced(r) : SlotOf(Pierced(r), p) = i], r)
                     ELSE array[i]]
      /\ LET P == Pierced(r)
             beyond == {p \in P : SlotOf(P, p) >= MAX_ARRAY_NUM}
             full == InsertAll(InOrder(beyond, [p \in beyond |-> BeyondIn(ZeroStore, array[p], r)]), tree)
         IN  tree' = UNION {CleanNode(e, r) : e \in full}
  BY DEF OptClean, Quietly
<1>5. tree' = UNION {CleanNode(e, r) : e \in tree}
  <2>1. PICK beyond : beyond = {p \in Pierced(r) : SlotOf(Pierced(r), p) >= MAX_ARRAY_NUM}
    OBVIOUS
  <2>2. beyond = {}
    BY <1>3, <2>1
  <2>3. InsertAll(InOrder(beyond, [p \in beyond |-> BeyondIn(ZeroStore, array[p], r)]), tree) = tree
    BY <1>0, <2>2, NoneInserted DEF Kept
  <2> QED
    BY <1>4, <2>1, <2>3
<1>6. /\ Pieces(tree') /\ \A x \in tree' : \E e \in tree : Within(x, e)
      /\ Disjoint(tree) => Disjoint(tree')
  <2>1. Pieces(tree)
    BY <1>0 DEF Kept
  <2>2. PICK parts : parts = [e \in tree |-> CleanNode(e, r)]
    OBVIOUS
  <2>3. \A e \in tree : parts[e] = CleanNode(e, r)
    BY <2>2
  <2>4. \A e \in tree : Disjoint(parts[e]) /\ \A x \in parts[e] : Piece(x) /\ Within(x, e)
    BY <1>1, <2>1, <2>3, CleanNodeParts DEF Pieces
  <2>5. PICK T : T = UNION {parts[e] : e \in tree}
    OBVIOUS
  <2>6. Pieces(T) /\ (\A x \in T : \E e \in tree : Within(x, e)) /\ (Disjoint(tree) => Disjoint(T))
    BY <2>1, <2>4, <2>5, PartsOfPieces
  <2>7. tree' = T
    BY <1>5, <2>3, <2>5
  <2> QED
    BY <2>6, <2>7
<1>7. DOMAIN array' = DOMAIN array /\ \A i \in LiveSlots : Shrunk(array'[i], array[i])
  <2>1. ASSUME NEW i \in LiveSlots
        PROVE  Shrunk(array'[i], array[i])
    <3>1. i \in DOMAIN array /\ Piece(array[i])
      BY <1>0, SnippetFacts DEF Kept, OfStore
    <3>2. \/ i \in CleanSlots(r) /\ array'[i] = [array[i] EXCEPT !.is_delete = TRUE]
          \/ array'[i] = array[i]
      BY <1>2, <1>3, <1>4, <3>1 DEF Cut
    <3>3. Shrunk([array[i] EXCEPT !.is_delete = TRUE], array[i])
      <4>1. PICK e : e = array[i]
        OBVIOUS
      <4>2. PICK d : d = [e EXCEPT !.is_delete = TRUE]
        OBVIOUS
      <4>3. IsEntry(d) /\ d.addr = e.addr /\ d.size = e.size /\ d.is_delete
        BY <3>1, <4>1, <4>2, PieceFacts DEF IsEntry
      <4>4. Piece(d) /\ Within(d, e)
        BY <3>1, <4>1, <4>3, PieceFacts DEF Piece, Within, End
      <4> QED
        BY <4>1, <4>2, <4>3, <4>4 DEF Shrunk
    <3> QED
      BY <3>1, <3>2, <3>3, StateWritten
  <2> QED
    BY <1>4, <2>1
<1>8. PICK c : c = [Current EXCEPT !.index = IndexAfter(Pierced(r))]
  OBVIOUS
<1>9. Current \in Snippet /\ Last \in 1 .. Last /\ Current = snippets[Last] /\ Current.index \in Nat
  BY <1>0, SnippetFacts
<1>10. IndexAfter(Pierced(r)) = Current.index
  BY <1>0, <1>3, SplitSlots, NextFree
<1>11. c = Current /\ Current.index >= Current.index /\ Current.index .. Current.index - 1 = {}
  <2>1. c = Current
    BY <1>8, <1>9, <1>10 DEF Snippet
  <2> QED
    BY <1>9, <2>1, SMT
<1>12. snippets' = [snippets EXCEPT ![Last] = c]
  BY <1>4, <1>8, <1>9
<1>13. /\ SnippetsOK' /\ Last' = Last /\ Current' = Current /\ LiveSlots' = LiveSlots
       /\ \A k \in 1 .. Last : snippets'[k] = IF k = Last THEN Current ELSE snippets[k]
  BY <1>0, <1>9, <1>11, <1>12, CurrentWritten, ZenonT(60)
<1>14. \A k \in 1 .. Last' : k \in 1 .. Last /\ snippets'[k] = snippets[k]
  BY <1>9, <1>13
<1>15. \A k \in 1 .. Last' : Slots(snippets'[k]) = Slots(snippets[k])
  BY <1>14
<1>16. ProperBox(Current', NoAddr)
  BY <1>0, <1>13 DEF Kept
<1> QED
  BY <1>0, <1>4, <1>6, <1>7, <1>13, <1>14, <1>15, <1>16, ShrunkKept

\* The short listing only writes the state of stores.
LEMMA StatsKept ==
  ASSUME OneStoreInv, listings = 0, print_store_stats, options' = options
  PROVE  Kept'
<1>0. SnippetsOK /\ Kept
  BY DEF OneStoreInv, OptionsTypeInv
<1>1. /\ snippets' = snippets /\ tree' = tree /\ box' = box
      /\ array' = [i \in DOMAIN array |->
                     IF AllFlushed(i) THEN [array[i] EXCEPT !.state = "FLUSHED"] ELSE array[i]]
  BY DEF print_store_stats
<1>2. SnippetsOK' /\ Last' = Last /\ Current' = Current /\ LiveSlots' = LiveSlots
  BY <1>0, <1>1 DEF SnippetsOK, Last, Current, LiveSlots, Slots
<1>3. DOMAIN array' = DOMAIN array /\ \A i \in LiveSlots : Shrunk(array'[i], array[i])
  <2>1. ASSUME NEW i \in LiveSlots
        PROVE  Shrunk(array'[i], array[i])
    <3>1. i \in DOMAIN array /\ Piece(array[i])
      BY <1>0, SnippetFacts DEF Kept, OfStore
    <3>2. array'[i] = [array[i] EXCEPT !.state = "FLUSHED"] \/ array'[i] = array[i]
      BY <1>1, <3>1
    <3> QED
      BY <3>1, <3>2, StateWritten
  <2> QED
    BY <1>1, <2>1
<1>4. /\ Pieces(tree') /\ \A x \in tree' : \E e \in tree : Within(x, e)
      /\ Disjoint(tree) => Disjoint(tree')
  <2>1. Pieces(tree)
    BY <1>0 DEF Kept
  <2>2. \A e \in tree : Within(e, e)
    BY <2>1, PieceFacts DEF Pieces
  <2> QED
    BY <1>1, <2>1, <2>2
<1>5. ProperBox(Current', NoAddr)
  BY <1>0, <1>2 DEF Kept
<1>6. \A k \in 1 .. Last' :
        /\ k \in 1 .. Last /\ Slots(snippets'[k]) = Slots(snippets[k])
        /\ snippets'[k].min_add = snippets[k].min_add /\ snippets'[k].max_add = snippets[k].max_add
  BY <1>1, <1>2
<1> QED
  BY <1>0, <1>1, <1>2, <1>3, <1>4, <1>5, <1>6, ShrunkKept

\* do_fence moves stores that overlap no other to the tree, or merges those
\* that do, and the new box spans them all.
LEMMA OptFenceKept ==
  ASSUME OneStoreInv, listings = 0, OptFence
  PROVE  Kept'
<1>0. NaturalSets /\ FiniteRules /\ SnippetsOK /\ Kept /\ OptionsTypeInv
  BY DEF OneStoreInv, OptionsTypeInv
<1>1. PICK slots : slots = {j \in LiveSlots : /\ ~AllFlushed(j)
                                              /\ array[j].state # "FLUSHED"
                                              /\ ~array[j].is_delete}
  OBVIOUS
<1>2. PICK old : old = {e \in tree : e.state # "FLUSHED"}
  OBVIOUS
<1>3. PICK news : news = InOrder(slots, array)
  OBVIOUS
<1>4. /\ snippets' = <<init_snippet_info(0)>> /\ tree' = InsertAll(news, old)
      /\ box' = BoxOf(tree' \cup old \cup {array[j] : j \in slots})
      /\ array' = array /\ options' = options
  BY <1>1, <1>2, <1>3 DEF OptFence, Quietly
<1>5. slots \subseteq Undeleted /\ slots \subseteq Nat /\ IsFiniteSet(slots)
  <2>1. slots \in SUBSET (0 .. MAX_ARRAY_NUM - 1) /\ slots \subseteq Nat /\ slots \subseteq Undeleted
    BY <1>0, <1>1, SnippetFacts DEF Undeleted
  <2>2. MAX_ARRAY_NUM - 1 \in Int
    BY ConstantRanges, SMT
  <2> QED
    BY <1>0, <2>1, <2>2 DEF NaturalSets
<1>6. Len(news) \in Nat /\ \A n \in 1 .. Len(news) : \E p \in slots : news[n] = array[p]
  <2>1. NaturalSets /\ FiniteRules
    BY <1>0
  <2>2. Len(InOrder(slots, array)) = Cardinality(slots) /\ Cardinality(slots) \in Nat
    BY <1>5, <2>1, InOrderOf
  <2>3. slots \subseteq Nat /\ IsFiniteSet(slots)
    BY <1>5
  <2>4. \A n \in 1 .. Cardinality(slots) : InOrder(slots, array)[n] \in {array[p] : p \in slots}
    BY <2>1, <2>3, InOrderOf, ZenonT(60)
  <2> QED
    BY <1>3, <2>2, <2>4
<1>7. \A p \in slots : Piece(array[p])
  BY <1>0, <1>5 DEF Kept, OfStore, Undeleted
<1>8. \A n \in 1 .. Len(news) : Piece(news[n])
  BY <1>6, <1>7
<1>9. Pieces(old) /\ (Disjoint(tree) => Disjoint(old)) /\ old \subseteq tree
  BY <1>0, <1>2 DEF Kept, Pieces, Disjoint
<1>10. /\ Pieces(tree')
       /\ tree_reorganization /\ Disjoint(old) => Disjoint(tree')
       /\ ~tree_reorganization => tree' = old \cup {news[n] : n \in 1 .. Len(news)}
  BY <1>0, <1>4, <1>6, <1>8, <1>9, InsertAllPieces
<1>11. track_multiple_stores' \/ tree_reorganization' => Disjoint(tree')
  <2>1. track_multiple_stores' = track_multiple_stores /\ tree_reorganization' = tree_reorganization
    BY <1>4 DEF track_multiple_stores, tree_reorganization
  <2>2. CASE tree_reorganization
    BY <1>0, <1>9, <1>10, <2>2 DEF Kept
  <2>3. CASE track_multiple_stores /\ ~tree_reorganization
    <3>1. \A x \in tree' : x \in old \/ \E p \in slots : x = array[p]
      BY <1>6, <1>10, <2>3
    <3>2. Disjoint(old)
      BY <1>0, <1>9, <2>3 DEF Kept
    <3>3. /\ \A i, j \in slots : i # j => ~Overlap(array[i], array[j])
          /\ \A i \in slots : \A e \in old : ~Overlap(array[i], e) /\ ~Overlap(e, array[i])
      BY <1>0, <1>5, <1>9, <2>3, OverlapSymmetric DEF Kept
    <3>4. ASSUME NEW x \in tree', NEW y \in tree', x # y
          PROVE  ~Overlap(x, y)
      <4>1. CASE x \in old /\ y \in old
        BY <3>2, <3>4, <4>1 DEF Disjoint
      <4>2. ASSUME NEW p \in slots, x = array[p]
            PROVE  ~Overlap(x, y)
        <5>1. CASE y \in old
          BY <3>3, <4>2, <5>1
        <5>2. ASSUME NEW m \in slots, y = array[m]
              PROVE  ~Overlap(x, y)
          BY <3>3, <3>4, <4>2, <5>2
        <5> QED
          BY <3>1, <5>1, <5>2
      <4>3. ASSUME x \in old, NEW m \in slots, y = array[m]
            PROVE  ~Overlap(x, y)
        BY <3>3, <4>3
      <4> QED
        BY <3>1, <4>1, <4>2, <4>3
    <3> QED
      BY <3>4 DEF Disjoint
  <2> QED
    BY <2>1, <2>2, <2>3
<1>12. PICK S : S = tree' \cup old \cup {array[j] : j \in slots}
  OBVIOUS
<1>13. \A e \in S : e.addr \in Nat /\ e.addr < NoAddr /\ End(e) \in Nat /\ End(e) < NoAddr
  <2>1. \A e \in S : Piece(e)
    BY <1>7, <1>9, <1>10, <1>12 DEF Pieces
  <2> QED
    BY <2>1, PieceFacts
<1>14. /\ box' \in [min_add : 0 .. NoAddr, max_add : 0 .. NoAddr] /\ ProperBox(box', NoAddr)
       /\ \A e \in tree' : Spans(box', e)
  BY <1>0, <1>4, <1>12, <1>13, WholeBox
<1>15. "min_add" \in DOMAIN box' /\ "max_add" \in DOMAIN box'
  BY <1>14
<1>16. LiveSlots' = {} /\ Last' = 1 /\ Undeleted' = {}
  BY <1>4, OneSnippetOK DEF Undeleted
<1>17. /\ \A k \in 1 .. Last' : Slots(snippets'[k]) = {}
       /\ ProperBox(Current', NoAddr)
  <2>1. (\A k \in 1 .. 1 : k = 1) /\ 0 .. 0 - 1 = {}
    BY SMT
  <2>2. Current' = snippets'[1]
    BY <1>16 DEF Current
  <2> QED
    BY <1>4, <1>16, <2>1, <2>2, OneSnippet DEF Slots, ProperBox
<1>18. DOMAIN array' = 0 .. MAX_ARRAY_NUM - 1
  BY <1>0, <1>4 DEF Kept
<1> QED
  BY <1>10, <1>11, <1>14, <1>15, <1>16, <1>17, <1>18 DEF Kept, Pieces, Disjoint

\* split_stores: what it leaves of a slot does not overlap the new store.
LEMMA TrimmedParts ==
  ASSUME NEW e, Piece(e), NEW r, IsRange(r), Overlap(e, r)
  PROVE  LET x == Trimmed(e, r)
         IN  Shrunk(x, e) /\ (x.is_delete \/ ~Overlap(x, r))
<1>0. PICK x : x = Trimmed(e, r)
  OBVIOUS
<1> SUFFICES Shrunk(x, e) /\ (x.is_delete \/ ~Overlap(x, r))
  BY <1>0
<1>1. CASE e.addr < r.addr
  <2>1. x = LeftPart(e, r)
    BY <1>0, <1>1 DEF Trimmed
  <2>2. Piece(x) /\ Within(x, e) /\ End(x) = r.addr /\ x.is_delete = e.is_delete
    BY <1>1, <2>1, EntryParts
  <2>3. ~Overlap(x, r)
    BY <2>2, PieceFacts, SMT DEF Overlap, IsRange
  <2> QED
    BY <2>2, <2>3 DEF Shrunk
<1>2. CASE ~(e.addr < r.addr) /\ End(e) > End(r)
  <2>1. x = RightPart(e, r)
    BY <1>0, <1>2 DEF Trimmed
  <2>2. Piece(x) /\ Within(x, e) /\ x.addr = End(r) /\ x.is_delete = e.is_delete
    BY <1>2, <2>1, EntryParts
  <2>3. ~Overlap(x, r)
    BY <2>2, PieceFacts, SMT DEF Overlap, IsRange
  <2> QED
    BY <2>2, <2>3 DEF Shrunk
<1>3. CASE ~(e.addr < r.addr) /\ ~(End(e) > End(r))
  <2>1. x = [e EXCEPT !.is_delete = TRUE]
    BY <1>0, <1>3 DEF Trimmed
  <2>2. IsEntry(x) /\ x.addr = e.addr /\ x.size = e.size /\ x.is_delete
    BY <2>1, PieceFacts DEF IsEntry
  <2>3. Piece(x) /\ Within(x, e)
    BY <2>2, PieceFacts DEF Piece, Within, End
  <2> QED
    BY <2>2, <2>3 DEF Shrunk
<1> QED
  BY <1>1, <1>2, <1>3

\* handle_with_mult_stores finds every store that the new one overlaps and
\* leaves nothing of it under the new one.
LEMMA OverwrittenKept ==
  ASSUME OneStoreInv, listings = 0, NEW r \in Stores
  PROVE  LET A == Overwritten(r).array
             T == Overwritten(r).tree
         IN  /\ DOMAIN A = DOMAIN array
             /\ \A i \in LiveSlots : Shrunk(A[i], array[i])
             /\ Pieces(T) /\ \A x \in T : \E e \in tree : Within(x, e)
             /\ Disjoint(tree) => Disjoint(T)
             /\ track_multiple_stores =>
                  /\ \A i \in LiveSlots : A[i].is_delete \/ ~Overlap(A[i], r)
                  /\ \A x \in T : ~Overlap(x, r)
<1>0. SnippetsOK /\ Kept /\ NoneInside /\ IsRange(r)
  BY ConstantRanges DEF OneStoreInv, OptionsTypeInv
<1>1. Pieces(tree) /\ \A e \in tree : Piece(e) /\ Within(e, e)
  BY <1>0, PieceFacts DEF Kept, Pieces
<1>2. \A i \in LiveSlots : i \in DOMAIN array /\ OfStore(array[i]) /\ Piece(array[i])
  BY <1>0, SnippetFacts DEF Kept, OfStore
<1>3. CASE ~track_multiple_stores
  <2>1. Overwritten(r).array = array /\ Overwritten(r).tree = tree
    BY <1>3 DEF Overwritten
  <2>2. \A i \in LiveSlots : Shrunk(array[i], array[i])
    BY <1>2, StateWritten
  <2> QED
    BY <1>1, <1>3, <2>1, <2>2
<1>4. CASE track_multiple_stores
  <2>1. /\ Overwritten(r).array = [i \in DOMAIN array |->
                                     IF i \in Hit(r) THEN Trimmed(array[i], r) ELSE array[i]]
        /\ Overwritten(r).tree = (tree \ HitNodes(r)) \cup After(r)
                                 \cup UNION {SplitOff(e, r) : e \in HitNodes(r)}
    BY <1>4 DEF Overwritten
  <2>2. \A x : x.min_add \in Nat /\ x.max_add \in Nat =>
          \A e : Piece(e) /\ Spans(x, e) /\ Overlap(e, r) => Touches(x, r)
    <3>1. r.addr \in Nat /\ r.size \in Nat
      BY <1>0 DEF IsRange
    <3> QED
      BY <3>1, SMT DEF Spans, Touches, Overlap, Piece, End
  <2>3. \A i \in LiveSlots : ~array[i].is_delete /\ Overlap(array[i], r) => i \in Hit(r)
    <3> SUFFICES ASSUME NEW i \in LiveSlots, ~array[i].is_delete, Overlap(array[i], r)
                 PROVE  i \in Hit(r)
      OBVIOUS
    <3>1. PICK k \in 1 .. Last : i \in Slots(snippets[k])
      BY <1>0 DEF SnippetsOK
    <3>2. snippets[k].min_add \in Nat /\ snippets[k].max_add \in Nat
      <4>1. \A n \in 0 .. NoAddr : n \in Nat
        BY ConstantRanges, SMT
      <4> QED
        BY <1>0, <4>1, SnippetFacts DEF Snippet
    <3>3. Spans(snippets[k], array[i])
      BY <1>0, <3>1 DEF Kept
    <3>4. Touches(snippets[k], r)
      BY <1>2, <2>2, <3>2, <3>3
    <3> QED
      BY <3>1, <3>4 DEF Hit
  <2>4. \A e \in tree : Overlap(e, r) => e \in HitNodes(r)
    <3>1. box.min_add \in Nat /\ box.max_add \in Nat
      BY <1>0, ConstantRanges DEF Kept, ProperBox
    <3>2. \A e \in tree : Overlap(e, r) => Touches(box, r)
      BY <1>0, <1>1, <2>2, <3>1 DEF Kept
    <3> QED
      BY <3>2 DEF HitNodes
  <2>5. \A e \in HitNodes(r) : e \in tree
    BY DEF HitNodes
  <2>6. \A i \in Hit(r) : i \in LiveSlots /\ Overlap(array[i], r)
    BY DEF Hit
  <2>7. After(r) = {}
    <3>1. ASSUME NEW i \in Hit(r), array[i].addr < r.addr, End(array[i]) > End(r)
          PROVE  FALSE
      <4>1. PICK s \in Stores : Within(array[i], s)
        BY <1>2, <2>6 DEF OfStore
      <4>2. /\ s.addr \in Nat /\ s.size \in Nat /\ r.addr \in Nat /\ r.size \in Nat
            /\ array[i].addr \in Nat /\ array[i].size \in Nat
        BY <1>0, <1>2, <2>6, ConstantRanges, PieceFacts DEF IsRange
      <4>3. s.addr < r.addr /\ End(r) < End(s)
        BY <3>1, <4>1, <4>2, SMT DEF Within, End
      <4> QED
        BY <1>0, <4>3 DEF NoneInside
    <3> QED
      BY <3>1 DEF After
  <2>8. PICK parts : parts = [e \in tree |-> IF e \in HitNodes(r) THEN SplitOff(e, r) ELSE {e}]
    OBVIOUS
  <2>9. \A e \in tree : parts[e] = IF e \in HitNodes(r) THEN SplitOff(e, r) ELSE {e}
    BY <2>8
  <2>10. PICK T : T = UNION {parts[e] : e \in tree}
    OBVIOUS
  <2>11. T = Overwritten(r).tree
    <3>1. \A x : x \in T <=> \E e \in tree : x \in parts[e]
      BY <2>10
    <3>2. \A x : x \in Overwritten(r).tree <=>
                   x \in tree \ HitNodes(r) \/ \E e \in HitNodes(r) : x \in SplitOff(e, r)
      BY <2>1, <2>7
    <3>3. \A x : x \in T <=> x \in Overwritten(r).tree
      <4> TAKE x
      <4>1. ASSUME NEW e \in tree, x \in parts[e]
            PROVE  x \in Overwritten(r).tree
        <5>1. CASE e \in HitNodes(r)
          <6>1. x \in SplitOff(e, r)
            BY <2>9, <4>1, <5>1
          <6> QED
            BY <3>2, <5>1, <6>1
        <5>2. CASE e \notin HitNodes(r)
          <6>1. x = e
            BY <2>9, <4>1, <5>2
          <6> QED
            BY <3>2, <5>2, <6>1
        <5> QED
          BY <5>1, <5>2
      <4>2. ASSUME x \in tree \ HitNodes(r)
            PROVE  x \in T
        BY <2>9, <3>1, <4>2
      <4>3. ASSUME NEW e \in HitNodes(r), x \in SplitOff(e, r)
            PROVE  x \in T
        BY <2>5, <2>9, <3>1, <4>3
      <4> QED
        BY <3>1, <3>2, <4>1, <4>2, <4>3
    <3>4. Overwritten(r).tree = (tree \ HitNodes(r)) \cup UNION {SplitOff(e, r) : e \in HitNodes(r)}
      BY <2>1, <2>7
    <3> QED
      BY <2>10, <3>3, <3>4
  <2>12. \A e \in tree : /\ Disjoint(parts[e])
                         /\ \A x \in parts[e] : Piece(x) /\ Within(x, e) /\ ~Overlap(x, r)
    <3> TAKE e \in tree
    <3>1. CASE e \in HitNodes(r)
      <4>1. parts[e] = SplitOff(e, r) /\ Piece(e)
        BY <1>1, <2>9, <3>1
      <4> QED
        BY <1>0, <4>1, SplitOffParts
    <3>2. CASE e \notin HitNodes(r)
      BY <1>1, <2>4, <2>9, <3>2, ZenonT(60) DEF Disjoint
    <3> QED
      BY <3>1, <3>2
  <2>13. /\ Pieces(T) /\ (\A x \in T : \E e \in tree : Within(x, e))
         /\ Disjoint(tree) => Disjoint(T)
    BY <1>1, <2>10, <2>12, PartsOfPieces
  <2>14. \A x \in T : ~Overlap(x, r)
    BY <2>10, <2>12
  <2>15. \A i \in LiveSlots : /\ Shrunk(Overwritten(r).array[i], array[i])
                              /\ \/ Overwritten(r).array[i].is_delete
                                 \/ ~Overlap(Overwritten(r).array[i], r)
    <3> TAKE i \in LiveSlots
    <3>1. Piece(array[i])
          /\ Overwritten(r).array[i] = IF i \in Hit(r) THEN Trimmed(array[i], r) ELSE array[i]
      BY <1>2, <2>1
    <3>2. CASE i \notin Hit(r)
      <4>1. Overwritten(r).array[i] = array[i] /\ Shrunk(array[i], array[i])
        BY <3>1, <3>2, StateWritten
      <4> QED
        BY <2>3, <3>2, <4>1
    <3>3. CASE i \in Hit(r)
      <4>1. Overwritten(r).array[i] = Trimmed(array[i], r) /\ Overlap(array[i], r)
        BY <2>6, <3>1, <3>3
      <4> QED
        BY <1>0, <3>1, <4>1, TrimmedParts
    <3> QED
      BY <3>2, <3>3
  <2>16. DOMAIN Overwritten(r).array = DOMAIN array
    BY <2>1
  <2> QED
    BY <2>11, <2>13, <2>14, <2>15, <2>16
<1> QED
  BY <1>3, <1>4

\* What is left of the older stores, as Kept says.
LEMMA OlderStores ==
  ASSUME OneStoreInv, listings = 0, NEW r \in Stores,
         NEW A, A = Overwritten(r).array, NEW T, T = Overwritten(r).tree
  PROVE  /\ DOMAIN A = 0 .. MAX_ARRAY_NUM - 1 /\ Pieces(T)
         /\ \A i \in LiveSlots : OfStore(A[i])
         /\ \A k \in 1 .. Last : \A i \in Slots(snippets[k]) : Spans(snippets[k], A[i])
         /\ \A x \in T : Spans(box, x)
         /\ track_multiple_stores =>
              /\ \A i, j \in LiveSlots : i # j /\ ~A[i].is_delete /\ ~A[j].is_delete
                                         => ~Overlap(A[i], A[j])
              /\ \A i \in LiveSlots : \A x \in T : ~A[i].is_delete => ~Overlap(A[i], x)
              /\ \A i \in LiveSlots : ~A[i].is_delete => ~Overlap(A[i], r)
              /\ \A x \in T : ~Overlap(x, r)
         /\ track_multiple_stores \/ tree_reorganization => Disjoint(T)
<1>0. SnippetsOK /\ Kept
  BY DEF OneStoreInv, OptionsTypeInv
<1>1. /\ DOMAIN A = DOMAIN array /\ \A i \in LiveSlots : Shrunk(A[i], array[i])
      /\ Pieces(T) /\ \A x \in T : \E e \in tree : Within(x, e)
      /\ Disjoint(tree) => Disjoint(T)
      /\ track_multiple_stores => /\ \A i \in LiveSlots : A[i].is_delete \/ ~Overlap(A[i], r)
                                  /\ \A x \in T : ~Overlap(x, r)
  BY OverwrittenKept
<1>2. \A i \in LiveSlots : OfStore(array[i]) /\ Piece(array[i]) /\ Piece(A[i]) /\ Within(A[i], array[i])
  BY <1>0, <1>1 DEF Kept, OfStore, Shrunk
<1>3. \A i \in LiveSlots : OfStore(A[i])
  BY <1>2, OfStoreParts
<1>4. \A k \in 1 .. Last : \A i \in Slots(snippets[k]) : Spans(snippets[k], A[i])
  <2> TAKE k \in 1 .. Last
  <2> TAKE i \in Slots(snippets[k])
  <2>1. i \in LiveSlots /\ Spans(snippets[k], array[i])
    BY <1>0, SnippetFacts DEF Kept
  <2>2. snippets[k].min_add \in Nat /\ snippets[k].max_add \in Nat
    <3>1. \A n \in 0 .. NoAddr : n \in Nat
      BY ConstantRanges, SMT
    <3> QED
      BY <1>0, <3>1, SnippetFacts DEF Snippet
  <2> QED
    BY <1>2, <2>1, <2>2, SpansParts
<1>5. \A x \in T : Spans(box, x)
  <2> TAKE x \in T
  <2>1. PICK e \in tree : Within(x, e)
    BY <1>1
  <2>2. box.min_add \in Nat /\ box.max_add \in Nat
    BY <1>0, ConstantRanges DEF Kept, ProperBox
  <2>3. Piece(x) /\ Piece(e) /\ Spans(box, e)
    BY <1>0, <1>1 DEF Kept, Pieces
  <2> QED
    BY <2>1, <2>2, <2>3, SpansParts
<1>6. ASSUME track_multiple_stores, NEW i \in LiveSlots, ~A[i].is_delete
      PROVE  /\ i \in Undeleted
             /\ \A j \in LiveSlots : i # j /\ ~A[j].is_delete => ~Overlap(A[i], A[j])
             /\ \A x \in T : ~Overlap(A[i], x)
  <2>1. \A j \in LiveSlots : ~A[j].is_delete => j \in Undeleted
    BY <1>1 DEF Shrunk, Undeleted
  <2>2. \A j \in LiveSlots : i # j /\ ~A[j].is_delete => ~Overlap(A[i], A[j])
    <3> SUFFICES ASSUME NEW j \in LiveSlots, i # j, ~A[j].is_delete PROVE ~Overlap(A[i], A[j])
      OBVIOUS
    <3>1. ~Overlap(array[i], array[j])
      BY <1>0, <1>6, <2>1 DEF Kept
    <3> QED
      BY <1>2, <3>1, WithinApart
  <2>3. \A x \in T : ~Overlap(A[i], x)
    <3> TAKE x \in T
    <3>1. PICK e \in tree : Within(x, e)
      BY <1>1
    <3>2. ~Overlap(array[i], e) /\ Piece(e) /\ Piece(x)
      BY <1>0, <1>1, <1>6, <2>1 DEF Kept, Pieces
    <3> QED
      BY <1>2, <3>1, <3>2, WithinApart
  <2> QED
    BY <1>6, <2>1, <2>2, <2>3
<1>7. track_multiple_stores \/ tree_reorganization => Disjoint(T)
  BY <1>0, <1>1 DEF Kept
<1>8. DOMAIN A = 0 .. MAX_ARRAY_NUM - 1
  BY <1>0, <1>1 DEF Kept
<1> QED
  BY <1>1, <1>3, <1>4, <1>5, <1>6, <1>7, <1>8

\* The entry of a new store.
LEMMA NewEntry ==
  ASSUME NEW r \in Stores, NEW old, NEW c
  PROVE  LET new == WithContext(NewStore(r, old), c)
         IN  OfStore(new) /\ new.addr = r.addr /\ new.size = r.size /\ ~new.is_delete
<1>1. PICK e : e = NewStore(r, old)
  OBVIOUS
<1>2. PICK new : new = WithContext(e, c)
  OBVIOUS
<1>3. IsEntry(e) /\ e.addr = r.addr /\ e.size = r.size /\ ~e.is_delete
  BY <1>1 DEF NewStore, IsEntry
<1>4. IsEntry(new) /\ new.addr = r.addr /\ new.size = r.size /\ ~new.is_delete
  <2>1. CASE new = e
    BY <1>3, <2>1
  <2>2. CASE new = [k \in DOMAIN e \cup {"context"} |-> IF k = "context" THEN c ELSE e[k]]
    BY <1>3, <2>2 DEF IsEntry
  <2> QED
    BY <1>2, <2>1, <2>2 DEF WithContext
<1>5. IsRange(r)
  BY ConstantRanges
<1>6. Piece(new) /\ End(new) = End(r)
  BY <1>4, <1>5 DEF Piece, IsRange, End
<1>7. Within(new, r)
  <2>1. new.addr \in Nat /\ End(new) \in Nat
    BY <1>6, PieceFacts
  <2>2. new.addr <= new.addr /\ End(new) <= End(new)
    BY <2>1, SMT
  <2> QED
    BY <1>4, <1>6, <2>2 DEF Within
<1> QED
  BY <1>1, <1>2, <1>4, <1>6, <1>7 DEF OfStore

\* trace_pmem_store with room in the array.
LEMMA OptStoreToArrayKept ==
  ASSUME OneStoreInv, listings = 0, NEW r \in Stores, NEW ctx \in Contexts,
         OptStoreToArray(r, ctx), options' = options
  PROVE  Kept'
<1>0. SnippetsOK /\ Kept
  BY DEF OneStoreInv, OptionsTypeInv
<1>1. PICK A : A = Overwritten(r).array
  OBVIOUS
<1>2. PICK T : T = Overwritten(r).tree
  OBVIOUS
<1>3. PICK c : c = Current.index
  OBVIOUS
<1>4. PICK new : new = WithContext(NewStore(r, array[c]), ctx)
  OBVIOUS
<1>5. PICK b : b = [Current EXCEPT !.index = Current.index + 1]
  OBVIOUS
<1>6. PICK s : s = Widen(b, r)
  OBVIOUS
<1>7. /\ c < MAX_ARRAY_NUM /\ box' = box /\ snippets' = [snippets EXCEPT ![Last] = s]
      /\ array' = [A EXCEPT ![c] = new] /\ tree' = T
  BY <1>1, <1>2, <1>3, <1>4, <1>5, <1>6 DEF OptStoreToArray
<1>8. OfStore(new) /\ new.addr = r.addr /\ new.size = r.size /\ ~new.is_delete
  BY <1>4, NewEntry
<1>9. /\ s \in Snippet /\ s.start_index = Current.start_index
      /\ s.index = Current.index + 1 /\ s.index >= Current.index
      /\ Current.index .. s.index - 1 = {c}
  BY <1>0, <1>3, <1>5, <1>6, <1>7, SlotTaken
<1>10. /\ Last' = Last /\ Current' = s
       /\ LiveSlots' = LiveSlots \cup {c} /\ Slots(s) = Slots(Current) \cup {c}
       /\ \A k \in 1 .. Last : snippets'[k] = IF k = Last THEN s ELSE snippets[k]
  BY <1>0, <1>7, <1>9, CurrentWritten
<1>11. c \in 0 .. MAX_ARRAY_NUM - 1 /\ c \notin LiveSlots
  <2>1. Current.index \in Nat /\ MAX_ARRAY_NUM \in Nat
    BY <1>0, SnippetFacts
  <2> QED
    BY <1>3, <1>7, <2>1, SMT DEF LiveSlots
<1>12. DOMAIN A = 0 .. MAX_ARRAY_NUM - 1 /\ LiveSlots \subseteq 0 .. MAX_ARRAY_NUM - 1
  BY <1>0, <1>1, <1>2, OlderStores, SnippetFacts
<1>13. /\ DOMAIN array' = 0 .. MAX_ARRAY_NUM - 1 /\ array'[c] = new
       /\ \A i \in LiveSlots : array'[i] = A[i]
  BY <1>7, <1>11, <1>12
<1>14. \A i \in LiveSlots' : OfStore(array'[i])
  BY <1>1, <1>2, <1>8, <1>10, <1>13, OlderStores
<1>15. Pieces(tree') /\ \A e \in tree' : Spans(box', e)
  BY <1>1, <1>2, <1>7, OlderStores
<1>16. /\ ProperBox(s, NoAddr) /\ Spans(s, r)
       /\ \A e : Piece(e) /\ Spans(Current, e) => Spans(s, e)
  <2>1. Current \in Snippet
    BY <1>0, SnippetFacts
  <2>2. /\ "min_add" \in DOMAIN b /\ "max_add" \in DOMAIN b
        /\ b.min_add = Current.min_add /\ b.max_add = Current.max_add
    BY <1>5, <2>1 DEF Snippet
  <2>3. ProperBox(b, NoAddr)
    BY <1>0, <2>2 DEF Kept, ProperBox
  <2>4. r.addr \in Nat /\ r.size \in Nat /\ End(r) < NoAddr
    BY ConstantRanges DEF IsRange
  <2>5. /\ ProperBox(s, NoAddr) /\ Spans(s, r)
        /\ \A e : e.addr \in Nat /\ End(e) \in Nat /\ End(e) < NoAddr /\ e.addr < NoAddr /\ Spans(b, e)
                  => Spans(s, e)
    BY <1>6, <2>2, <2>3, <2>4, WidenedBox
  <2>6. \A e : Spans(Current, e) => Spans(b, e)
    BY <2>2 DEF Spans
  <2> QED
    BY <2>5, <2>6, PieceFacts
<1>17. \A k \in 1 .. Last' : \A i \in Slots(snippets'[k]) : Spans(snippets'[k], array'[i])
  <2> TAKE k \in 1 .. Last'
  <2> TAKE i \in Slots(snippets'[k])
  <2>1. k \in 1 .. Last /\ Last \in 1 .. Last /\ Current = snippets[Last]
    BY <1>0, <1>10, SnippetFacts
  <2>2. ASSUME i \in Slots(snippets[k])
        PROVE  i \in LiveSlots /\ Spans(snippets[k], array'[i]) /\ Piece(array'[i])
    <3>1. i \in LiveSlots
      BY <1>0, <2>1, <2>2, SnippetFacts
    <3> QED
      BY <1>1, <1>2, <1>13, <2>1, <2>2, <3>1, OlderStores DEF OfStore
  <2>3. CASE k # Last
    <3>1. snippets'[k] = snippets[k]
      BY <1>10, <2>1, <2>3
    <3> QED
      BY <2>2, <3>1
  <2>4. CASE k = Last
    <3>1. snippets'[k] = s /\ (i \in Slots(snippets[k]) \/ i = c)
      BY <1>10, <2>1, <2>4
    <3>2. CASE i \in Slots(snippets[k])
      BY <1>16, <2>1, <2>2, <2>4, <3>1, <3>2
    <3>3. CASE i = c
      <4>1. Spans(s, new)
        BY <1>8, <1>16 DEF Spans, End
      <4> QED
        BY <1>13, <3>1, <3>3, <4>1
    <3> QED
      BY <3>1, <3>2, <3>3
  <2> QED
    BY <2>3, <2>4
<1>18. ASSUME track_multiple_stores'
       PROVE  /\ \A i, j \in Undeleted' : i # j => ~Overlap(array'[i], array'[j])
              /\ \A i \in Undeleted' : \A e \in tree' : ~Overlap(array'[i], e)
  <2>1. track_multiple_stores
    BY <1>18 DEF track_multiple_stores
  <2>2. /\ \A i, j \in LiveSlots : i # j /\ ~A[i].is_delete /\ ~A[j].is_delete
                                   => ~Overlap(A[i], A[j])
        /\ \A i \in LiveSlots : \A x \in T : ~A[i].is_delete => ~Overlap(A[i], x)
        /\ \A i \in LiveSlots : ~A[i].is_delete => ~Overlap(A[i], r)
        /\ \A x \in T : ~Overlap(x, r)
    BY <1>1, <1>2, <2>1, OlderStores
  <2>3. \A x : ~Overlap(x, r) => ~Overlap(x, new) /\ ~Overlap(new, x)
    BY <1>8 DEF Overlap, End
  <2>4. \A i \in Undeleted' : i = c \/ (i \in LiveSlots /\ ~A[i].is_delete)
    BY <1>10, <1>13 DEF Undeleted
  <2>5. ASSUME NEW i \in Undeleted', NEW j \in Undeleted', i # j
        PROVE  ~Overlap(array'[i], array'[j])
    <3>1. CASE i = c
      BY <1>13, <2>2, <2>3, <2>4, <2>5, <3>1
    <3>2. CASE j = c
      BY <1>13, <2>2, <2>3, <2>4, <2>5, <3>2
    <3>3. CASE i # c /\ j # c
      BY <1>13, <2>2, <2>4, <2>5, <3>3
    <3> QED
      BY <3>1, <3>2, <3>3
  <2>6. ASSUME NEW i \in Undeleted', NEW x \in tree'
        PROVE  ~Overlap(array'[i], x)
    <3>1. x \in T
      BY <1>7
    <3> QED
      BY <1>13, <2>2, <2>3, <2>4, <3>1
  <2> QED
    BY <2>5, <2>6
<1>19. track_multiple_stores' \/ tree_reorganization' => Disjoint(tree')
  BY <1>1, <1>2, <1>7, OlderStores DEF track_multiple_stores, tree_reorganization
<1>20. /\ ProperBox(Current', NoAddr) /\ ProperBox(box', NoAddr)
       /\ "min_add" \in DOMAIN box' /\ "max_add" \in DOMAIN box'
  BY <1>0, <1>7, <1>10, <1>16 DEF Kept
<1> QED
  BY <1>13, <1>14, <1>15, <1>17, <1>18, <1>19, <1>20 DEF Kept, Pieces, Disjoint, OfStore

\* trace_pmem_store with the array full: the box is widened by what the store
\* has been merged to.
LEMMA OptStoreToTreeKept ==
  ASSUME OneStoreInv, listings = 0, NEW r \in Stores, NEW ctx \in Contexts,
         OptStoreToTree(r, ctx), options' = options
  PROVE  Kept'
<1>0. SnippetsOK /\ Kept /\ NaturalSets
  BY DEF OneStoreInv, OptionsTypeInv
<1>1. PICK A : A = Overwritten(r).array
  OBVIOUS
<1>2. PICK T : T = Overwritten(r).tree
  OBVIOUS
<1>3. PICK new : new = WithContext(NewStore(r, ZeroStore), ctx)
  OBVIOUS
<1>4. PICK m : m = IF tree_reorganization THEN Merged(new, T) ELSE new
  OBVIOUS
<1>5. /\ snippets' = snippets /\ array' = A /\ tree' = Insert(new, T) /\ box' = Widen(box, m)
  BY <1>1, <1>2, <1>3, <1>4 DEF OptStoreToTree
<1>6. OfStore(new) /\ Piece(new) /\ new.addr = r.addr /\ new.size = r.size
  BY <1>3, NewEntry DEF OfStore
<1>7. /\ DOMAIN A = 0 .. MAX_ARRAY_NUM - 1 /\ Pieces(T)
      /\ \A i \in LiveSlots : OfStore(A[i])
      /\ \A k \in 1 .. Last : \A i \in Slots(snippets[k]) : Spans(snippets[k], A[i])
      /\ \A x \in T : Spans(box, x)
      /\ track_multiple_stores \/ tree_reorganization => Disjoint(T)
  BY <1>1, <1>2, OlderStores
<1>8. Piece(m)
  BY <1>0, <1>4, <1>6, <1>7, MergedPiece
<1>9. /\ Pieces(tree')
      /\ \A a : /\ Piece(a) /\ ~Overlap(a, new) /\ \A e \in T : ~Overlap(a, e)
                => \A x \in tree' : ~Overlap(a, x)
      /\ Disjoint(T) /\ (tree_reorganization \/ \A e \in T : ~Overlap(e, new)) => Disjoint(tree')
      /\ \A x \in tree' : x = m \/ \E e \in T : Within(x, e)
  BY <1>0, <1>4, <1>5, <1>6, <1>7, InsertPieces
<1>10. /\ ProperBox(box', NoAddr) /\ Spans(box', m) /\ \A e \in T : Spans(box', e)
  <2>1. ProperBox(box, NoAddr) /\ "min_add" \in DOMAIN box /\ "max_add" \in DOMAIN box
    BY <1>0 DEF Kept
  <2>2. m.addr \in Nat /\ m.size \in Nat /\ End(m) < NoAddr
    BY <1>8 DEF Piece
  <2>3. /\ ProperBox(box', NoAddr) /\ Spans(box', m)
        /\ \A e : e.addr \in Nat /\ End(e) \in Nat /\ End(e) < NoAddr /\ e.addr < NoAddr /\ Spans(box, e)
                  => Spans(box', e)
    BY <1>5, <2>1, <2>2, WidenedBox
  <2> QED
    BY <1>7, <2>3, PieceFacts DEF Pieces
<1>11. "min_add" \in DOMAIN box' /\ "max_add" \in DOMAIN box'
  BY <1>0, <1>5 DEF Widen, Kept
<1>12. \A x \in tree' : Spans(box', x)
  <2> TAKE x \in tree'
  <2>1. CASE x = m
    BY <1>10, <2>1
  <2>2. ASSUME NEW e \in T, Within(x, e)
        PROVE  Spans(box', x)
    <3>1. box'.min_add \in Nat /\ box'.max_add \in Nat
      BY <1>10, ConstantRanges DEF ProperBox
    <3> QED
      BY <1>7, <1>9, <1>10, <2>2, <3>1, SpansParts DEF Pieces
  <2> QED
    BY <1>9, <2>1, <2>2
<1>13. Last' = Last /\ Current' = Current /\ LiveSlots' = LiveSlots
  BY <1>5 DEF Last, Current, LiveSlots
<1>14. track_multiple_stores' = track_multiple_stores /\ tree_reorganization' = tree_reorganization
  BY DEF track_multiple_stores, tree_reorganization
<1>15. ASSUME track_multiple_stores
       PROVE  /\ \A i, j \in Undeleted' : i # j => ~Overlap(array'[i], array'[j])
              /\ \A i \in Undeleted' : \A e \in tree' : ~Overlap(array'[i], e)
              /\ \A e \in T : ~Overlap(e, new)
  <2>1. /\ \A i, j \in LiveSlots : i # j /\ ~A[i].is_delete /\ ~A[j].is_delete
                                   => ~Overlap(A[i], A[j])
        /\ \A i \in LiveSlots : \A x \in T : ~A[i].is_delete => ~Overlap(A[i], x)
        /\ \A i \in LiveSlots : ~A[i].is_delete => ~Overlap(A[i], r)
        /\ \A x \in T : ~Overlap(x, r)
    BY <1>1, <1>2, <1>15, OlderStores
  <2>2. \A x : ~Overlap(x, r) => ~Overlap(x, new)
    BY <1>6 DEF Overlap, End
  <2>3. \A i \in Undeleted' : i \in LiveSlots /\ ~A[i].is_delete /\ array'[i] = A[i]
    BY <1>5, <1>13 DEF Undeleted
  <2>4. \A i \in Undeleted' : \A x \in tree' : ~Overlap(array'[i], x)
    <3> TAKE i \in Undeleted'
    <3>1. Piece(A[i]) /\ ~Overlap(A[i], new) /\ \A e \in T : ~Overlap(A[i], e)
      BY <1>7, <2>1, <2>2, <2>3 DEF OfStore
    <3> QED
      BY <1>9, <2>3, <3>1
  <2> QED
    BY <2>1, <2>2, <2>3, <2>4
<1>16. track_multiple_stores \/ tree_reorganization => Disjoint(tree')
  BY <1>7, <1>9, <1>15
<1>17. /\ \A i \in LiveSlots' : OfStore(array'[i])
       /\ \A k \in 1 .. Last' : \A i \in Slots(snippets'[k]) : Spans(snippets'[k], array'[i])
       /\ ProperBox(Current', NoAddr) /\ DOMAIN array' = 0 .. MAX_ARRAY_NUM - 1
  BY <1>0, <1>5, <1>7, <1>13 DEF Kept
<1> QED
  BY <1>9, <1>10, <1>11, <1>12, <1>14, <1>15, <1>16, <1>17 DEF Kept, Pieces, Disjoint, OfStore

\* An operation that changes nothing of the stores.
LEMMA UnchangedKept ==
  ASSUME Kept, UNCHANGED <<array, snippets, tree, box, options>>
  PROVE  Kept'
<1>1. array' = array /\ snippets' = snippets /\ tree' = tree /\ box' = box /\ options' = options
  OBVIOUS
<1> QED
  BY <1>1 DEF Kept, OfStore, Pieces, Disjoint, Last, Current, LiveSlots, Slots, Undeleted,
              track_multiple_stores, tree_reorganization

\* The initial state.
LEMMA InitOneStore ==
  NaturalSets /\ FiniteRules /\ Granular /\ NoneInside /\ OptionsInit => OneStoreInv
<1> SUFFICES ASSUME NaturalSets, FiniteRules, Granular, NoneInside, OptionsInit PROVE OneStoreInv
  OBVIOUS
<1>1. OptionsTypeInv
  BY InitOptionsTypes
<1>2. /\ array = [i \in 0 .. MAX_ARRAY_NUM - 1 |-> ZeroStore] /\ snippets = <<init_snippet_info(0)>>
      /\ tree = {} /\ box = EmptyBox
  BY DEF OptionsInit, Init
<1>3. LiveSlots = {} /\ Last = 1 /\ Undeleted = {}
  BY <1>2, OneSnippetOK DEF Undeleted
<1>4. (\A k \in 1 .. Last : Slots(snippets[k]) = {}) /\ ProperBox(Current, NoAddr)
  <2>1. (\A k \in 1 .. 1 : k = 1) /\ 0 .. 0 - 1 = {}
    BY SMT
  <2>2. Current = snippets[1]
    BY <1>3 DEF Current
  <2> QED
    BY <1>2, <1>3, <2>1, <2>2, OneSnippet DEF Slots, ProperBox
<1>5. ProperBox(box, NoAddr) /\ "min_add" \in DOMAIN box /\ "max_add" \in DOMAIN box
  BY <1>2 DEF EmptyBox, ProperBox
<1>6. Kept
  BY <1>2, <1>3, <1>4, <1>5 DEF Kept, Pieces, Disjoint
<1> QED
  BY <1>1, <1>6 DEF OneStoreInv

\* Every step keeps each byte to one store.
LEMMA NextOneStore ==
  OneStoreInv /\ [OptionsNext]_allVars => OneStoreInv'
<1> SUFFICES ASSUME OneStoreInv, [OptionsNext]_allVars PROVE OneStoreInv'
  OBVIOUS
<1>0. OptionsTypeInv' /\ Granular /\ NoneInside
  BY NextOptionsTypes DEF OneStoreInv
<1>1. listings' = 0 => listings = 0
  <2>1. listings' = listings \/ listings' = listings + 1
    BY DEF OptionsNext, OptStore, OptFlush, OptFence, OptClean, Quietly, print_pmem_stats,
           allVars, optionVars
  <2>2. listings \in 0 .. MaxListings /\ MaxListings \in Nat
    BY StoreOptionsAssumption DEF OneStoreInv, OptionsTypeInv, OptionsTypeOK
  <2> QED
    BY <2>1, <2>2, SMT
<1>2. ASSUME listings' = 0
      PROVE  Kept'
  <2>1. listings = 0 /\ Kept
    BY <1>1, <1>2 DEF OneStoreInv
  <2>2. ASSUME NEW r \in Stores, NEW c \in Contexts, OptStore(r, c)
        PROVE  Kept'
    <3>1. options' = options
      BY <2>2 DEF OptStore
    <3>2. \/ OptStoreToArray(r, c) \/ OptStoreToTree(r, c)
          \/ UNCHANGED <<array, snippets, tree, box>>
      BY <2>2 DEF OptStore
    <3> QED
      BY <2>1, <3>1, <3>2, OptStoreToArrayKept, OptStoreToTreeKept, UnchangedKept
  <2>3. ASSUME print_pmem_stats
        PROVE  Kept'
    <3>1. options' = options
      BY <2>3 DEF print_pmem_stats
    <3>2. print_store_stats
      <4>1. listings' # listings + 1
        BY <1>2, <2>1, SMT
      <4> QED
        BY <2>3, <4>1 DEF print_pmem_stats
    <3> QED
      BY <2>1, <3>1, <3>2, StatsKept
  <2>4. CASE UNCHANGED allVars
    BY <2>1, <2>4, UnchangedKept DEF allVars, vars, optionVars
  <2>5. CASE OptionsNext
    BY <2>1, <2>2, <2>3, <2>5, OptFlushKept, OptFenceKept, OptCleanKept DEF OptionsNext
  <2> QED
    BY <2>4, <2>5
<1> QED
  BY <1>0, <1>2 DEF OneStoreInv

\* With --mult-stores no two tracked stores share a byte, and the nodes of a
\* reorganised tree never do: handle_with_mult_stores and add_and_merge_store
\* cut what they overlap wherever flushes and fences have put it.
LEMMA AlwaysOneStorePerByteGiven ==
  NaturalSets /\ FiniteRules /\ Granular /\ NoneInside /\ OptionsSpec => []OneStorePerByte
<1>1. OneStoreInv => OneStorePerByte
  <2> SUFFICES ASSUME OneStoreInv, listings = 0, NEW s \in Tracked, NEW t \in Tracked, s # t,
                      \/ track_multiple_stores
                      \/ tree_reorganization /\ s[1] = InTree /\ t[1] = InTree
               PROVE  ~Overlap(s[2], t[2])
    BY DEF OneStorePerByte
  <2>0. Kept /\ SnippetsOK
    BY DEF OneStoreInv, OptionsTypeInv
  <2>1. InTree \notin LiveSlots
    <3>1. MAX_ARRAY_NUM \notin 0 .. MAX_ARRAY_NUM - 1
      BY ConstantRanges, SMT
    <3> QED
      BY <2>0, <3>1, SnippetFacts DEF InTree
  <2>2. \A u \in Tracked : \/ \E i \in Undeleted : u = <<i, array[i]>> /\ u[1] = i /\ u[2] = array[i]
                           \/ u[2] \in tree /\ u = <<InTree, u[2]>> /\ u[1] = InTree
    BY DEF Tracked, Undeleted
  <2>3. CASE s[2] \in tree /\ t[2] \in tree /\ s[2] # t[2]
    BY <2>0, <2>3 DEF Kept, Disjoint
  <2>4. ASSUME NEW i \in Undeleted, s = <<i, array[i]>>, s[1] = i, s[2] = array[i]
        PROVE  ~Overlap(s[2], t[2])
    <3>1. track_multiple_stores
      BY <2>1, <2>4 DEF Undeleted
    <3>2. CASE t[2] \in tree
      BY <2>0, <2>4, <3>1, <3>2 DEF Kept
    <3>3. ASSUME NEW j \in Undeleted, t = <<j, array[j]>>, t[2] = array[j]
          PROVE  ~Overlap(s[2], t[2])
      <4>1. i # j
        BY <2>4, <3>3
      <4> QED
        BY <2>0, <2>4, <3>1, <3>3, <4>1 DEF Kept
    <3> QED
      BY <2>2, <3>2, <3>3
  <2>5. ASSUME s[2] \in tree, s = <<InTree, s[2]>>
        PROVE  ~Overlap(s[2], t[2])
    <3>1. CASE t[2] \in tree /\ t = <<InTree, t[2]>>
      <4>1. s[2] # t[2]
        BY <2>5, <3>1
      <4> QED
        BY <2>3, <2>5, <3>1, <4>1
    <3>2. ASSUME NEW j \in Undeleted, t[1] = j, t[2] = array[j]
          PROVE  ~Overlap(s[2], t[2])
      <4>1. track_multiple_stores
        BY <2>1, <3>2 DEF Undeleted
      <4>2. ~Overlap(t[2], s[2])
        BY <2>0, <2>5, <3>2, <4>1 DEF Kept
      <4> QED
        BY <4>2, OverlapSymmetric
    <3> QED
      BY <2>2, <3>1, <3>2
  <2> QED
    BY <2>2, <2>4, <2>5
<1> QED
  BY <1>1, InitOneStore, NextOneStore, PTL DEF OptionsSpec
============================================================================
