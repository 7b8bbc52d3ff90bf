------------------------- MODULE StoreTrackerProofs -------------------------
(* Proofs about the bookkeeping of stores, for all programs and sizes.     *)
EXTENDS TrackerRules, TLAPS

\* Zenon is quicker on most steps and SMT does arithmetic.
USE ZenonT(3), SMTT(15), ZenonT(20)

\* The inductive invariant for the layout of the array.
Layout == NaturalSets /\ TypeOK /\ SnippetsPartition

Box == [min_add : 0 .. NoAddr, max_add : 0 .. NoAddr]
----------------------------------------------------------------------------
\* The current snippet is the last one and waits for its first flush.
LEMMA CurrentSnippet ==
  ASSUME Layout
  PROVE  /\ Last \in Nat \ {0}
         /\ \A k \in 1 .. Last : snippets[k] \in Snippet
         /\ Current \in Snippet
         /\ Current.flushed_num = "NO_FLUSHED"
         /\ Current.start_index <= Current.index
         /\ Current.index \in 0 .. MAX_ARRAY_NUM
<1>1. snippets \in Seq(Snippet) /\ snippets # << >>
  BY DEF Layout, TypeOK
<1>2. Last \in Nat \ {0} /\ \A k \in 1 .. Last : snippets[k] \in Snippet
  BY <1>1 DEF Last
<1>3. Last \in 1 .. Last
  BY <1>2
<1>4. Current \in Snippet
  BY <1>2, <1>3 DEF Current
<1>5. Current.flushed_num = "NO_FLUSHED" /\ Current.start_index <= Current.index
  BY <1>3 DEF Layout, SnippetsPartition, Current
<1> QED
  BY <1>2, <1>4, <1>5 DEF Snippet

\* Replacing the current snippet by one that starts where it did and reaches
\* at least as far keeps the partition.
LEMMA GrowCurrent ==
  ASSUME Layout, NEW c \in Snippet,
         snippets' = [snippets EXCEPT ![Last] = c],
         c.start_index = Current.start_index, c.index >= Current.index,
         c.flushed_num = "NO_FLUSHED",
         c.start_index = c.index => c.max_add = NoAddr
  PROVE  /\ snippets' \in Seq(Snippet) /\ snippets' # << >>
         /\ Last' = Last /\ Current' = c
         /\ \A k \in 1 .. Last : snippets'[k] = IF k = Last THEN c ELSE snippets[k]
         /\ SnippetsPartition'
<1>1. /\ Last \in Nat \ {0} /\ Current \in Snippet
      /\ \A k \in 1 .. Last : snippets[k] \in Snippet
      /\ Current.start_index <= Current.index
  BY CurrentSnippet
<1>2. Last \in 1 .. Last
  BY <1>1
<1>3. /\ snippets' \in Seq(Snippet)
      /\ Len(snippets') = Last
      /\ \A k \in 1 .. Last : snippets'[k] = IF k = Last THEN c ELSE snippets[k]
  BY <1>2 DEF Layout, TypeOK, Last
<1>4. Last' = Last /\ Current' = c /\ snippets' # << >>
  BY <1>1, <1>2, <1>3 DEF Last, Current
<1>5. ASSUME NEW k \in 1 .. Last
      PROVE  /\ k - 1 <= snippets'[k].start_index
             /\ snippets'[k].start_index <= snippets'[k].index
             /\ \A j \in 1 .. k - 1 : snippets'[j].index <= snippets'[k].start_index
             /\ snippets'[k].flushed_num = "NO_FLUSHED" <=> k = Last
             /\ snippets'[k].start_index = snippets'[k].index =>
                  k = Last /\ snippets'[k].max_add = NoAddr
  <2>1. /\ k - 1 <= snippets[k].start_index
        /\ snippets[k].start_index <= snippets[k].index
        /\ \A j \in 1 .. k - 1 : snippets[j].index <= snippets[k].start_index
        /\ snippets[k].flushed_num = "NO_FLUSHED" <=> k = Last
        /\ snippets[k].start_index = snippets[k].index =>
             k = Last /\ snippets[k].max_add = NoAddr
    BY DEF Layout, SnippetsPartition
  <2>2. \A j \in 1 .. k - 1 : j \in 1 .. Last /\ j # Last
    BY <1>1
  <2>3. CASE k = Last
    BY <1>1, <1>3, <2>1, <2>2, <2>3 DEF Current, Snippet
  <2>4. CASE k # Last
    BY <1>1, <1>3, <2>1, <2>2, <2>4
  <2> QED
    BY <2>3, <2>4
<1>6. ASSUME NEW i \in 0 .. c.index - 1
      PROVE  \E k \in 1 .. Last : i \in Slots(snippets'[k])
  <2>1. CASE i < Current.index
    <3>1. i \in LiveSlots
      BY <1>1, <2>1 DEF LiveSlots, Snippet
    <3>2. PICK k \in 1 .. Last : i \in Slots(snippets[k])
      BY <3>1 DEF Layout, SnippetsPartition
    <3>3. i \in Slots(snippets'[k])
      BY <1>1, <1>3, <3>2 DEF Slots, Current, Snippet
    <3> QED
      BY <3>3
  <2>2. CASE i >= Current.index
    <3>1. i \in Slots(c)
      BY <1>1, <2>2 DEF Slots, Snippet
    <3> QED
      BY <1>2, <1>3, <3>1
  <2> QED
    BY <1>1, <2>1, <2>2 DEF Snippet
<1>7. SnippetsPartition'
  BY <1>4, <1>5, <1>6 DEF SnippetsPartition, LiveSlots, Slots
<1> QED
  BY <1>3, <1>4, <1>7
----------------------------------------------------------------------------
\* The constants as the proofs use them.
LEMMA Ranges ==
  /\ NoAddr \in Nat \ {0} /\ MAX_ARRAY_NUM \in Nat
  /\ \A r \in Stores : IsRange(r)
  /\ \A f \in FlushRanges : IsRange(f)
  /\ \A r \in Cleans : IsRange(r)
  BY StoreTrackerAssumption DEF IsRange

\* Widening a box or a snippet by a range changes its two ends only.
LEMMA WidenType ==
  ASSUME NEW b, b.min_add \in 0 .. NoAddr, b.max_add \in 0 .. NoAddr,
         NEW r, IsRange(r)
  PROVE  \E lo, hi \in 0 .. NoAddr :
           Widen(b, r) = [b EXCEPT !.min_add = lo, !.max_add = hi]
<1> DEFINE empty == b.min_add = NoAddr /\ b.max_add = NoAddr
           lo == IF empty \/ b.min_add > r.addr THEN r.addr ELSE b.min_add
           hi == IF empty \/ b.max_add < End(r) THEN End(r) ELSE b.max_add
<1>1. r.addr \in 0 .. NoAddr /\ End(r) \in 0 .. NoAddr
  BY Ranges DEF IsRange, End
<1>2. lo \in 0 .. NoAddr /\ hi \in 0 .. NoAddr
  BY <1>1
<1>3. Widen(b, r) = [b EXCEPT !.min_add = lo, !.max_add = hi]
  BY DEF Widen
<1> HIDE DEF lo, hi
<1> QED
  BY <1>2, <1>3

\* Widen makes a box span one more region, and no less than before.
LEMMA WidenSpans ==
  ASSUME NEW b, ProperBox(b, NoAddr),
         "min_add" \in DOMAIN b, "max_add" \in DOMAIN b,
         NEW r, r.addr \in Nat, r.size \in Nat, End(r) < NoAddr
  PROVE  /\ ProperBox(Widen(b, r), NoAddr)
         /\ Spans(Widen(b, r), r)
         /\ \A e : e.addr \in Nat /\ End(e) \in Nat /\ End(e) < NoAddr /\ e.addr < NoAddr /\ Spans(b, e)
                   => Spans(Widen(b, r), e)
  BY Ranges DEF ProperBox, Widen, Spans, End

\* The box computed from scratch spans every region of the set.
LEMMA BoxOfSpans ==
  ASSUME NaturalSets, NEW S,
         \A e \in S : e.addr \in Nat /\ e.addr < NoAddr /\ End(e) \in Nat /\ End(e) < NoAddr
  PROVE  /\ BoxOf(S) \in [min_add : 0 .. NoAddr, max_add : 0 .. NoAddr]
         /\ ProperBox(BoxOf(S), NoAddr)
         /\ S = {} <=> BoxOf(S) = EmptyBox
         /\ \A e \in S : Spans(BoxOf(S), e)
<1>1. CASE S = {}
  BY <1>1, Ranges DEF BoxOf, EmptyBox, ProperBox
<1>2. CASE S # {}
  <2> DEFINE starts == {e.addr : e \in S}
             ends == {End(e) : e \in S}
  <2>1. /\ NoAddr \in Int
        /\ starts \subseteq 0 .. NoAddr /\ starts # {} /\ ends \subseteq 0 .. NoAddr /\ ends # {}
    BY <1>2, Ranges
  <2>2. Min(starts) \in starts /\ \A y \in starts : Min(starts) <= y
    BY <2>1 DEF NaturalSets
  <2>3. Max(ends) \in ends /\ \A y \in ends : Max(ends) >= y
    BY <2>1 DEF NaturalSets
  <2>4. BoxOf(S) = [min_add |-> Min(starts), max_add |-> Max(ends)]
    BY <1>2 DEF BoxOf
  <2> HIDE DEF starts, ends
  <2>5. /\ Min(starts) \in Nat /\ Min(starts) < NoAddr
        /\ Max(ends) \in Nat /\ Max(ends) < NoAddr
    BY <2>2, <2>3 DEF starts, ends
  <2>6. \A e \in S : e.addr \in starts /\ End(e) \in ends
    BY DEF starts, ends
  <2> QED
    BY <1>2, <2>1, <2>2, <2>3, <2>4, <2>5, <2>6 DEF ProperBox, Spans, EmptyBox
<1> QED
  BY <1>1, <1>2

\* A fresh entry for a store is a well-formed one.
LEMMA NewStoreType ==
  ASSUME TypeOK, NEW r \in Stores, NEW old \in Store
  PROVE  NewStore(r, old) \in Store
  BY Ranges DEF NewStore, Store, State, TypeOK, IsRange, End

\* A zeroed slot or tree node is a well-formed entry.
LEMMA ZeroStoreType == ZeroStore \in Store
  BY Ranges DEF ZeroStore, Store, State, End

\* An operation without events and listing.
LEMMA QuietType ==
  Quiet \in [redundant : BOOLEAN, superfluous : BOOLEAN, reported : SUBSET (0 .. NoAddr)]
  BY DEF Quiet
----------------------------------------------------------------------------
\* pmc_post_clo_init sets up one empty snippet.
LEMMA InitLayout == NaturalSets /\ Init => Layout
<1> SUFFICES ASSUME NaturalSets, Init
             PROVE  Layout
  OBVIOUS
<1>1. init_snippet_info(0) \in Snippet
  BY Ranges DEF init_snippet_info, Snippet, FlushedNum
<1>2. /\ snippets = <<init_snippet_info(0)>> /\ snippets \in Seq(Snippet)
      /\ snippets # << >> /\ Last = 1 /\ snippets[1] = init_snippet_info(0)
  BY <1>1 DEF Init, Last
<1>3. TypeOK
  <2>1. array \in [0 .. MAX_ARRAY_NUM - 1 -> Store]
    BY ZeroStoreType DEF Init
  <2>2. box \in [min_add : 0 .. NoAddr, max_add : 0 .. NoAddr]
    BY Ranges DEF Init, EmptyBox
  <2>3. (\A e \in tree : e \in Store) /\ epoch \in BOOLEAN
    BY DEF Init
  <2> QED
    BY <1>2, <2>1, <2>2, <2>3, QuietType DEF Init, TypeOK
<1>4. SnippetsPartition
  BY <1>2 DEF SnippetsPartition, init_snippet_info, LiveSlots, Current
<1> QED
  BY <1>3, <1>4 DEF Layout

\* trace_pmem_store, with a free slot, lets the current snippet grow by one.
LEMMA StoreToArrayLayout ==
  ASSUME Layout, NEW r \in Stores, StoreToArray(r)
  PROVE  Layout'
<1> DEFINE i == Current.index
           d == [Current EXCEPT !.index = i + 1]
           c == Widen(d, r)
<1>1. /\ Current \in Snippet /\ Current.flushed_num = "NO_FLUSHED"
      /\ Current.start_index <= i /\ i \in 0 .. MAX_ARRAY_NUM - 1
      /\ MAX_ARRAY_NUM \in Nat /\ IsRange(r)
  BY CurrentSnippet, Ranges DEF StoreToArray
<1>2. /\ d \in Snippet /\ d.start_index = Current.start_index /\ d.index = i + 1
      /\ d.flushed_num = "NO_FLUSHED"
  BY <1>1 DEF Snippet
<1>3. snippets' = [snippets EXCEPT ![Last] = c]
  BY DEF StoreToArray
<1> HIDE DEF d
<1>4. PICK lo, hi \in 0 .. NoAddr : c = [d EXCEPT !.min_add = lo, !.max_add = hi]
  BY <1>1, <1>2, WidenType DEF Snippet
<1> HIDE DEF c
<1>5. /\ c \in Snippet /\ c.start_index = Current.start_index /\ c.index = i + 1
      /\ c.flushed_num = "NO_FLUSHED"
  BY <1>2, <1>4 DEF Snippet
<1>6. snippets' \in Seq(Snippet) /\ snippets' # << >> /\ SnippetsPartition'
  <2>1. c.index >= Current.index /\ c.start_index # c.index
    BY <1>1, <1>5 DEF Snippet
  <2> QED
    BY <1>3, <1>5, <2>1, GrowCurrent
<1>7. array' \in [0 .. MAX_ARRAY_NUM - 1 -> Store]
  <2>1. array[i] \in Store
    BY <1>1 DEF Layout, TypeOK
  <2>2. NewStore(r, array[i]) \in Store
    BY <2>1, NewStoreType DEF Layout
  <2> QED
    BY <1>1, <2>2 DEF StoreToArray, Layout, TypeOK
<1> QED
  BY <1>6, <1>7, QuietType DEF Layout, TypeOK, StoreToArray

\* trace_pmem_store, with a full array, leaves the snippets alone.
LEMMA StoreToTreeLayout ==
  ASSUME Layout, NEW r \in Stores, StoreToTree(r)
  PROVE  Layout'
<1>1. box \in Box
  BY DEF Layout, TypeOK, Box
<1>2. PICK lo, hi \in 0 .. NoAddr : box' = [box EXCEPT !.min_add = lo, !.max_add = hi]
  <2>1. box' = Widen(box, r) /\ IsRange(r)
    BY Ranges DEF StoreToTree
  <2>2. box.min_add \in 0 .. NoAddr /\ box.max_add \in 0 .. NoAddr
    BY <1>1 DEF Box
  <2>3. \E lo, hi \in 0 .. NoAddr : Widen(box, r) = [box EXCEPT !.min_add = lo, !.max_add = hi]
    BY <2>1, <2>2, WidenType
  <2> QED
    BY <2>1, <2>3
<1>3. box' \in Box
  BY <1>1, <1>2 DEF Box
<1>4. \A e \in tree' : e \in Store
  BY NewStoreType, ZeroStoreType DEF StoreToTree, Layout, TypeOK
<1>5. SnippetsPartition'
  BY DEF StoreToTree, Layout, SnippetsPartition, Last, LiveSlots, Current, Slots
<1> QED
  BY <1>3, <1>4, <1>5, QuietType DEF Layout, TypeOK, StoreToTree, Box

\* print_store_stats writes states only.
LEMMA StatsLayout ==
  ASSUME Layout, print_store_stats
  PROVE  Layout'
<1>1. array' \in [0 .. MAX_ARRAY_NUM - 1 -> Store]
  BY DEF print_store_stats, Layout, TypeOK, Store, State, End
<1>2. out'.reported \subseteq 0 .. NoAddr
  <2>1. \A i \in LiveSlots : array[i] \in Store
    BY CurrentSnippet, Ranges DEF LiveSlots, Layout, TypeOK
  <2>2. \A e \in Store : Bytes(e) \subseteq 0 .. NoAddr
    BY Ranges DEF Store, Bytes, End
  <2>3. out'.reported = BytesOf({array[i] : i \in LiveSlots} \cup tree)
    BY DEF print_store_stats, Quiet
  <2> QED
    BY <2>1, <2>2, <2>3 DEF BytesOf, Layout, TypeOK
<1>3. out' \in [redundant : BOOLEAN, superfluous : BOOLEAN, reported : SUBSET (0 .. NoAddr)]
  BY <1>2 DEF print_store_stats, Quiet
<1>4. SnippetsPartition'
  BY DEF print_store_stats, Layout, SnippetsPartition, Last, LiveSlots, Current, Slots
<1> QED
  BY <1>1, <1>3, <1>4 DEF Layout, TypeOK, print_store_stats

\* do_fence starts again with one empty snippet.
LEMMA FenceLayout ==
  ASSUME Layout, do_fence
  PROVE  Layout'
<1>1. init_snippet_info(0) \in Snippet
  BY Ranges DEF init_snippet_info, Snippet, FlushedNum
<1>2. /\ snippets' \in Seq(Snippet) /\ snippets' # << >>
      /\ Len(snippets') = 1 /\ snippets'[1] = init_snippet_info(0)
  BY <1>1 DEF do_fence
<1>3. SnippetsPartition'
  BY <1>2 DEF SnippetsPartition, init_snippet_info, LiveSlots, Current, Last
<1>4. \A e \in tree' : e \in Store
  <2>1. \A i \in LiveSlots : array[i] \in Store
    BY CurrentSnippet, Ranges DEF LiveSlots, Layout, TypeOK
  <2> QED
    BY <2>1 DEF do_fence, Moved, Layout, TypeOK
<1>5. box' \in Box
  <2>1. \A e \in tree' : e.addr \in Nat /\ e.addr < NoAddr /\ End(e) \in Nat /\ End(e) < NoAddr
    BY <1>4, Ranges DEF Store, End
  <2> QED
    BY <2>1, BoxOfSpans DEF Layout, do_fence, Box
<1> QED
  BY <1>2, <1>3, <1>4, <1>5, QuietType DEF Layout, TypeOK, do_fence, Box
----------------------------------------------------------------------------
\* Sets of slots and of remainders are finite.
LEMMA BoundedFinite ==
  ASSUME Layout, NEW b \in Int, NEW P, P \subseteq 0 .. b
  PROVE  IsFiniteSet(P)
  BY DEF Layout, NaturalSets

\* The current snippet can take any finite number of remainders: its index
\* stops at the end of the array.
LEMMA IndexAfterType ==
  ASSUME Layout, NEW P, IsFiniteSet(P)
  PROVE  IndexAfter(P) \in 0 .. MAX_ARRAY_NUM /\ IndexAfter(P) >= Current.index
<1>1. Cardinality(P) \in Nat
  BY DEF Layout, NaturalSets
<1>2. Current.index \in 0 .. MAX_ARRAY_NUM /\ MAX_ARRAY_NUM \in Nat
  BY CurrentSnippet, Ranges
<1> QED
  BY <1>1, <1>2 DEF IndexAfter

\* The three parts into which a range cuts an entry are entries.
LEMMA PartsType ==
  ASSUME NEW e \in Store, NEW f, IsRange(f), Overlap(f, e)
  PROVE  /\ FlushedPart(e, f) \in Store
         /\ e.addr < f.addr => LeftPart(e, f) \in Store
         /\ End(e) > End(f) => RightPart(e, f) \in Store
<1>1. /\ e.addr \in Nat /\ e.size \in Nat /\ End(e) < NoAddr
      /\ f.addr \in Nat /\ f.size \in Nat /\ f.addr < End(e) /\ e.addr < End(f)
      /\ e \in [addr : Nat, size : Nat, state : State, is_delete : BOOLEAN, inEpoch : BOOLEAN]
  BY DEF Store, IsRange, Overlap
<1>2. FlushedPart(e, f) \in Store
  <2> DEFINE lo == IF e.addr < f.addr THEN f.addr ELSE e.addr
             hi == IF End(e) > End(f) THEN End(f) ELSE End(e)
  <2>1. FlushedPart(e, f) = [e EXCEPT !.addr = lo, !.size = hi - lo, !.state = "FLUSHED"]
    BY DEF FlushedPart
  <2>2. lo \in Nat /\ hi - lo \in Nat /\ lo + (hi - lo) < NoAddr
    BY <1>1, Ranges DEF End
  <2> HIDE DEF lo, hi
  <2> QED
    BY <1>1, <2>1, <2>2 DEF Store, State, End
<1>3. ASSUME e.addr < f.addr
      PROVE  LeftPart(e, f) \in Store
  <2>1. f.addr - e.addr \in Nat /\ e.addr + (f.addr - e.addr) < NoAddr
    BY <1>1, <1>3, Ranges DEF End
  <2> QED
    BY <1>1, <2>1 DEF LeftPart, Store, End
<1>4. ASSUME End(e) > End(f)
      PROVE  RightPart(e, f) \in Store
  <2>1. End(f) \in Nat /\ End(e) - End(f) \in Nat /\ End(f) + (End(e) - End(f)) < NoAddr
    BY <1>1, <1>4, Ranges DEF End
  <2> QED
    BY <1>1, <2>1 DEF RightPart, Store, End
<1> QED
  BY <1>2, <1>3, <1>4

\* What lies beyond a range fits in any entry.
LEMMA BeyondInType ==
  ASSUME NEW old \in Store, NEW e \in Store, NEW r, IsRange(r), End(e) > End(r)
  PROVE  BeyondIn(old, e, r) \in Store
<1>1. /\ e.addr \in Nat /\ e.size \in Nat /\ End(e) < NoAddr
      /\ r.addr \in Nat /\ r.size \in Nat
      /\ old \in [addr : Nat, size : Nat, state : State, is_delete : BOOLEAN, inEpoch : BOOLEAN]
  BY DEF Store, IsRange
<1>2. End(r) \in Nat /\ End(e) - End(r) \in Nat /\ End(r) + (End(e) - End(r)) < NoAddr
  BY <1>1, Ranges DEF End
<1> QED
  BY <1>1, <1>2 DEF BeyondIn, Store, End

\* The used slots are slots of the array.
LEMMA LiveSlotsType ==
  ASSUME Layout
  PROVE  /\ LiveSlots \subseteq 0 .. MAX_ARRAY_NUM - 1
         /\ \A i \in 0 .. MAX_ARRAY_NUM - 1 : array[i] \in Store
         /\ \A k \in 1 .. Last : Slots(snippets[k]) \subseteq LiveSlots
<1>1. Current.index \in 0 .. MAX_ARRAY_NUM /\ Last \in Nat \ {0} /\ MAX_ARRAY_NUM \in Nat
  BY CurrentSnippet, Ranges
<1>2. LiveSlots \subseteq 0 .. MAX_ARRAY_NUM - 1
  BY <1>1 DEF LiveSlots
<1>3. ASSUME NEW k \in 1 .. Last
      PROVE  Slots(snippets[k]) \subseteq LiveSlots
  <2>1. snippets[k] \in Snippet /\ Current \in Snippet
    BY CurrentSnippet
  <2>2. snippets[k].index <= Current.index
    <3>1. CASE k = Last
      BY <2>1, <3>1 DEF Current, Snippet
    <3>2. CASE k < Last
      <4>1. k \in 1 .. Last - 1 /\ Last \in 1 .. Last
        BY <1>1, <3>2
      <4>2. snippets[k].index <= Current.start_index /\ Current.start_index <= Current.index
        BY <4>1 DEF Layout, SnippetsPartition, Current
      <4> QED
        BY <2>1, <4>2 DEF Snippet
    <3> QED
      BY <1>1, <3>1, <3>2
  <2> QED
    BY <2>1, <2>2 DEF Slots, LiveSlots, Snippet
<1> QED
  BY <1>2, <1>3 DEF Layout, TypeOK
----------------------------------------------------------------------------
\* SET_CLEAN trims entries and appends right parts to the current snippet.
LEMMA CleanLayout ==
  ASSUME Layout, NEW r \in Cleans, SET_CLEAN(r)
  PROVE  Layout'
<1> DEFINE P == Pierced(r)
           n == IndexAfter(P)
           c == [Current EXCEPT !.index = n]
<1>1. IsRange(r)
  BY Ranges
<1>2. \A i \in CleanSlots(r) : i \in 0 .. MAX_ARRAY_NUM - 1 /\ Overlap(r, array[i])
  BY LiveSlotsType DEF CleanSlots
<1>3. \A p \in P : p \in CleanSlots(r) /\ End(array[p]) > End(r) /\ array[p] \in Store
  BY <1>2, LiveSlotsType DEF Pierced
<1>4. n \in 0 .. MAX_ARRAY_NUM /\ n >= Current.index
  <2>1. P \subseteq 0 .. MAX_ARRAY_NUM - 1
    BY <1>2, <1>3
  <2>2. IsFiniteSet(P)
    BY <2>1, Ranges, BoundedFinite
  <2> QED
    BY <2>2, IndexAfterType
<1>5. snippets' \in Seq(Snippet) /\ snippets' # << >> /\ SnippetsPartition'
  <2>1. /\ Current \in Snippet /\ Current.flushed_num = "NO_FLUSHED"
        /\ Current.start_index <= Current.index /\ Last \in 1 .. Last
        /\ Current.start_index = Current.index => Current.max_add = NoAddr
    BY CurrentSnippet DEF Layout, SnippetsPartition, Current
  <2>2. snippets' = [snippets EXCEPT ![Last] = c]
    BY DEF SET_CLEAN, Current
  <2> HIDE DEF n
  <2>3. /\ c \in Snippet /\ c.start_index = Current.start_index /\ c.index = n
        /\ c.flushed_num = "NO_FLUSHED" /\ c.max_add = Current.max_add
    BY <1>4, <2>1 DEF Snippet
  <2>4. c.index >= Current.index /\ (c.start_index = c.index => c.max_add = NoAddr)
    BY <1>4, <2>1, <2>3 DEF Snippet
  <2> HIDE DEF c
  <2> QED
    BY <2>2, <2>3, <2>4, GrowCurrent
<1>6. array' \in [0 .. MAX_ARRAY_NUM - 1 -> Store]
  <2>1. DOMAIN array = 0 .. MAX_ARRAY_NUM - 1
    BY DEF Layout, TypeOK
  <2>2. \A i \in CleanSlots(r) : Cut(array[i], r) \in Store
    <3> TAKE i \in CleanSlots(r)
    <3>1. array[i] \in Store /\ Overlap(r, array[i])
      BY <1>2, LiveSlotsType
    <3>2. [array[i] EXCEPT !.is_delete = TRUE] \in Store
      BY <3>1 DEF Store, End
    <3> QED
      BY <1>1, <3>1, <3>2, PartsType DEF Cut
  <2>3. \A i \in 0 .. MAX_ARRAY_NUM - 1 : \A p \in P : BeyondIn(array[i], array[p], r) \in Store
    BY <1>1, <1>3, BeyondInType, LiveSlotsType
  <2>4. array' = [i \in 0 .. MAX_ARRAY_NUM - 1 |->
                    IF i \in CleanSlots(r) THEN Cut(array[i], r)
                    ELSE IF \E p \in P : SlotOf(P, p) = i
                    THEN BeyondIn(array[i], array[CHOOSE p \in P : SlotOf(P, p) = i], r)
                    ELSE array[i]]
    BY <2>1 DEF SET_CLEAN
  <2> HIDE DEF P
  <2> QED
    BY <2>2, <2>3, <2>4, LiveSlotsType
<1>7. \A e \in tree' : e \in Store
  <2>1. \A e \in tree : e \in Store
    BY DEF Layout, TypeOK
  <2>2. ASSUME NEW e \in tree
        PROVE  \A d \in CleanNode(e, r) : d \in Store
    <3>1. CASE ~Overlap(e, r)
      BY <2>1, <3>1 DEF CleanNode
    <3>2. CASE Overlap(e, r) /\ Within(e, r)
      BY <3>2 DEF CleanNode
    <3>3. CASE Overlap(e, r) /\ ~Within(e, r)
      <4>1. Overlap(r, e) /\ e \in Store
        BY <2>1, <3>3 DEF Overlap
      <4>2. [e EXCEPT !.is_delete = TRUE] \in Store
        BY <4>1 DEF Store, End
      <4>3. Cut(e, r) \in Store
        BY <1>1, <4>1, <4>2, PartsType DEF Cut
      <4>4. End(e) > End(r) => BeyondIn(ZeroStore, e, r) \in Store
        BY <1>1, <4>1, BeyondInType, ZeroStoreType
      <4> QED
        BY <3>3, <4>3, <4>4 DEF CleanNode
    <3> QED
      BY <3>1, <3>2, <3>3
  <2>3. \A p \in P : BeyondIn(ZeroStore, array[p], r) \in Store
    BY <1>1, <1>3, BeyondInType, ZeroStoreType
  <2>4. \A e \in tree' : \/ \E d \in tree : e \in CleanNode(d, r)
                         \/ \E p \in P : e = BeyondIn(ZeroStore, array[p], r)
    <3> DEFINE Q == {q \in P : SlotOf(P, q) >= MAX_ARRAY_NUM}
               A == UNION {CleanNode(e, r) : e \in tree}
               B == {BeyondIn(ZeroStore, array[p], r) : p \in Q}
    <3>1. tree' = A \cup B
      BY DEF SET_CLEAN
    <3>2. Q \subseteq P
      OBVIOUS
    <3> HIDE DEF P, Q
    <3>3. \A e \in A : \E d \in tree : e \in CleanNode(d, r)
      OBVIOUS
    <3>4. \A e \in B : \E p \in P : e = BeyondIn(ZeroStore, array[p], r)
      BY <3>2
    <3> HIDE DEF A, B
    <3> QED
      BY <3>1, <3>3, <3>4
  <2> QED
    BY <2>2, <2>3, <2>4
<1> QED
  BY <1>5, <1>6, <1>7, QuietType DEF Layout, TypeOK, SET_CLEAN
----------------------------------------------------------------------------
\* A flush marks the current snippet only if it holds a store: the bounding
\* box of an empty one lies beyond every range.
LEMMA MarkedNotEmpty ==
  ASSUME Layout, NEW f, IsRange(f),
         Whole(Current, f) \/ Fresh(Current, f) # {}
  PROVE  Current.start_index < Current.index
<1>1. /\ Current \in Snippet /\ Last \in 1 .. Last
      /\ Current.start_index <= Current.index
      /\ Current.start_index = Current.index => Current.max_add = NoAddr
  BY CurrentSnippet DEF Layout, SnippetsPartition, Current
<1>2. CASE Whole(Current, f)
  <2>1. End(f) >= Current.max_add /\ End(f) < NoAddr /\ End(f) \in Nat
    BY <1>2, Ranges DEF Whole, IsRange, End
  <2> QED
    BY <1>1, <2>1 DEF Snippet
<1>3. CASE Fresh(Current, f) # {}
  BY <1>1, <1>3 DEF Fresh, Met, Slots, Snippet
<1> QED
  BY <1>2, <1>3

\* The snippets after the marking: the cut is the same, the last snippet now
\* reaching n.
LEMMA MarkedSnippets ==
  ASSUME Layout, NEW n \in 0 .. MAX_ARRAY_NUM, n >= Current.index,
         NEW marked \in [1 .. Last -> Snippet],
         \A k \in 1 .. Last :
           /\ marked[k].start_index = snippets[k].start_index
           /\ marked[k].index = IF k = Last THEN n ELSE snippets[k].index
           /\ marked[k].flushed_num = "NO_FLUSHED" => snippets[k].flushed_num = "NO_FLUSHED"
  PROVE  /\ \A k \in 1 .. Last :
              /\ k - 1 <= marked[k].start_index
              /\ marked[k].start_index <= marked[k].index
              /\ \A j \in 1 .. k - 1 : marked[j].index <= marked[k].start_index
              /\ k # Last => marked[k].flushed_num # "NO_FLUSHED"
              /\ k # Last => marked[k].start_index # marked[k].index
         /\ \A i \in 0 .. n - 1 : \E k \in 1 .. Last : i \in Slots(marked[k])
<1>1. /\ Last \in Nat \ {0} /\ Current \in Snippet
      /\ \A k \in 1 .. Last : snippets[k] \in Snippet
      /\ Current.start_index <= Current.index
      /\ Current.index \in 0 .. MAX_ARRAY_NUM /\ MAX_ARRAY_NUM \in Nat
  BY CurrentSnippet, Ranges
<1>2. Last \in 1 .. Last
  BY <1>1
<1>3. ASSUME NEW k \in 1 .. Last
      PROVE  /\ k - 1 <= marked[k].start_index
             /\ marked[k].start_index <= marked[k].index
             /\ \A j \in 1 .. k - 1 : marked[j].index <= marked[k].start_index
             /\ k # Last => marked[k].flushed_num # "NO_FLUSHED"
             /\ k # Last => marked[k].start_index # marked[k].index
  <2>1. /\ k - 1 <= snippets[k].start_index
        /\ snippets[k].start_index <= snippets[k].index
        /\ \A j \in 1 .. k - 1 : snippets[j].index <= snippets[k].start_index
        /\ snippets[k].flushed_num = "NO_FLUSHED" <=> k = Last
        /\ snippets[k].start_index = snippets[k].index => k = Last
    BY DEF Layout, SnippetsPartition
  <2>2. \A j \in 1 .. k - 1 : j \in 1 .. Last /\ j # Last
    BY <1>1
  <2>3. CASE k = Last
    <3>1. /\ marked[k].start_index = Current.start_index /\ marked[k].index = n
          /\ snippets[k] = Current
      BY <2>3 DEF Current
    <3>2. \A j \in 1 .. k - 1 : marked[j].index = snippets[j].index
      BY <2>2
    <3>3. Current.start_index <= n
      BY <1>1 DEF Snippet
    <3> QED
      BY <2>1, <2>3, <3>1, <3>2, <3>3
  <2>4. CASE k # Last
    BY <1>1, <2>1, <2>2, <2>4
  <2> QED
    BY <2>3, <2>4
<1>4. ASSUME NEW i \in 0 .. n - 1
      PROVE  \E k \in 1 .. Last : i \in Slots(marked[k])
  <2>1. CASE i < Current.index
    <3>1. i \in LiveSlots
      BY <1>1, <2>1 DEF LiveSlots
    <3>2. PICK k \in 1 .. Last : i \in Slots(snippets[k])
      BY <3>1 DEF Layout, SnippetsPartition
    <3>3. snippets[k].index <= marked[k].index /\ snippets[k].index \in Int
          /\ marked[k].index \in Int
      <4>1. CASE k = Last
        <5>1. marked[k].index = n /\ snippets[k].index = Current.index
          BY <4>1 DEF Current
        <5> QED
          BY <1>1, <5>1
      <4>2. CASE k # Last
        <5>1. marked[k].index = snippets[k].index /\ snippets[k] \in Snippet
          BY <1>1, <4>2
        <5> QED
          BY <5>1 DEF Snippet
      <4> QED
        BY <4>1, <4>2
    <3>4. i \in Slots(marked[k])
      <4>1. marked[k].start_index = snippets[k].start_index
        OBVIOUS
      <4> QED
        BY <3>2, <3>3, <4>1 DEF Slots
    <3> QED
      BY <3>4
  <2>2. CASE i >= Current.index
    <3>1. i \in Slots(marked[Last])
      BY <1>1, <1>2, <2>2 DEF Slots, Current, Snippet
    <3> QED
      BY <1>2, <3>1
  <2> QED
    BY <1>1, <2>1, <2>2
<1> QED
  BY <1>3, <1>4

\* do_flush keeps the snippets a partition: it marks snippets, lets the last
\* one grow by the remainders and, if it marked that one, begins a new one.
LEMMA FlushSnippetsLayout ==
  ASSUME Layout, NEW f, IsRange(f), IsFiniteSet(Remainders(f)),
         snippets' = FlushSnippets(f)
  PROVE  snippets' \in Seq(Snippet) /\ snippets' # << >> /\ SnippetsPartition'
<1> DEFINE mark(k) ==
             IF Whole(snippets[k], f) THEN "ALL_FLUSHED"
             ELSE IF Scanned(snippets[k], f) /\ Fresh(snippets[k], f) # {} THEN "PART_FLUSHED"
             ELSE snippets[k].flushed_num
           n == IndexAfter(Remainders(f))
           marked == [k \in 1 .. Last |->
                        [snippets[k] EXCEPT !.flushed_num = mark(k),
                                            !.index = IF k = Last THEN n ELSE @]]
           new == init_snippet_info(n)
<1>1. snippets' = IF mark(Last) = "NO_FLUSHED" THEN marked ELSE Append(marked, new)
  BY DEF FlushSnippets
<1>2. /\ Last \in Nat \ {0} /\ Last \in 1 .. Last /\ Current \in Snippet
      /\ \A k \in 1 .. Last : snippets[k] \in Snippet
      /\ Current.start_index <= Current.index
      /\ Current.index \in 0 .. MAX_ARRAY_NUM /\ MAX_ARRAY_NUM \in Nat
      /\ Current.start_index = Current.index => Current.max_add = NoAddr
  BY CurrentSnippet, Ranges DEF Layout, SnippetsPartition, Current
<1>3. n \in 0 .. MAX_ARRAY_NUM /\ n >= Current.index
  BY IndexAfterType
<1>4. new \in Snippet /\ new.start_index = n /\ new.index = n
      /\ new.max_add = NoAddr /\ new.flushed_num = "NO_FLUSHED"
  BY <1>3, Ranges DEF init_snippet_info, Snippet, FlushedNum
<1>5. \A k \in 1 .. Last : /\ mark(k) \in FlushedNum
                           /\ mark(k) = "NO_FLUSHED" => snippets[k].flushed_num = "NO_FLUSHED"
  BY <1>2 DEF FlushedNum, Snippet
<1>6. mark(Last) # "NO_FLUSHED" => Current.start_index < n
  <2>1. ASSUME mark(Last) # "NO_FLUSHED"
        PROVE  Current.start_index < n
    <3>1. Whole(Current, f) \/ Fresh(Current, f) # {}
      BY <2>1, CurrentSnippet DEF Current
    <3>2. Current.start_index < Current.index
      BY <3>1, MarkedNotEmpty
    <3> QED
      BY <1>2, <1>3, <3>2 DEF Snippet
  <2> QED
    BY <2>1
<1> HIDE DEF mark, n, new
<1>7. ASSUME NEW k \in 1 .. Last
      PROVE  /\ marked[k] \in Snippet
             /\ marked[k].start_index = snippets[k].start_index
             /\ marked[k].index = IF k = Last THEN n ELSE snippets[k].index
             /\ marked[k].max_add = snippets[k].max_add
             /\ marked[k].flushed_num = mark(k)
  <2> DEFINE m == IF k = Last THEN n ELSE snippets[k].index
             g == mark(k)
  <2>1. marked[k] = [snippets[k] EXCEPT !.flushed_num = g, !.index = m]
    OBVIOUS
  <2>2. snippets[k] \in Snippet /\ m \in 0 .. MAX_ARRAY_NUM /\ g \in FlushedNum
    BY <1>2, <1>3, <1>5 DEF Snippet
  <2> HIDE DEF m, g, marked
  <2>3. /\ marked[k] \in Snippet /\ marked[k].start_index = snippets[k].start_index
        /\ marked[k].index = m /\ marked[k].max_add = snippets[k].max_add
        /\ marked[k].flushed_num = g
    BY <2>1, <2>2 DEF Snippet
  <2> QED
    BY <2>3 DEF m, g
<1>8. marked \in [1 .. Last -> Snippet]
  BY <1>7
<1> HIDE DEF marked
<1>9. /\ \A k \in 1 .. Last :
           /\ k - 1 <= marked[k].start_index
           /\ marked[k].start_index <= marked[k].index
           /\ \A j \in 1 .. k - 1 : marked[j].index <= marked[k].start_index
           /\ k # Last => marked[k].flushed_num # "NO_FLUSHED"
           /\ k # Last => marked[k].start_index # marked[k].index
      /\ \A i \in 0 .. n - 1 : \E k \in 1 .. Last : i \in Slots(marked[k])
  <2>1. \A k \in 1 .. Last :
          /\ marked[k].start_index = snippets[k].start_index
          /\ marked[k].index = IF k = Last THEN n ELSE snippets[k].index
          /\ marked[k].flushed_num = "NO_FLUSHED" => snippets[k].flushed_num = "NO_FLUSHED"
    BY <1>5, <1>7
  <2> QED
    BY <1>3, <1>8, <2>1, MarkedSnippets
<1>10. marked \in Seq(Snippet) /\ Len(marked) = Last
  BY <1>2, <1>8
<1>11. CASE mark(Last) = "NO_FLUSHED"
  <2>1. snippets' = marked /\ Last' = Last /\ Current' = marked[Last]
    BY <1>1, <1>10, <1>11 DEF Last, Current
  <2>2. Current'.index = n
    BY <1>2, <1>7, <2>1
  <2>3. marked[Last].flushed_num = "NO_FLUSHED"
    BY <1>2, <1>7, <1>11
  <2>4. marked[Last].start_index = marked[Last].index => marked[Last].max_add = NoAddr
    BY <1>2, <1>3, <1>7 DEF Current, Snippet
  <2>5. \A k \in 1 .. Last :
          /\ marked[k].flushed_num = "NO_FLUSHED" <=> k = Last
          /\ marked[k].start_index = marked[k].index => k = Last /\ marked[k].max_add = NoAddr
    BY <1>9, <2>3, <2>4
  <2>6. SnippetsPartition'
    BY <1>9, <2>1, <2>2, <2>5 DEF SnippetsPartition, LiveSlots, Slots
  <2> QED
    BY <1>2, <1>10, <2>1, <2>6
<1>12. CASE mark(Last) # "NO_FLUSHED"
  <2>1. /\ snippets' \in Seq(Snippet) /\ Len(snippets') = Last + 1
        /\ \A k \in 1 .. Last : snippets'[k] = marked[k]
        /\ snippets'[Last + 1] = new
    BY <1>1, <1>4, <1>10, <1>12
  <2>2. Last' = Last + 1 /\ Current' = new /\ snippets' # << >>
    BY <1>2, <2>1 DEF Last, Current
  <2>3. \A k \in 1 .. Last : marked[k].flushed_num # "NO_FLUSHED"
                             /\ marked[k].start_index # marked[k].index
    BY <1>2, <1>3, <1>6, <1>7, <1>9, <1>12 DEF Current, Snippet
  <2>4. \A k \in 1 .. Last : marked[k].index <= n
    <3> TAKE k \in 1 .. Last
    <3>1. CASE k = Last
      BY <1>3, <1>7, <3>1
    <3>2. CASE k # Last
      <4>1. k \in 1 .. Last - 1
        BY <1>2, <3>2
      <4>2. marked[k].index <= marked[Last].start_index /\ marked[Last].start_index <= marked[Last].index
        BY <1>2, <1>9, <4>1
      <4> QED
        BY <1>2, <1>3, <1>7, <4>2 DEF Snippet
    <3> QED
      BY <3>1, <3>2
  <2>5. Last <= n
    <3>1. Last - 1 <= marked[Last].start_index /\ marked[Last].start_index < n
      BY <1>2, <1>6, <1>7, <1>9, <1>12 DEF Current
    <3> QED
      BY <1>2, <1>3, <1>7, <3>1 DEF Snippet
  <2>6. ASSUME NEW k \in 1 .. Last + 1
        PROVE  /\ k - 1 <= snippets'[k].start_index
               /\ snippets'[k].start_index <= snippets'[k].index
               /\ \A j \in 1 .. k - 1 : snippets'[j].index <= snippets'[k].start_index
               /\ snippets'[k].flushed_num = "NO_FLUSHED" <=> k = Last + 1
               /\ snippets'[k].start_index = snippets'[k].index =>
                    k = Last + 1 /\ snippets'[k].max_add = NoAddr
    <3>1. CASE k = Last + 1
      BY <1>2, <1>3, <1>4, <2>1, <2>4, <2>5, <3>1
    <3>2. CASE k # Last + 1
      <4>1. k \in 1 .. Last /\ \A j \in 1 .. k - 1 : j \in 1 .. Last
        BY <1>2, <3>2
      <4> QED
        BY <1>9, <2>1, <2>3, <3>2, <4>1
    <3> QED
      BY <3>1, <3>2
  <2>7. \A i \in 0 .. n - 1 : \E k \in 1 .. Last + 1 : i \in Slots(snippets'[k])
    BY <1>2, <1>9, <2>1
  <2>8. SnippetsPartition'
    BY <1>4, <2>2, <2>6, <2>7 DEF SnippetsPartition, LiveSlots, Slots
  <2> QED
    BY <2>1, <2>2, <2>8
<1> QED
  BY <1>11, <1>12
----------------------------------------------------------------------------
\* What do_flush splits off the stores of the array are entries, and there
\* are finitely many of them.
LEMMA RemaindersType ==
  ASSUME Layout, NEW f, IsRange(f)
  PROVE  /\ \A i \in FreshSlots(f) :
              i \in 0 .. MAX_ARRAY_NUM - 1 /\ array[i] \in Store /\ Overlap(f, array[i])
         /\ IsFiniteSet(Remainders(f))
         /\ \A p \in Remainders(f) : Remainder(p, f) \in Store
<1>1. ASSUME NEW i \in FreshSlots(f)
      PROVE  i \in 0 .. MAX_ARRAY_NUM - 1 /\ array[i] \in Store /\ Overlap(f, array[i])
  <2>1. PICK k \in 1 .. Last : i \in Fresh(snippets[k], f)
    BY DEF FreshSlots
  <2>2. i \in Slots(snippets[k]) /\ Overlap(f, array[i])
    BY <2>1 DEF Fresh, Met
  <2> QED
    BY <2>2, LiveSlotsType
<1>2. ASSUME NEW p \in Remainders(f)
      PROVE  p \in 0 .. 2 * MAX_ARRAY_NUM /\ Remainder(p, f) \in Store
  <2>1. CASE \E i \in FreshSlots(f) : p = 2 * i /\ array[i].addr < f.addr
    <3>1. PICK i \in FreshSlots(f) : p = 2 * i /\ array[i].addr < f.addr
      BY <2>1
    <3>2. i \in 0 .. MAX_ARRAY_NUM - 1 /\ MAX_ARRAY_NUM \in Nat
      BY <1>1, Ranges
    <3>3. p \in 0 .. 2 * MAX_ARRAY_NUM /\ p % 2 = 0 /\ p \div 2 = i
      BY <3>1, <3>2
    <3>4. LeftPart(array[i], f) \in Store
      BY <1>1, <3>1, PartsType
    <3> QED
      BY <3>3, <3>4 DEF Remainder
  <2>2. CASE \E i \in FreshSlots(f) : p = 2 * i + 1 /\ End(array[i]) > End(f)
    <3>1. PICK i \in FreshSlots(f) : p = 2 * i + 1 /\ End(array[i]) > End(f)
      BY <2>2
    <3>2. i \in 0 .. MAX_ARRAY_NUM - 1 /\ MAX_ARRAY_NUM \in Nat
      BY <1>1, Ranges
    <3>3. p \in 0 .. 2 * MAX_ARRAY_NUM /\ p % 2 # 0 /\ p \div 2 = i
      BY <3>1, <3>2
    <3>4. RightPart(array[i], f) \in Store
      BY <1>1, <3>1, PartsType
    <3> QED
      BY <3>3, <3>4 DEF Remainder
  <2> QED
    BY <2>1, <2>2 DEF Remainders
<1>3. IsFiniteSet(Remainders(f))
  <2>1. Remainders(f) \subseteq 0 .. 2 * MAX_ARRAY_NUM /\ 2 * MAX_ARRAY_NUM \in Int
    BY <1>2, Ranges
  <2> QED
    BY <2>1, BoundedFinite
<1> QED
  BY <1>1, <1>2, <1>3

\* do_flush splits entries, appends remainders and marks snippets.
LEMMA FlushLayout ==
  ASSUME Layout, NEW q \in Flushes, do_flush(q)
  PROVE  Layout'
<1> DEFINE f == flush_info(q)
           P == Remainders(f)
           fresh == FreshSlots(f)
<1>1. IsRange(f)
  BY Ranges DEF FlushRanges
<1>2. /\ array' = FlushArray(f) /\ snippets' = FlushSnippets(f) /\ tree' = FlushTree(f)
      /\ out' = FlushEvents(f) /\ box' = box /\ epoch' = epoch
  BY DEF do_flush
<1> HIDE DEF f
<1>3. /\ \A i \in fresh : array[i] \in Store /\ Overlap(f, array[i])
      /\ IsFiniteSet(P)
      /\ \A p \in P : Remainder(p, f) \in Store
  BY <1>1, RemaindersType
<1>4. snippets' \in Seq(Snippet) /\ snippets' # << >> /\ SnippetsPartition'
  BY <1>1, <1>2, <1>3, FlushSnippetsLayout
<1>5. array' \in [0 .. MAX_ARRAY_NUM - 1 -> Store]
  <2> DEFINE scanned(i) == \E k \in 1 .. Last : Scanned(snippets[k], f) /\ i \in Slots(snippets[k])
  <2>1. \A i \in 0 .. MAX_ARRAY_NUM - 1 : array[i] \in Store
    BY LiveSlotsType
  <2>2. \A i \in fresh : FlushedPart(array[i], f) \in Store
    BY <1>1, <1>3, PartsType
  <2>3. \A i \in 0 .. MAX_ARRAY_NUM - 1 : [array[i] EXCEPT !.state = "FLUSHED"] \in Store
    BY <2>1 DEF Store, State, End
  <2>4. array' = [i \in 0 .. MAX_ARRAY_NUM - 1 |->
                    IF i \in fresh THEN FlushedPart(array[i], f)
                    ELSE IF \E p \in P : SlotOf(P, p) = i
                    THEN Remainder(CHOOSE p \in P : SlotOf(P, p) = i, f)
                    ELSE IF array[i].is_delete /\ scanned(i)
                    THEN [array[i] EXCEPT !.state = "FLUSHED"]
                    ELSE array[i]]
    <3>1. DOMAIN array = 0 .. MAX_ARRAY_NUM - 1
      BY DEF Layout, TypeOK
    <3> QED
      BY <1>2, <3>1 DEF FlushArray
  <2> HIDE DEF P, fresh, scanned
  <2> QED
    BY <1>3, <2>1, <2>2, <2>3, <2>4
<1>6. \A e \in tree' : e \in Store
  <2> DEFINE Q == {p \in P : SlotOf(P, p) >= MAX_ARRAY_NUM}
             full == tree \cup {Remainder(p, f) : p \in Q}
  <2>1. tree' = IF Touches(box, f) THEN UNION {FlushNode(e, f) : e \in full} ELSE full
    BY <1>2 DEF FlushTree
  <2>2. \A e \in full : e \in Store
    BY <1>3 DEF Layout, TypeOK
  <2> HIDE DEF full
  <2>3. ASSUME NEW e \in full
        PROVE  \A d \in FlushNode(e, f) : d \in Store
    <3>1. CASE e.state = "DIRTY" /\ Overlap(f, e)
      <4>1. FlushedPart(e, f) \in Store
        BY <1>1, <2>2, <3>1, PartsType
      <4>2. e.addr < f.addr => LeftPart(e, f) \in Store
        BY <1>1, <2>2, <3>1, PartsType
      <4>3. End(e) > End(f) => [RightPart(e, f) EXCEPT !.inEpoch = FALSE] \in Store
        <5>1. \A d \in Store : [d EXCEPT !.inEpoch = FALSE] \in Store
          BY DEF Store, End
        <5> QED
          BY <1>1, <2>2, <3>1, <5>1, PartsType
      <4> QED
        BY <3>1, <4>1, <4>2, <4>3 DEF FlushNode
    <3>2. CASE ~(e.state = "DIRTY" /\ Overlap(f, e))
      BY <2>2, <3>2 DEF FlushNode
    <3> QED
      BY <3>1, <3>2
  <2> QED
    BY <2>1, <2>2, <2>3
<1>7. out' \in [redundant : BOOLEAN, superfluous : BOOLEAN, reported : SUBSET (0 .. NoAddr)]
  BY <1>2, QuietType, StoreTrackerAssumption DEF FlushEvents, Quiet
<1> QED
  BY <1>2, <1>4, <1>5, <1>6, <1>7 DEF Layout, TypeOK
----------------------------------------------------------------------------
\* Every operation of the tracker keeps the layout.
LEMMA NextLayout == Layout /\ [Next]_vars => Layout'
<1> SUFFICES ASSUME Layout, [Next]_vars
             PROVE  Layout'
  OBVIOUS
<1>1. CASE \E r \in Stores : trace_pmem_store(r)
  BY <1>1, StoreToArrayLayout, StoreToTreeLayout DEF trace_pmem_store
<1>2. CASE \E q \in Flushes : do_flush(q)
  BY <1>2, FlushLayout
<1>3. CASE do_fence
  BY <1>3, FenceLayout
<1>4. CASE \E r \in Cleans : SET_CLEAN(r)
  BY <1>4, CleanLayout
<1>5. CASE print_store_stats
  BY <1>5, StatsLayout
<1>6. CASE UNCHANGED vars
  BY <1>6 DEF vars, Layout, TypeOK, SnippetsPartition, Last, LiveSlots, Current, Slots
<1> QED
  BY <1>1, <1>2, <1>3, <1>4, <1>5, <1>6 DEF Next

\* In every reachable state slots, snippets and tree hold well-formed entries,
\* and no index has left the array.
LEMMA TypeCorrectGiven == NaturalSets /\ Spec => []TypeOK
<1>1. Layout => TypeOK
  BY DEF Layout
<1> QED
  BY <1>1, InitLayout, NextLayout, PTL DEF Spec

\* In every reachable state the snippets cut the used slots into consecutive
\* runs, the last of which waits for its first flush.
LEMMA AlwaysPartitionGiven == NaturalSets /\ Spec => []SnippetsPartition
<1>1. Layout => SnippetsPartition
  BY DEF Layout
<1> QED
  BY <1>1, InitLayout, NextLayout, PTL DEF Spec
----------------------------------------------------------------------------
(* The bytes behind the bookkeeping: what a store, a fence and the         *)
(* statistics do to them.                                                  *)

\* The state that slot i stands for.
Effective(i) == IF AllFlushed(i) THEN "FLUSHED" ELSE array[i].state

\* Byte b is in slot i, or in node e of the tree, with state st.
InSlot(i, st, b) ==
  i \in LiveSlots /\ ~array[i].is_delete /\ Effective(i) = st /\ b \in Bytes(array[i])

InNode(e, st, b) == e \in tree /\ e.state = st /\ b \in Bytes(e)

\* BytesIn, byte by byte.
LEMMA InBytes ==
  ASSUME NEW st, NEW b
  PROVE  b \in BytesIn(st) <=> (\E i : InSlot(i, st, b)) \/ (\E e : InNode(e, st, b))
<1>1. b \in BytesIn(st) <=> \/ \E i \in SlotsIn(st) : b \in Bytes(array[i])
                            \/ \E e \in tree : e.state = st /\ b \in Bytes(e)
  BY DEF BytesIn, BytesOf
<1>2. \A i : i \in SlotsIn(st) <=> i \in LiveSlots /\ ~array[i].is_delete /\ Effective(i) = st
  BY DEF SlotsIn, Effective
<1> QED
  BY <1>1, <1>2 DEF InSlot, InNode

\* The same after a step.
LEMMA InBytesNext ==
  ASSUME NEW st, NEW b
  PROVE  b \in BytesIn(st)' <=> (\E i : InSlot(i, st, b)') \/ (\E e : InNode(e, st, b)')
<1>1. b \in BytesIn(st)' <=> \/ \E i \in SlotsIn(st)' : b \in Bytes(array'[i])
                             \/ \E e \in tree' : e.state = st /\ b \in Bytes(e)
  BY DEF BytesIn, BytesOf, Bytes, End
<1>2. \A i : i \in SlotsIn(st)' <=> i \in LiveSlots' /\ ~array'[i].is_delete /\ Effective(i)' = st
  BY DEF SlotsIn, Effective, AllFlushed
<1> QED
  BY <1>1, <1>2 DEF InSlot, InNode, Bytes, End, Effective, AllFlushed

\* CleanedBytes, byte by byte.
LEMMA InCleaned ==
  ASSUME NEW b
  PROVE  b \in CleanedBytes <=> \E i \in LiveSlots : array[i].is_delete /\ b \in Bytes(array[i])
BY DEF CleanedBytes, BytesOf

\* The same after a step.
LEMMA InCleanedNext ==
  ASSUME NEW b
  PROVE  b \in CleanedBytes' <=> \E i \in LiveSlots' : array'[i].is_delete /\ b \in Bytes(array'[i])
BY DEF CleanedBytes, BytesOf

\* A used slot belongs to one snippet, whose mark decides what it stands for.
LEMMA SnippetOf ==
  ASSUME Layout, NEW i \in LiveSlots
  PROVE  \E k \in 1 .. Last :
           /\ i \in Slots(snippets[k])
           /\ \A j \in 1 .. Last : i \in Slots(snippets[j]) => j = k
           /\ AllFlushed(i) <=> snippets[k].flushed_num = "ALL_FLUSHED"
<1>1. /\ Last \in Nat \ {0} /\ \A k \in 1 .. Last : snippets[k] \in Snippet
  BY CurrentSnippet
<1>2. PICK k \in 1 .. Last : i \in Slots(snippets[k])
  BY DEF Layout, SnippetsPartition
<1>3. ASSUME NEW j \in 1 .. Last, i \in Slots(snippets[j]), NEW m \in 1 .. Last, i \in Slots(snippets[m])
      PROVE  ~(j < m)
  <2> SUFFICES ASSUME j < m
               PROVE  FALSE
    OBVIOUS
  <2>1. snippets[j].index <= snippets[m].start_index
    BY <1>1 DEF Layout, SnippetsPartition
  <2> QED
    BY <1>1, <1>3, <2>1 DEF Slots, Snippet
<1>4. \A j \in 1 .. Last : i \in Slots(snippets[j]) => j = k
  BY <1>1, <1>2, <1>3
<1> QED
  BY <1>2, <1>4 DEF AllFlushed

\* The tracked stores have addresses below NoAddr, the boxes ends up to it.
LEMMA Sorts ==
  ASSUME Layout
  PROVE  /\ \A i \in LiveSlots : array[i] \in Store
         /\ \A e \in tree : e \in Store
         /\ \A e \in Store : e.addr \in Nat /\ e.size \in Nat /\ e.state \in State
         /\ box.min_add \in Nat /\ box.max_add \in Nat
         /\ \A k \in 1 .. Last : snippets[k].min_add \in Nat /\ snippets[k].max_add \in Nat
<1>1. \A i \in LiveSlots : array[i] \in Store
  BY LiveSlotsType
<1>2. /\ \A e \in tree : e \in Store
      /\ \A e \in Store : e.addr \in Nat /\ e.size \in Nat /\ e.state \in State
  BY DEF Layout, TypeOK, Store
<1>3. box.min_add \in Nat /\ box.max_add \in Nat
  BY Ranges DEF Layout, TypeOK
<1>4. \A k \in 1 .. Last : snippets[k].min_add \in Nat /\ snippets[k].max_add \in Nat
  BY CurrentSnippet, Ranges DEF Snippet
<1> QED
  BY <1>1, <1>2, <1>3, <1>4

\* The slots of a snippet are in use.
LEMMA SlotsLive ==
  ASSUME Layout, NEW k \in 1 .. Last, NEW i \in Slots(snippets[k])
  PROVE  i \in LiveSlots
BY LiveSlotsType

\* The slots in use are slots of the array.
LEMMA LiveInDomain ==
  ASSUME Layout, NEW i \in LiveSlots
  PROVE  i \in DOMAIN array /\ i \in Nat
BY CurrentSnippet, Ranges DEF Layout, TypeOK, LiveSlots

\* The current snippet after a step.
LEMMA NextSnippet ==
  ASSUME Layout'
  PROVE  /\ Last' \in Nat \ {0} /\ Last' \in 1 .. Last' /\ Current' \in Snippet
         /\ Current'.index \in Nat /\ Current'.start_index \in Nat
         /\ Current'.flushed_num = "NO_FLUSHED"
<1>1. snippets' \in Seq(Snippet) /\ snippets' # << >>
  BY DEF Layout, TypeOK
<1>2. Last' \in Nat \ {0} /\ Last' \in 1 .. Last' /\ Current' \in Snippet
  BY <1>1 DEF Last, Current
<1>3. Current'.flushed_num = "NO_FLUSHED"
  BY <1>2 DEF Layout, SnippetsPartition, Current
<1> QED
  BY <1>2, <1>3, Ranges DEF Snippet

\* Two stores or ranges that have a byte in common overlap, and a box around
\* one of them passes the pre-filter for the other.
LEMMA Shared ==
  ASSUME NEW e, e.addr \in Nat, e.size \in Nat, NEW f, f.addr \in Nat, f.size \in Nat
  PROVE  /\ \A b : b \in Bytes(e) /\ b \in Bytes(f) => Overlap(f, e) /\ Overlap(e, f)
         /\ Overlap(f, e) /\ e.size > 0 /\ f.size > 0 => \E b : b \in Bytes(e) /\ b \in Bytes(f)
         /\ \A x : /\ x.min_add \in Nat /\ x.max_add \in Nat /\ InBox(e, x) /\ Overlap(f, e)
                   => Touches(x, f)
         /\ \A x, b : /\ x.min_add \in Nat /\ x.max_add \in Nat /\ InBox(e, x)
                      /\ End(f) >= x.max_add /\ x.min_add >= f.addr /\ b \in Bytes(e)
                      => b \in Bytes(f)
<1>1. End(e) \in Nat /\ End(f) \in Nat
  BY DEF End
<1>2. /\ \A b : b \in Bytes(e) <=> b \in Int /\ e.addr <= b /\ b < End(e)
      /\ \A b : b \in Bytes(f) <=> b \in Int /\ f.addr <= b /\ b < End(f)
  BY <1>1 DEF Bytes
<1>3. \A b : b \in Bytes(e) /\ b \in Bytes(f) => Overlap(f, e) /\ Overlap(e, f)
  BY <1>1, <1>2 DEF Overlap
<1>4. Overlap(f, e) /\ e.size > 0 /\ f.size > 0 => \E b : b \in Bytes(e) /\ b \in Bytes(f)
  <2> SUFFICES ASSUME Overlap(f, e), e.size > 0, f.size > 0
               PROVE  \E b : b \in Bytes(e) /\ b \in Bytes(f)
    OBVIOUS
  <2>1. e.addr < End(e) /\ f.addr < End(f)
    BY DEF End
  <2>2. CASE e.addr <= f.addr
    BY <1>1, <1>2, <2>1, <2>2 DEF Overlap
  <2>3. CASE f.addr <= e.addr
    BY <1>1, <1>2, <2>1, <2>3 DEF Overlap
  <2> QED
    BY <2>2, <2>3
<1>5. \A x : /\ x.min_add \in Nat /\ x.max_add \in Nat /\ InBox(e, x) /\ Overlap(f, e)
             => Touches(x, f)
  BY <1>1 DEF InBox, Overlap, Touches
<1>6. \A x, b : /\ x.min_add \in Nat /\ x.max_add \in Nat /\ InBox(e, x)
                /\ End(f) >= x.max_add /\ x.min_add >= f.addr /\ b \in Bytes(e)
                => b \in Bytes(f)
  BY <1>1, <1>2 DEF InBox
<1> QED
  BY <1>3, <1>4, <1>5, <1>6
----------------------------------------------------------------------------
\* A step that only extends the current snippet flushes no slot, and what it
\* takes into use is in the current snippet.
LEMMA Grown ==
  ASSUME Layout, NEW n \in 0 .. MAX_ARRAY_NUM, n >= Current.index, Last' = Last,
         Current'.index = n,
         \A k \in 1 .. Last : /\ snippets'[k].start_index = snippets[k].start_index
                              /\ snippets'[k].flushed_num = snippets[k].flushed_num
                              /\ snippets'[k].index = IF k = Last THEN n ELSE snippets[k].index
  PROVE  /\ LiveSlots' = 0 .. n - 1 /\ LiveSlots \subseteq LiveSlots'
         /\ \A i : AllFlushed(i)' <=> AllFlushed(i)
         /\ \A i \in LiveSlots' \ LiveSlots : ~AllFlushed(i)
         /\ \A k \in 1 .. Last : \A i \in Slots(snippets'[k]) :
              i \in Slots(snippets[k]) \/ (k = Last /\ i \in LiveSlots' \ LiveSlots)
<1> DEFINE c == Current.index
<1>1. /\ Last \in Nat \ {0} /\ Last \in 1 .. Last /\ MAX_ARRAY_NUM \in Nat
      /\ \A k \in 1 .. Last : snippets[k] \in Snippet
      /\ snippets[Last].flushed_num = "NO_FLUSHED" /\ c \in 0 .. MAX_ARRAY_NUM
      /\ snippets[Last].start_index <= c /\ snippets[Last].index = c
  BY CurrentSnippet, Ranges DEF Current
<1>2. LiveSlots' = 0 .. n - 1 /\ LiveSlots = 0 .. c - 1
  BY DEF LiveSlots
<1>3. \A i : AllFlushed(i)' <=> AllFlushed(i)
  <2>1. \A i : \A k \in 1 .. Last : snippets[k].flushed_num = "ALL_FLUSHED" =>
          (i \in Slots(snippets'[k]) <=> i \in Slots(snippets[k]))
    BY <1>1 DEF Slots
  <2>2. \A i : AllFlushed(i)' <=> \E k \in 1 .. Last :
          i \in Slots(snippets'[k]) /\ snippets'[k].flushed_num = "ALL_FLUSHED"
    BY DEF AllFlushed, Slots
  <2> QED
    BY <2>1, <2>2 DEF AllFlushed
<1>4. \A k \in 1 .. Last : \A i \in Slots(snippets'[k]) :
        i \in Slots(snippets[k]) \/ (k = Last /\ i \in LiveSlots' \ LiveSlots)
  <2> TAKE k \in 1 .. Last
  <2> TAKE i \in Slots(snippets'[k])
  <2>1. CASE k # Last
    BY <2>1 DEF Slots
  <2>2. CASE k = Last
    BY <1>1, <1>2, <2>2 DEF Slots, Snippet
  <2> QED
    BY <2>1, <2>2
<1>5. \A i \in LiveSlots' \ LiveSlots : ~AllFlushed(i)
  BY LiveSlotsType DEF AllFlushed
<1>6. LiveSlots \subseteq LiveSlots'
  BY <1>1, <1>2
<1> QED
  BY <1>2, <1>3, <1>4, <1>5, <1>6

\* trace_pmem_store with a free slot: one more slot, in the current snippet,
\* whose box now reaches around it.
LEMMA StoreSlots ==
  ASSUME Layout, NEW r \in Stores, StoreToArray(r)
  PROVE  LET c == Current.index
         IN  /\ c \in Nat /\ c \notin LiveSlots /\ LiveSlots' = LiveSlots \cup {c}
             /\ \A i \in LiveSlots : array'[i] = array[i]
             /\ array'[c] = NewStore(r, array[c]) /\ array[c] \in Store
             /\ \A i : AllFlushed(i)' <=> AllFlushed(i)
             /\ ~AllFlushed(c)
             /\ Last' = Last /\ Last \in 1 .. Last
             /\ \A k \in 1 .. Last : k # Last => snippets'[k] = snippets[k]
             /\ snippets'[Last] = Widen([Current EXCEPT !.index = c + 1], r)
             /\ \A i \in Slots(snippets'[Last]) : i \in Slots(Current) \/ i = c
<1> DEFINE c == Current.index
           d == [Current EXCEPT !.index = c + 1]
           w == Widen(d, r)
<1>1. /\ Last \in Nat \ {0} /\ Last \in 1 .. Last /\ MAX_ARRAY_NUM \in Nat
      /\ Current \in Snippet /\ Current.flushed_num = "NO_FLUSHED" /\ IsRange(r)
      /\ c \in 0 .. MAX_ARRAY_NUM - 1 /\ Current = snippets[Last]
  BY CurrentSnippet, Ranges DEF Current, StoreToArray
<1>2. /\ array' = [array EXCEPT ![c] = NewStore(r, array[c])]
      /\ snippets' = [snippets EXCEPT ![Last] = w]
  BY DEF StoreToArray
<1>3. /\ w \in Snippet /\ w.start_index = Current.start_index /\ w.index = c + 1
      /\ w.flushed_num = "NO_FLUSHED"
  <2>1. /\ d \in Snippet /\ d.start_index = Current.start_index /\ d.index = c + 1
        /\ d.flushed_num = "NO_FLUSHED"
    BY <1>1 DEF Snippet
  <2> HIDE DEF d
  <2>2. PICK lo, hi \in 0 .. NoAddr : w = [d EXCEPT !.min_add = lo, !.max_add = hi]
    BY <1>1, <2>1, WidenType DEF Snippet
  <2> HIDE DEF w
  <2> QED
    BY <2>1, <2>2 DEF Snippet
<1>4. snippets \in Seq(Snippet) /\ DOMAIN array = 0 .. MAX_ARRAY_NUM - 1
  BY DEF Layout, TypeOK
<1> HIDE DEF d, w
<1>5. Last' = Last /\ snippets'[Last] = w /\ \A k \in 1 .. Last : k # Last => snippets'[k] = snippets[k]
  BY <1>1, <1>2, <1>3, <1>4 DEF Last
<1>6. Current'.index = c + 1
  BY <1>3, <1>5 DEF Current
<1>7. \A k \in 1 .. Last : /\ snippets'[k].start_index = snippets[k].start_index
                           /\ snippets'[k].flushed_num = snippets[k].flushed_num
                           /\ snippets'[k].index = IF k = Last THEN c + 1 ELSE snippets[k].index
  BY <1>1, <1>3, <1>5
<1>8. /\ LiveSlots' = 0 .. c + 1 - 1 /\ LiveSlots \subseteq LiveSlots'
      /\ \A i : AllFlushed(i)' <=> AllFlushed(i)
      /\ \A i \in LiveSlots' \ LiveSlots : ~AllFlushed(i)
      /\ \A k \in 1 .. Last : \A i \in Slots(snippets'[k]) :
           i \in Slots(snippets[k]) \/ (k = Last /\ i \in LiveSlots' \ LiveSlots)
  <2>1. PICK n \in 0 .. MAX_ARRAY_NUM : n = c + 1 /\ n >= c
    BY <1>1
  <2>2. LiveSlots' = 0 .. n - 1 => LiveSlots' = 0 .. c + 1 - 1
    BY <1>1, <2>1
  <2> QED
    BY <1>5, <1>6, <1>7, <2>1, <2>2, Grown
<1>9. LiveSlots = 0 .. c - 1 /\ c \notin LiveSlots /\ LiveSlots' = LiveSlots \cup {c}
  <2>1. LiveSlots' = 0 .. c + 1 - 1 /\ LiveSlots = 0 .. c - 1
    BY <1>8, ZenonT(60) DEF LiveSlots
  <2> QED
    BY <1>1, <2>1
<1>10. /\ \A i \in LiveSlots : array'[i] = array[i]
       /\ array'[c] = NewStore(r, array[c]) /\ array[c] \in Store
  BY <1>1, <1>2, <1>4, <1>9, LiveSlotsType
<1> QED
  BY <1>1, <1>5, <1>8, <1>9, <1>10 DEF d, w

\* Every tracked store has a size.
Sized ==
  /\ \A i \in LiveSlots : array[i].size > 0
  /\ \A e \in tree : e.size > 0

\* The invariant behind the theorems on single operations.
ByteInv == Layout /\ Sized

\* trace_pmem_store, with or without a free slot, makes the bytes of the
\* store dirty, whatever box or mark there is, and changes no other byte.
LEMMA StoreBytes ==
  ASSUME Layout, NEW r \in Stores, trace_pmem_store(r)
  PROVE  /\ DirtyBytes' = DirtyBytes \cup Bytes(r)
         /\ FlushedBytes' = FlushedBytes /\ StatelessBytes' = StatelessBytes
         /\ CleanedBytes' = CleanedBytes
         /\ Sized => Sized'
<1>1. IsRange(r)
  BY Ranges
<1>2. ASSUME NEW old
      PROVE  LET e == NewStore(r, old)
             IN  /\ e.addr = r.addr /\ e.size = r.size /\ e.size > 0 /\ Bytes(e) = Bytes(r)
                 /\ e.state = "DIRTY" /\ ~e.is_delete
  BY <1>1 DEF NewStore, Bytes, End, IsRange
<1>3. ASSUME ASSUME NEW st, NEW b
             PROVE  b \in BytesIn(st)' <=> b \in BytesIn(st) \/ (st = "DIRTY" /\ b \in Bytes(r))
      PROVE  /\ DirtyBytes' = DirtyBytes \cup Bytes(r)
             /\ FlushedBytes' = FlushedBytes /\ StatelessBytes' = StatelessBytes
  <2>1. \A b : b \in DirtyBytes' <=> b \in DirtyBytes \/ b \in Bytes(r)
    BY <1>3 DEF DirtyBytes
  <2>2. \A b : b \in FlushedBytes' <=> b \in FlushedBytes
    BY <1>3 DEF FlushedBytes
  <2>3. \A b : b \in StatelessBytes' <=> b \in StatelessBytes
    BY <1>3 DEF StatelessBytes
  <2> QED
    BY <2>1, <2>2, <2>3
<1>4. CASE StoreToArray(r)
  <2> DEFINE c == Current.index
  <2>1. /\ c \in Nat /\ c \notin LiveSlots /\ LiveSlots' = LiveSlots \cup {c}
        /\ \A i \in LiveSlots : array'[i] = array[i]
        /\ array'[c] = NewStore(r, array[c])
        /\ ~AllFlushed(c) /\ tree' = tree
    BY <1>4, StoreSlots DEF StoreToArray
  <2>2. \A i : AllFlushed(i)' <=> AllFlushed(i)
    BY <1>4, StoreSlots
  <2>3. /\ array'[c].state = "DIRTY" /\ ~array'[c].is_delete /\ Bytes(array'[c]) = Bytes(r)
        /\ array'[c].size > 0
    BY <1>2, <2>1
  <2>4. PICK k : k = c
    OBVIOUS
  <2> HIDE DEF c
  <2>5. ASSUME NEW st, NEW b
        PROVE  b \in BytesIn(st)' <=> b \in BytesIn(st) \/ (st = "DIRTY" /\ b \in Bytes(r))
    <3>1. \A i : Effective(i)' = IF AllFlushed(i) THEN "FLUSHED" ELSE array'[i].state
      BY <2>2 DEF Effective
    <3>2. \A i \in LiveSlots : InSlot(i, st, b)' <=> InSlot(i, st, b)
      <4> TAKE i \in LiveSlots
      <4>1. Effective(i)' = Effective(i) /\ array'[i] = array[i] /\ i \in LiveSlots'
        BY <2>1, <3>1 DEF Effective
      <4> QED
        BY <4>1 DEF InSlot, Bytes, End
    <3>3. InSlot(k, st, b)' <=> st = "DIRTY" /\ b \in Bytes(r)
      <4>1. Effective(k)' = "DIRTY" /\ k \in LiveSlots' /\ ~array'[k].is_delete
        BY <2>1, <2>3, <2>4, <3>1
      <4>2. b \in Bytes(array'[k]) <=> b \in Bytes(r)
        BY <2>3, <2>4
      <4> QED
        BY <4>1, <4>2 DEF InSlot, Bytes, End
    <3>4. \A i : InSlot(i, st, b)' => i \in LiveSlots \/ i = k
      BY <2>1, <2>4 DEF InSlot
    <3>5. \A i : InSlot(i, st, b) => i \in LiveSlots
      BY DEF InSlot
    <3>6. \A e : InNode(e, st, b)' <=> InNode(e, st, b)
      BY <2>1 DEF InNode, Bytes, End
    <3> QED
      BY <3>2, <3>3, <3>4, <3>5, <3>6, InBytes, InBytesNext
  <2>6. CleanedBytes' = CleanedBytes
    <3>1. \A i : i \in LiveSlots' /\ array'[i].is_delete <=> i \in LiveSlots /\ array[i].is_delete
      BY <2>1, <2>3
    <3>2. \A b : b \in CleanedBytes <=> \E i : i \in LiveSlots /\ array[i].is_delete /\ b \in Bytes(array[i])
      BY DEF CleanedBytes, BytesOf
    <3>3. \A b : b \in CleanedBytes' <=> \E i : i \in LiveSlots' /\ array'[i].is_delete /\ b \in Bytes(array'[i])
      BY DEF CleanedBytes, BytesOf, Bytes, End
    <3> QED
      BY <2>1, <3>1, <3>2, <3>3
  <2>7. Sized => Sized'
    BY <2>1, <2>3 DEF Sized
  <2> QED
    BY <1>3, <2>5, <2>6, <2>7
<1>5. CASE StoreToTree(r)
  <2>1. /\ tree' = tree \cup {NewStore(r, ZeroStore)}
        /\ LiveSlots' = LiveSlots /\ array' = array
    BY <1>5 DEF StoreToTree, LiveSlots, Current, Last
  <2>2. \A i : Effective(i)' = Effective(i)
    BY <1>5 DEF StoreToTree, Effective, AllFlushed, Last, Slots
  <2>3. PICK e : e = NewStore(r, ZeroStore)
    OBVIOUS
  <2>4. e.state = "DIRTY" /\ Bytes(e) = Bytes(r) /\ e.size > 0
    BY <1>2, <2>3
  <2>5. ASSUME NEW st, NEW b
        PROVE  b \in BytesIn(st)' <=> b \in BytesIn(st) \/ (st = "DIRTY" /\ b \in Bytes(r))
    <3>1. \A i : InSlot(i, st, b)' <=> InSlot(i, st, b)
      BY <2>1, <2>2 DEF InSlot, Bytes, End
    <3>2. \A d : InNode(d, st, b)' <=> InNode(d, st, b) \/ (d = e /\ d.state = st /\ b \in Bytes(d))
      BY <2>1, <2>3 DEF InNode, Bytes, End
    <3> QED
      BY <2>4, <3>1, <3>2, InBytes, InBytesNext
  <2>6. CleanedBytes' = CleanedBytes
    BY <2>1 DEF CleanedBytes, BytesOf, Bytes, End
  <2>7. Sized => Sized'
    BY <2>1, <2>3, <2>4 DEF Sized
  <2> QED
    BY <1>3, <2>5, <2>6, <2>7
<1> QED
  BY <1>4, <1>5 DEF trace_pmem_store

\* print_store_stats writes back states and changes the bytes of none.
LEMMA StatsBytes ==
  ASSUME Layout, print_store_stats
  PROVE  /\ DirtyBytes' = DirtyBytes /\ FlushedBytes' = FlushedBytes
         /\ StatelessBytes' = StatelessBytes /\ CleanedBytes' = CleanedBytes
         /\ Sized => Sized'
<1>1. LiveSlots' = LiveSlots /\ tree' = tree /\ LiveSlots \subseteq DOMAIN array
  BY LiveSlotsType DEF print_store_stats, LiveSlots, Current, Last, Layout, TypeOK
<1>2. \A i : AllFlushed(i)' <=> AllFlushed(i)
  BY DEF print_store_stats, AllFlushed, Last, Slots
<1>3. ASSUME NEW i \in LiveSlots
      PROVE  /\ array'[i].addr = array[i].addr /\ array'[i].size = array[i].size
             /\ array'[i].is_delete = array[i].is_delete
             /\ Bytes(array'[i]) = Bytes(array[i])
             /\ Effective(i)' = Effective(i)
  <2>1. array'[i] = IF AllFlushed(i) THEN [array[i] EXCEPT !.state = "FLUSHED"] ELSE array[i]
    BY <1>1, <1>3 DEF print_store_stats
  <2>2. array[i] \in [addr : Nat, size : Nat, state : State, is_delete : BOOLEAN, inEpoch : BOOLEAN]
    BY Sorts DEF Store
  <2>3. /\ array'[i].addr = array[i].addr /\ array'[i].size = array[i].size
        /\ array'[i].is_delete = array[i].is_delete
        /\ ~AllFlushed(i) => array'[i].state = array[i].state
    BY <2>1, <2>2
  <2>4. Bytes(array'[i]) = Bytes(array[i])
    BY <2>3 DEF Bytes, End
  <2>5. Effective(i)' = Effective(i)
    BY <1>2, <2>3 DEF Effective
  <2> QED
    BY <2>3, <2>4, <2>5
<1>4. ASSUME NEW st, NEW b
      PROVE  b \in BytesIn(st)' <=> b \in BytesIn(st)
  <2>1. \A i \in LiveSlots : InSlot(i, st, b)' <=> InSlot(i, st, b)
    <3> TAKE i \in LiveSlots
    <3>1. /\ array'[i].is_delete = array[i].is_delete
          /\ Bytes(array'[i]) = Bytes(array[i]) /\ Effective(i)' = Effective(i)
      BY <1>3
    <3>2. InSlot(i, st, b)' <=> ~array'[i].is_delete /\ Effective(i)' = st /\ b \in Bytes(array'[i])
      BY <1>1 DEF InSlot, Bytes, End
    <3> QED
      BY <3>1, <3>2 DEF InSlot
  <2>2. \A i : (InSlot(i, st, b)' => i \in LiveSlots) /\ (InSlot(i, st, b) => i \in LiveSlots)
    BY <1>1 DEF InSlot
  <2>3. \A e : InNode(e, st, b)' <=> InNode(e, st, b)
    BY <1>1 DEF InNode, Bytes, End
  <2> QED
    BY <2>1, <2>2, <2>3, InBytes, InBytesNext
<1>5. /\ DirtyBytes' = DirtyBytes /\ FlushedBytes' = FlushedBytes /\ StatelessBytes' = StatelessBytes
  <2>1. \A b : b \in DirtyBytes' <=> b \in DirtyBytes
    BY <1>4 DEF DirtyBytes
  <2>2. \A b : b \in FlushedBytes' <=> b \in FlushedBytes
    BY <1>4 DEF FlushedBytes
  <2>3. \A b : b \in StatelessBytes' <=> b \in StatelessBytes
    BY <1>4 DEF StatelessBytes
  <2> QED
    BY <2>1, <2>2, <2>3
<1>6. CleanedBytes' = CleanedBytes
  <2>1. \A b : b \in CleanedBytes <=> \E i \in LiveSlots : array[i].is_delete /\ b \in Bytes(array[i])
    BY DEF CleanedBytes, BytesOf
  <2>2. \A b : b \in CleanedBytes' <=> \E i \in LiveSlots' : array'[i].is_delete /\ b \in Bytes(array'[i])
    BY DEF CleanedBytes, BytesOf, Bytes, End
  <2> QED
    BY <1>1, <1>3, <2>1, <2>2
<1>7. Sized => Sized'
  BY <1>1, <1>3 DEF Sized
<1> QED
  BY <1>5, <1>6, <1>7

\* do_fence leaves no slot in use and every node inside the box of the tree,
\* and takes exactly the bytes that are flushed out of the tracked ones.
LEMMA FenceBytes ==
  ASSUME Layout, do_fence
  PROVE  /\ LiveSlots' = {} /\ Last' = 1 /\ Current' = init_snippet_info(0)
         /\ DirtyBytes' = DirtyBytes
         /\ FlushedBytes' = {}
         /\ CleanedBytes' = {}
         /\ Covered'
<1>1. LiveSlots' = {} /\ Last' = 1 /\ Current' = init_snippet_info(0)
  BY DEF do_fence, LiveSlots, Last, Current, init_snippet_info
<1>2. \A st, b : b \in BytesIn(st)' <=> \E e \in tree' : e.state = st /\ b \in Bytes(e)
  BY <1>1, InBytesNext DEF InSlot, InNode, Bytes, End
<1>3. \A e : e \in tree' <=>
        \/ e \in tree /\ e.state # "FLUSHED"
        \/ \E i \in LiveSlots : /\ e = array[i] /\ ~AllFlushed(i)
                                /\ array[i].state # "FLUSHED" /\ ~array[i].is_delete
  BY DEF do_fence, Moved
<1>4. FlushedBytes' = {}
  <2>1. \A e \in tree' : e.state # "FLUSHED"
    BY <1>3
  <2> QED
    BY <1>2, <2>1 DEF FlushedBytes
<1>5. DirtyBytes' = DirtyBytes
  <2>1. \A b : b \in BytesIn("DIRTY")' <=> b \in BytesIn("DIRTY")
    <3> TAKE b
    <3>1. b \in BytesIn("DIRTY") <=>
            \/ \E i \in LiveSlots : /\ ~array[i].is_delete /\ ~AllFlushed(i)
                                    /\ array[i].state = "DIRTY" /\ b \in Bytes(array[i])
            \/ \E e \in tree : e.state = "DIRTY" /\ b \in Bytes(e)
      BY InBytes DEF InSlot, InNode, Effective
    <3> QED
      BY <1>2, <1>3, <3>1
  <2> QED
    BY <2>1 DEF DirtyBytes
<1>6. CleanedBytes' = {}
  BY <1>1 DEF CleanedBytes, BytesOf
<1>7. Covered'
  <2>1. \A e \in tree' : InBox(e, box')
    <3>1. \A e \in tree' : e.addr \in Nat /\ e.addr < NoAddr /\ End(e) \in Nat /\ End(e) < NoAddr
      <4>1. \A e \in tree' : e \in Store
        BY FenceLayout DEF Layout, TypeOK
      <4> QED
        BY <4>1, Ranges DEF Store, End
    <3>2. box' = BoxOf(tree')
      BY DEF do_fence
    <3>3. NoAddr \in Nat /\ NaturalSets
      BY Ranges DEF Layout
    <3>4. /\ ProperBox(box', NoAddr) /\ box' \in Box
          /\ \A e \in tree' : Spans(box', e)
      BY <3>1, <3>2, <3>3, BoxOfSpans DEF Box
    <3>5. \A e \in tree' : box'.max_add < NoAddr
      BY <3>1, <3>3, <3>4 DEF ProperBox, Spans, Box
    <3> QED
      BY <3>4, <3>5 DEF Spans, InBox
  <2>2. \A k \in 1 .. Last' : Slots(snippets'[k]) = {}
    BY <1>1 DEF Last, Current, Slots, init_snippet_info
  <2> QED
    BY <2>1, <2>2 DEF Covered, InBox, End, Slots
<1> QED
  BY <1>1, <1>4, <1>5, <1>6, <1>7
----------------------------------------------------------------------------
(* When every range to flush or to clean holds a store entirely or not at  *)
(* all, no store is ever split, and the boxes always cover the stores.     *)

\* Store e is where and as long as the program stored it.
IsStored(e) == \E s \in Stores : e.addr = s.addr /\ e.size = s.size

\* Every entry is a store of the program and has a state; no flush has gone
\* over the current snippet; boxes are empty or pairs of addresses.
Recorded ==
  /\ \A i \in LiveSlots : IsStored(array[i]) /\ array[i].state # "CLEAN"
  /\ \A e \in tree : IsStored(e) /\ e.state # "CLEAN" /\ ~e.is_delete
  /\ \A i \in Slots(Current) : array[i].is_delete \/ array[i].state = "DIRTY"
  /\ ProperBox(Current, NoAddr) /\ ProperBox(box, NoAddr)

\* The inductive invariant under Granular.
GranularInv == Granular /\ Layout /\ Covered /\ Recorded

\* Nothing of a store sticks out of a range it meets.
LEMMA GranularWithin ==
  ASSUME Granular, NEW f \in FlushRanges \cup Cleans, NEW e \in Store, IsStored(e), Overlap(f, e)
  PROVE  /\ Within(e, f) /\ ~(e.addr < f.addr) /\ ~(End(e) > End(f)) /\ Overlap(e, f)
         /\ IsRange(f)
<1>1. PICK s \in Stores : e.addr = s.addr /\ e.size = s.size
  BY DEF IsStored
<1>2. IsRange(f) /\ End(e) = End(s)
  BY <1>1, Ranges DEF End
<1>3. Overlap(s, f) /\ Overlap(e, f)
  BY <1>1, <1>2 DEF Overlap
<1>4. Within(s, f)
  BY <1>3 DEF Granular
<1>5. e.addr \in Nat /\ End(e) \in Nat /\ f.addr \in Nat /\ End(f) \in Nat
  BY <1>2 DEF Store, IsRange, End
<1> QED
  BY <1>1, <1>2, <1>3, <1>4, <1>5 DEF Within

\* A stored entry has a size.
LEMMA StoredSized ==
  ASSUME NEW e, IsStored(e)
  PROVE  e.addr \in Nat /\ e.size \in Nat \ {0} /\ e.size > 0 /\ End(e) < NoAddr /\ End(e) \in Nat
BY Ranges DEF IsStored, IsRange, End

\* The invariant includes that of the other theorems.
LEMMA GranularByteInv ==
  ASSUME GranularInv
  PROVE  ByteInv
BY StoredSized DEF GranularInv, Recorded, ByteInv, Sized

\* Under the invariant every store is dirty or flushed, and a store in the
\* current snippet is dirty.
LEMMA Stateful ==
  ASSUME GranularInv
  PROVE  /\ StatelessBytes = {}
         /\ \A i \in LiveSlots : Effective(i) \in {"DIRTY", "FLUSHED"}
         /\ \A e \in tree : e.state \in {"DIRTY", "FLUSHED"}
         /\ \A i \in Slots(Current) : array[i].is_delete \/ Effective(i) = "DIRTY"
<1>1. Layout /\ Recorded
  BY DEF GranularInv
<1>2. \A i \in LiveSlots : Effective(i) \in {"DIRTY", "FLUSHED"}
  BY <1>1, Sorts DEF Effective, Recorded, State
<1>3. \A e \in tree : e.state \in {"DIRTY", "FLUSHED"}
  BY <1>1, Sorts DEF Recorded, State
<1>4. StatelessBytes = {}
  <2>1. \A b : b \notin BytesIn("CLEAN")
    BY <1>2, <1>3, InBytes DEF InSlot, InNode
  <2> QED
    BY <2>1 DEF StatelessBytes
<1>5. ASSUME NEW i \in Slots(Current)
      PROVE  array[i].is_delete \/ Effective(i) = "DIRTY"
  <2>1. Last \in 1 .. Last /\ Current.flushed_num = "NO_FLUSHED"
    BY <1>1, CurrentSnippet
  <2>2. i \in LiveSlots
    BY <1>1, <2>1, SlotsLive DEF Current
  <2>3. PICK k \in 1 .. Last : /\ \A j \in 1 .. Last : i \in Slots(snippets[j]) => j = k
                               /\ AllFlushed(i) <=> snippets[k].flushed_num = "ALL_FLUSHED"
    BY <1>1, <2>2, SnippetOf
  <2>4. ~AllFlushed(i)
    BY <2>1, <2>3 DEF Current
  <2> QED
    BY <1>1, <2>4 DEF Recorded, Effective
<1> QED
  BY <1>2, <1>3, <1>4, <1>5

\* A store keeps the invariant: the box of its snippet or tree is widened.
LEMMA StoreRecorded ==
  ASSUME GranularInv, NEW r \in Stores, trace_pmem_store(r)
  PROVE  Covered' /\ Recorded'
<1>1. Layout /\ Covered /\ Recorded /\ IsRange(r) /\ NoAddr \in Nat
  BY Ranges DEF GranularInv
<1>2. r.addr \in Nat /\ r.size \in Nat /\ End(r) < NoAddr /\ End(r) \in Nat /\ r.addr < NoAddr
  BY <1>1 DEF IsRange, End
<1>3. ASSUME NEW old
      PROVE  LET e == NewStore(r, old)
             IN  /\ IsStored(e) /\ e.state = "DIRTY" /\ ~e.is_delete
                 /\ e.addr = r.addr /\ e.size = r.size /\ End(e) = End(r)
  BY DEF NewStore, IsStored, End
<1>4. ASSUME NEW x, ProperBox(x, NoAddr), "min_add" \in DOMAIN x, "max_add" \in DOMAIN x
      PROVE  /\ ProperBox(Widen(x, r), NoAddr)
             /\ \A e : e.addr = r.addr /\ End(e) = End(r) => InBox(e, Widen(x, r))
             /\ \A e : e.addr \in Nat /\ End(e) \in Nat /\ End(e) < NoAddr /\ e.addr < NoAddr /\ InBox(e, x)
                  => InBox(e, Widen(x, r))
  <2>1. /\ ProperBox(Widen(x, r), NoAddr) /\ Spans(Widen(x, r), r)
        /\ \A e : e.addr \in Nat /\ End(e) \in Nat /\ End(e) < NoAddr /\ e.addr < NoAddr /\ Spans(x, e)
                   => Spans(Widen(x, r), e)
    BY <1>1, <1>2, <1>4, WidenSpans
  <2>2. Widen(x, r).max_add < NoAddr
    BY <1>1, <1>2, <2>1 DEF ProperBox, Spans
  <2> QED
    BY <2>1, <2>2 DEF InBox, Spans
<1>5. CASE StoreToArray(r)
  <2> DEFINE c == Current.index
             d == [Current EXCEPT !.index = c + 1]
             w == Widen(d, r)
  <2>1. /\ c \in Nat /\ c \notin LiveSlots /\ LiveSlots' = LiveSlots \cup {c}
        /\ \A i \in LiveSlots : array'[i] = array[i]
        /\ array'[c] = NewStore(r, array[c])
        /\ Last' = Last /\ Last \in 1 .. Last
        /\ \A k \in 1 .. Last : k # Last => snippets'[k] = snippets[k]
        /\ snippets'[Last] = w
        /\ \A i \in Slots(snippets'[Last]) : i \in Slots(Current) \/ i = c
    BY <1>1, <1>5, StoreSlots
  <2>2. Current \in Snippet
    BY <1>1, CurrentSnippet
  <2>3. /\ d.min_add = Current.min_add /\ d.max_add = Current.max_add
        /\ "min_add" \in DOMAIN d /\ "max_add" \in DOMAIN d
    BY <2>2 DEF Snippet
  <2>4. tree' = tree /\ box' = box
    BY <1>5 DEF StoreToArray
  <2> HIDE DEF c, d
  <2>5. ProperBox(d, NoAddr)
    BY <1>1, <2>3 DEF ProperBox, Recorded
  <2>6. ASSUME NEW k \in 1 .. Last, NEW i \in Slots(snippets[k])
        PROVE  i \in LiveSlots /\ array'[i] = array[i]
    BY <1>1, <2>1, SlotsLive
  <2>7. ASSUME NEW i \in LiveSlots
        PROVE  /\ array[i].addr \in Nat /\ End(array[i]) \in Nat /\ End(array[i]) < NoAddr
               /\ array[i].addr < NoAddr
    <3>1. array[i] \in Store
      BY <1>1, Sorts
    <3> QED
      BY <1>1, <3>1 DEF Store, End
  <2>8. ASSUME NEW k \in 1 .. Last', NEW i \in Slots(snippets'[k])
        PROVE  InBox(array'[i], snippets'[k])
    <3>1. CASE k # Last
      BY <1>1, <2>1, <2>6, <3>1 DEF Covered
    <3>2. CASE k = Last /\ i \in Slots(Current)
      <4>1. i \in LiveSlots /\ array'[i] = array[i] /\ InBox(array[i], Current)
        BY <1>1, <2>1, <2>6, <3>2 DEF Covered, Current
      <4>2. InBox(array[i], d)
        BY <2>3, <4>1 DEF InBox
      <4> QED
        BY <1>4, <2>1, <2>3, <2>5, <2>7, <3>2, <4>1, <4>2
    <3>3. CASE k = Last /\ i = c
      BY <1>3, <1>4, <2>1, <2>3, <2>5, <3>3
    <3> QED
      BY <2>1, <3>1, <3>2, <3>3
  <2>9. Covered'
    BY <1>1, <2>4, <2>8 DEF Covered
  <2>10. Current' = w
    BY <2>1 DEF Current
  <2>11. \A i \in LiveSlots' : IsStored(array'[i]) /\ array'[i].state # "CLEAN"
    BY <1>1, <1>3, <2>1 DEF Recorded
  <2>12. \A i \in Slots(Current') : array'[i].is_delete \/ array'[i].state = "DIRTY"
    <3> SUFFICES ASSUME NEW i \in Slots(Current')
                 PROVE  array'[i].is_delete \/ array'[i].state = "DIRTY"
      OBVIOUS
    <3>1. i \in Slots(Current) \/ i = c
      BY <2>1, <2>10
    <3>2. CASE i \in Slots(Current)
      BY <1>1, <2>1, <2>6, <3>2 DEF Recorded, Current
    <3>3. CASE i = c
      BY <1>3, <2>1, <3>3
    <3> QED
      BY <3>1, <3>2, <3>3
  <2>13. Recorded'
    BY <1>1, <1>4, <2>3, <2>4, <2>5, <2>10, <2>11, <2>12 DEF Recorded, IsStored
  <2> QED
    BY <2>9, <2>13
<1>6. CASE StoreToTree(r)
  <2>1. /\ tree' = tree \cup {NewStore(r, ZeroStore)} /\ box' = Widen(box, r)
        /\ array' = array /\ snippets' = snippets
    BY <1>6 DEF StoreToTree
  <2>2. "min_add" \in DOMAIN box /\ "max_add" \in DOMAIN box /\ ProperBox(box, NoAddr)
    BY <1>1 DEF Layout, TypeOK, Recorded
  <2>3. ASSUME NEW e \in tree
        PROVE  e.addr \in Nat /\ End(e) \in Nat /\ End(e) < NoAddr /\ e.addr < NoAddr
    <3>1. e \in Store
      BY <1>1, Sorts
    <3> QED
      BY <1>1, <3>1 DEF Store, End
  <2>4. \A e \in tree' : InBox(e, box')
    BY <1>1, <1>3, <1>4, <2>1, <2>2, <2>3 DEF Covered
  <2>5. /\ Last' = Last /\ Current' = Current /\ LiveSlots' = LiveSlots
    BY <2>1 DEF Last, Current, LiveSlots
  <2>6. Covered'
    BY <1>1, <2>1, <2>4, <2>5 DEF Covered
  <2>7. \A e \in tree' : IsStored(e) /\ e.state # "CLEAN" /\ ~e.is_delete
    BY <1>1, <1>3, <2>1 DEF Recorded
  <2>8. Recorded'
    BY <1>1, <1>4, <2>1, <2>2, <2>5, <2>7 DEF Recorded, IsStored, Slots
  <2> QED
    BY <2>6, <2>8
<1> QED
  BY <1>5, <1>6 DEF trace_pmem_store

\* A fence keeps the invariant: what moves to the tree keeps its place.
LEMMA FenceRecorded ==
  ASSUME GranularInv, do_fence
  PROVE  Covered' /\ Recorded'
<1>1. Layout /\ Recorded /\ NoAddr \in Nat
  BY Ranges DEF GranularInv
<1>2. /\ LiveSlots' = {} /\ Current' = init_snippet_info(0) /\ Covered'
  BY <1>1, FenceBytes
<1>3. /\ tree' = {e \in tree : e.state # "FLUSHED"} \cup Moved /\ box' = BoxOf(tree')
  BY DEF do_fence
<1>4. ASSUME NEW e \in tree'
      PROVE  IsStored(e) /\ e.state # "CLEAN" /\ ~e.is_delete
  <2>1. e \in tree \/ \E i \in LiveSlots : e = array[i] /\ ~array[i].is_delete
    BY <1>3 DEF Moved
  <2> QED
    BY <1>1, <2>1 DEF Recorded
<1>5. \A e \in tree' : e.addr \in Nat /\ e.addr < NoAddr /\ End(e) \in Nat /\ End(e) < NoAddr
  <2>1. \A e : IsStored(e) => e.addr \in Nat /\ e.size \in Nat /\ End(e) \in Nat /\ End(e) < NoAddr
    BY StoredSized
  <2>2. \A e : IsStored(e) => e.addr < NoAddr
    BY <1>1, <2>1 DEF End
  <2> QED
    BY <1>4, <2>1, <2>2
<1>6. ProperBox(box', NoAddr)
  BY <1>1, <1>3, <1>5, BoxOfSpans DEF Layout
<1>7. Slots(Current)' = {} /\ ProperBox(Current', NoAddr)
  BY <1>2 DEF init_snippet_info, Slots, ProperBox
<1> QED
  BY <1>2, <1>4, <1>6, <1>7 DEF Recorded, IsStored

\* print_store_stats keeps the invariant: it writes states of snippets that
\* are not the current one.
LEMMA StatsRecorded ==
  ASSUME GranularInv, print_store_stats
  PROVE  Covered' /\ Recorded'
<1>1. Layout /\ Recorded /\ Covered /\ snippets' = snippets /\ tree' = tree /\ box' = box
  BY DEF GranularInv, print_store_stats
<1>2. Last' = Last /\ Current' = Current /\ LiveSlots' = LiveSlots
  BY <1>1 DEF Last, Current, LiveSlots
<1>3. ASSUME NEW i \in LiveSlots
      PROVE  /\ array'[i].addr = array[i].addr /\ array'[i].size = array[i].size
             /\ array'[i].is_delete = array[i].is_delete
             /\ array'[i].state # "CLEAN"
             /\ ~AllFlushed(i) => array'[i] = array[i]
  <2>1. /\ array[i] \in [addr : Nat, size : Nat, state : State, is_delete : BOOLEAN, inEpoch : BOOLEAN]
        /\ array[i].state # "CLEAN"
    BY <1>1, Sorts DEF Store, Recorded
  <2>2. i \in DOMAIN array
    BY <1>1, LiveInDomain
  <2>3. array'[i] = IF AllFlushed(i) THEN [array[i] EXCEPT !.state = "FLUSHED"] ELSE array[i]
    BY <2>2 DEF print_store_stats
  <2> QED
    BY <2>1, <2>3
<1>4. ASSUME NEW i \in Slots(Current)
      PROVE  i \in LiveSlots /\ ~AllFlushed(i)
  <2>1. Last \in 1 .. Last /\ Current.flushed_num = "NO_FLUSHED"
    BY <1>1, CurrentSnippet
  <2>2. i \in LiveSlots
    BY <1>1, <2>1, SlotsLive DEF Current
  <2>3. PICK k \in 1 .. Last : /\ \A j \in 1 .. Last : i \in Slots(snippets[j]) => j = k
                               /\ AllFlushed(i) <=> snippets[k].flushed_num = "ALL_FLUSHED"
    BY <1>1, <2>2, SnippetOf
  <2>4. k = Last
    BY <2>1, <2>3 DEF Current
  <2> QED
    BY <2>1, <2>2, <2>3, <2>4 DEF Current
<1>5. Covered'
  <2>1. ASSUME NEW k \in 1 .. Last, NEW i \in Slots(snippets[k])
        PROVE  InBox(array'[i], snippets[k])
    <3>1. i \in LiveSlots /\ InBox(array[i], snippets[k])
      BY <1>1, SlotsLive DEF Covered
    <3> QED
      BY <1>3, <3>1 DEF InBox, End
  <2> QED
    BY <1>1, <1>2, <2>1 DEF Covered
<1>6. Recorded'
  BY <1>1, <1>2, <1>3, <1>4 DEF Recorded, IsStored, Slots
<1> QED
  BY <1>5, <1>6
----------------------------------------------------------------------------
(* Remainders of stores: the slots that they get, and their bytes.         *)

\* The remainders P are appended to the current snippet: each gets a place of
\* its own, and every new slot of the array is the place of one of them.
LEMMA Appended ==
  ASSUME Layout, NEW P, P \subseteq Nat, IsFiniteSet(P)
  PROVE  /\ \A p \in P : SlotOf(P, p) \in Nat /\ SlotOf(P, p) >= Current.index
         /\ \A p, m \in P : SlotOf(P, p) = SlotOf(P, m) => p = m
         /\ \A p \in P : SlotOf(P, p) < MAX_ARRAY_NUM => SlotOf(P, p) < IndexAfter(P)
         /\ \A i \in Current.index .. IndexAfter(P) - 1 : \E p \in P : SlotOf(P, p) = i
<1> DEFINE rank(p) == Cardinality({q \in P : q < p})
           n == Cardinality(P)
           c == Current.index
<1>1. c \in 0 .. MAX_ARRAY_NUM /\ MAX_ARRAY_NUM \in Nat
  BY CurrentSnippet, Ranges
<1>2. /\ n \in Nat
      /\ \A p \in P : rank(p) \in 0 .. n - 1
      /\ \A p, m \in P : rank(p) = rank(m) => p = m
      /\ \A j \in 0 .. n - 1 : \E p \in P : rank(p) = j
  BY DEF Layout, NaturalSets
<1>3. /\ \A p : SlotOf(P, p) = c + rank(p)
      /\ IndexAfter(P) = IF c + n < MAX_ARRAY_NUM THEN c + n ELSE MAX_ARRAY_NUM
  BY DEF SlotOf, IndexAfter
<1> HIDE DEF rank, n, c
<1>4. \A p \in P : SlotOf(P, p) \in Nat /\ SlotOf(P, p) >= c
  BY <1>1, <1>2, <1>3
<1>5. \A p, m \in P : SlotOf(P, p) = SlotOf(P, m) => p = m
  BY <1>1, <1>2, <1>3
<1>6. \A p \in P : SlotOf(P, p) < MAX_ARRAY_NUM => SlotOf(P, p) < IndexAfter(P)
  BY <1>1, <1>2, <1>3
<1>7. \A i \in c .. IndexAfter(P) - 1 : \E p \in P : SlotOf(P, p) = i
  <2> TAKE i \in c .. IndexAfter(P) - 1
  <2>1. i - c \in 0 .. n - 1 /\ i \in Nat
    BY <1>1, <1>2, <1>3
  <2>2. PICK p \in P : rank(p) = i - c
    BY <1>2, <2>1
  <2>3. SlotOf(P, p) = i
    BY <1>1, <1>3, <2>1, <2>2
  <2> QED
    BY <2>3
<1> QED
  BY <1>4, <1>5, <1>6, <1>7 DEF c

\* The three parts into which a range cuts a store, byte by byte: the bytes in
\* the range, those before it and those behind it.
LEMMA PartsBytes ==
  ASSUME NEW e \in Store, NEW f, IsRange(f), Overlap(f, e)
  PROVE  /\ \A b : b \in Bytes(FlushedPart(e, f)) <=> b \in Bytes(e) /\ b \in Bytes(f)
         /\ \A b : b \in Bytes(LeftPart(e, f)) <=> b \in Bytes(e) /\ b < f.addr
         /\ e.addr <= End(f) =>
              \A b : b \in Bytes(RightPart(e, f)) <=> b \in Bytes(e) /\ b >= End(f)
         /\ \A b : b \in Bytes(e) => b \in Bytes(f) \/ b < f.addr \/ b >= End(f)
         /\ \A b : b \in Bytes(f) => ~(b < f.addr) /\ ~(b >= End(f))
<1>1. /\ e.addr \in Nat /\ e.size \in Nat /\ f.addr \in Nat /\ f.size \in Nat
      /\ f.addr < End(e) /\ e.addr < End(f) /\ End(e) \in Nat /\ End(f) \in Nat
      /\ e \in [addr : Nat, size : Nat, state : State, is_delete : BOOLEAN, inEpoch : BOOLEAN]
  BY DEF Store, IsRange, Overlap, End
<1>2. /\ \A b : b \in Bytes(e) <=> b \in Int /\ e.addr <= b /\ b < End(e)
      /\ \A b : b \in Bytes(f) <=> b \in Int /\ f.addr <= b /\ b < End(f)
  BY <1>1 DEF Bytes
<1>3. \A b : b \in Bytes(FlushedPart(e, f)) <=> b \in Bytes(e) /\ b \in Bytes(f)
  <2> DEFINE lo == IF e.addr < f.addr THEN f.addr ELSE e.addr
             hi == IF End(e) > End(f) THEN End(f) ELSE End(e)
             g == FlushedPart(e, f)
  <2>1. lo \in Nat /\ hi \in Nat /\ lo + (hi - lo) = hi
    BY <1>1
  <2>2. g.addr = lo /\ g.size = hi - lo
    <3>1. g = [e EXCEPT !.addr = lo, !.size = hi - lo, !.state = "FLUSHED"]
      BY DEF FlushedPart
    <3> HIDE DEF lo, hi, g
    <3> QED
      BY <1>1, <3>1
  <2>3. \A b : b \in Bytes(g) <=> b \in Int /\ lo <= b /\ b < hi
    <3> HIDE DEF lo, hi, g
    <3> QED
      BY <2>1, <2>2 DEF Bytes, End
  <2> HIDE DEF g
  <2> QED
    BY <1>1, <1>2, <2>3 DEF g
<1>4. \A b : b \in Bytes(LeftPart(e, f)) <=> b \in Bytes(e) /\ b < f.addr
  <2>1. LeftPart(e, f).addr = e.addr /\ LeftPart(e, f).size = f.addr - e.addr
    BY <1>1 DEF LeftPart
  <2>2. \A b : b \in Bytes(LeftPart(e, f)) <=> b \in Int /\ e.addr <= b /\ b < f.addr
    BY <1>1, <2>1 DEF Bytes, End
  <2> QED
    BY <1>1, <1>2, <2>2
<1>5. \A b : b \in Bytes(RightPart(e, f)) <=> b \in Bytes(e) /\ b >= End(f)
  <2>1. RightPart(e, f).addr = End(f) /\ RightPart(e, f).size = End(e) - End(f)
    BY <1>1 DEF RightPart
  <2>2. End(f) + (End(e) - End(f)) = End(e)
    BY <1>1
  <2>3. \A b : b \in Bytes(RightPart(e, f)) <=> b \in Int /\ End(f) <= b /\ b < End(e)
    <3>1. End(RightPart(e, f)) = End(e)
      BY <2>1, <2>2 DEF End
    <3> QED
      BY <1>1, <2>1, <3>1 DEF Bytes
  <2> QED
    BY <1>1, <1>2, <2>3
<1> QED
  BY <1>1, <1>2, <1>3, <1>4, <1>5

\* The numbers of the remainders are naturals.
LEMMA RemaindersNat ==
  ASSUME Layout, NEW f, IsRange(f)
  PROVE  /\ Remainders(f) \subseteq Nat /\ IsFiniteSet(Remainders(f))
         /\ FreshSlots(f) \subseteq LiveSlots
<1>1. FreshSlots(f) \subseteq 0 .. MAX_ARRAY_NUM - 1 /\ IsFiniteSet(Remainders(f))
  BY RemaindersType
<1>2. Remainders(f) \subseteq Nat
  BY <1>1, Ranges DEF Remainders
<1>3. FreshSlots(f) \subseteq LiveSlots
  BY LiveSlotsType DEF FreshSlots, Fresh, Met
<1> QED
  BY <1>1, <1>2, <1>3

\* A store that a flush marks slot by slot was dirty.
LEMMA FreshFacts ==
  ASSUME Layout, NEW f, IsRange(f), NEW j \in FreshSlots(f)
  PROVE  /\ j \in LiveSlots /\ array[j] \in Store /\ Overlap(f, array[j])
         /\ ~array[j].is_delete /\ array[j].state = "DIRTY" /\ Effective(j) = "DIRTY"
         /\ \E k \in 1 .. Last : Scanned(snippets[k], f) /\ j \in Fresh(snippets[k], f)
<1>1. PICK k \in 1 .. Last : Scanned(snippets[k], f) /\ j \in Fresh(snippets[k], f)
  BY DEF FreshSlots
<1>2. /\ j \in Slots(snippets[k]) /\ ~array[j].is_delete /\ Overlap(f, array[j])
      /\ snippets[k].flushed_num # "ALL_FLUSHED" /\ array[j].state = "DIRTY"
  BY <1>1 DEF Fresh, Met
<1>3. j \in LiveSlots /\ array[j] \in Store
  BY <1>2, LiveSlotsType
<1>4. ~AllFlushed(j)
  BY <1>2, <1>3, SnippetOf
<1> QED
  BY <1>1, <1>2, <1>3, <1>4 DEF Effective

\* A remainder is the dirty part of a store on one side of the flush.
LEMMA RemainderFacts ==
  ASSUME Layout, NEW f, IsRange(f), NEW p \in Remainders(f)
  PROVE  LET d == Remainder(p, f)
         IN  /\ d.state = "DIRTY" /\ ~d.is_delete /\ ~Overlap(f, d)
             /\ \E j \in FreshSlots(f) :
                  /\ \A b : b \in Bytes(d) => b \in Bytes(array[j]) /\ b \notin Bytes(f)
                  /\ array[j].addr <= d.addr /\ End(d) <= End(array[j]) /\ d.size > 0
                  /\ ~Within(array[j], f)
<1> DEFINE d == Remainder(p, f)
<1>1. ASSUME NEW j \in FreshSlots(f), p = 2 * j, array[j].addr < f.addr
      PROVE  /\ d.state = "DIRTY" /\ ~d.is_delete /\ ~Overlap(f, d)
             /\ \A b : b \in Bytes(d) => b \in Bytes(array[j]) /\ b \notin Bytes(f)
             /\ array[j].addr <= d.addr /\ End(d) <= End(array[j]) /\ d.size > 0
             /\ ~Within(array[j], f)
  <2>1. /\ j \in LiveSlots /\ array[j] \in Store /\ Overlap(f, array[j])
        /\ ~array[j].is_delete /\ array[j].state = "DIRTY"
    BY FreshFacts
  <2>2. p % 2 = 0 /\ p \div 2 = j
    BY <1>1, <2>1, LiveSlotsType, Ranges
  <2>3. d = LeftPart(array[j], f)
    BY <2>2 DEF Remainder
  <2>4. /\ array[j].addr \in Nat /\ f.addr \in Nat /\ f.addr < End(array[j])
        /\ array[j] \in [addr : Nat, size : Nat, state : State, is_delete : BOOLEAN, inEpoch : BOOLEAN]
    BY <2>1 DEF Store, IsRange, Overlap
  <2>5. /\ d.addr = array[j].addr /\ d.size = f.addr - array[j].addr
        /\ d.state = array[j].state /\ d.is_delete = array[j].is_delete
    BY <2>3, <2>4 DEF LeftPart
  <2>6. End(d) = f.addr /\ ~Overlap(f, d) /\ ~Within(array[j], f)
    <3>1. End(d) = f.addr
      BY <2>4, <2>5 DEF End
    <3> HIDE DEF d
    <3> QED
      BY <1>1, <2>4, <3>1 DEF Overlap, Within
  <2>7. \A b : b \in Bytes(d) => b \in Bytes(array[j]) /\ b \notin Bytes(f)
    BY <2>1, <2>3, PartsBytes
  <2>8. End(array[j]) \in Int
    BY <2>4 DEF End
  <2> HIDE DEF d
  <2> QED
    BY <1>1, <2>1, <2>4, <2>5, <2>6, <2>7, <2>8
<1>2. ASSUME NEW j \in FreshSlots(f), p = 2 * j + 1, End(array[j]) > End(f)
      PROVE  /\ d.state = "DIRTY" /\ ~d.is_delete /\ ~Overlap(f, d)
             /\ \A b : b \in Bytes(d) => b \in Bytes(array[j]) /\ b \notin Bytes(f)
             /\ array[j].addr <= d.addr /\ End(d) <= End(array[j]) /\ d.size > 0
             /\ ~Within(array[j], f)
  <2>1. /\ j \in LiveSlots /\ array[j] \in Store /\ Overlap(f, array[j])
        /\ ~array[j].is_delete /\ array[j].state = "DIRTY"
    BY FreshFacts
  <2>2. p % 2 # 0 /\ p \div 2 = j
    BY <1>2, <2>1, LiveSlotsType, Ranges
  <2>3. d = RightPart(array[j], f)
    BY <2>2 DEF Remainder
  <2>4. /\ array[j].addr \in Nat /\ End(f) \in Nat /\ End(array[j]) \in Nat
        /\ array[j].addr < End(f)
        /\ array[j] \in [addr : Nat, size : Nat, state : State, is_delete : BOOLEAN, inEpoch : BOOLEAN]
    BY <2>1 DEF Store, IsRange, Overlap, End
  <2>5. /\ d.addr = End(f) /\ d.size = End(array[j]) - End(f)
        /\ d.state = array[j].state /\ d.is_delete = array[j].is_delete
    BY <2>3, <2>4 DEF RightPart
  <2>6. End(d) = End(array[j]) /\ ~Overlap(f, d) /\ ~Within(array[j], f)
    <3>1. End(d) = End(array[j])
      <4>1. End(d) = End(f) + (End(array[j]) - End(f))
        BY <2>5 DEF End
      <4> QED
        BY <2>4, <4>1
    <3> HIDE DEF d
    <3> QED
      BY <1>2, <2>4, <2>5, <3>1 DEF Overlap, Within
  <2>7. \A b : b \in Bytes(d) => b \in Bytes(array[j]) /\ b \notin Bytes(f)
    BY <2>1, <2>3, <2>4, PartsBytes
  <2> HIDE DEF d
  <2>8. d.state = "DIRTY" /\ ~d.is_delete
    BY <2>1, <2>5
  <2>9. array[j].addr <= d.addr /\ End(d) <= End(array[j]) /\ d.size > 0
    BY <1>2, <2>4, <2>5, <2>6
  <2> QED
    BY <2>6, <2>7, <2>8, <2>9
<1>3. \/ \E j \in FreshSlots(f) : p = 2 * j /\ array[j].addr < f.addr
      \/ \E j \in FreshSlots(f) : p = 2 * j + 1 /\ End(array[j]) > End(f)
  BY DEF Remainders
<1> HIDE DEF d
<1>4. /\ d.state = "DIRTY" /\ ~d.is_delete /\ ~Overlap(f, d)
      /\ \E j \in FreshSlots(f) :
           /\ \A b : b \in Bytes(d) => b \in Bytes(array[j]) /\ b \notin Bytes(f)
           /\ array[j].addr <= d.addr /\ End(d) <= End(array[j]) /\ d.size > 0
           /\ ~Within(array[j], f)
  BY <1>1, <1>2, <1>3
<1> QED
  BY <1>4 DEF d

\* What a flush of f leaves out of a store that it marks is in a remainder.
LEMMA RemainderOf ==
  ASSUME Layout, NEW f, IsRange(f), NEW j \in FreshSlots(f),
         NEW b \in Bytes(array[j]), b \notin Bytes(f)
  PROVE  \E p \in Remainders(f) : b \in Bytes(Remainder(p, f))
<1>1. j \in LiveSlots /\ array[j] \in Store /\ Overlap(f, array[j]) /\ j \in Nat
  <2>1. j \in LiveSlots /\ array[j] \in Store /\ Overlap(f, array[j])
    BY FreshFacts
  <2> QED
    BY <2>1, LiveInDomain
<1> USE <1>1
<1>2. /\ array[j].addr \in Nat /\ array[j].addr < End(f) /\ End(array[j]) \in Nat
      /\ End(f) \in Nat /\ f.addr \in Nat
  BY DEF Store, IsRange, Overlap, End
<1>3. b \in Int /\ array[j].addr <= b /\ b < End(array[j])
  BY <1>2 DEF Bytes
<1>4. CASE b < f.addr
  <2>1. array[j].addr < f.addr /\ (2 * j) % 2 = 0 /\ (2 * j) \div 2 = j
    BY <1>2, <1>3, <1>4
  <2>2. 2 * j \in Remainders(f) /\ Remainder(2 * j, f) = LeftPart(array[j], f)
    BY <2>1 DEF Remainders, Remainder
  <2> QED
    BY <1>4, <2>2, PartsBytes
<1>5. CASE b >= End(f)
  <2>1. End(array[j]) > End(f) /\ (2 * j + 1) % 2 # 0 /\ (2 * j + 1) \div 2 = j
    BY <1>2, <1>3, <1>5
  <2>2. 2 * j + 1 \in Remainders(f) /\ Remainder(2 * j + 1, f) = RightPart(array[j], f)
    BY <2>1 DEF Remainders, Remainder
  <2> QED
    BY <1>2, <1>5, <2>2, PartsBytes
<1> QED
  BY <1>4, <1>5, PartsBytes

\* The part of a store inside a range lies inside the store and has a size.
LEMMA FlushedPartFacts ==
  ASSUME NEW e \in Store, NEW f, IsRange(f), Overlap(f, e)
  PROVE  LET d == FlushedPart(e, f)
         IN  /\ d.state = "FLUSHED" /\ d.is_delete = e.is_delete /\ d.inEpoch = e.inEpoch
             /\ e.addr <= d.addr /\ End(d) <= End(e)
             /\ e.size > 0 => d.size > 0
<1> DEFINE lo == IF e.addr < f.addr THEN f.addr ELSE e.addr
           hi == IF End(e) > End(f) THEN End(f) ELSE End(e)
           d == FlushedPart(e, f)
<1>1. /\ e.addr \in Nat /\ e.size \in Nat /\ f.addr \in Nat /\ f.size \in Nat \ {0}
      /\ f.addr < End(e) /\ e.addr < End(f) /\ End(e) \in Nat /\ End(f) \in Nat
      /\ e \in [addr : Nat, size : Nat, state : State, is_delete : BOOLEAN, inEpoch : BOOLEAN]
      /\ e.size > 0 => e.addr < End(e)
      /\ f.addr < End(f)
  BY DEF Store, IsRange, Overlap, End
<1>2. /\ lo \in Nat /\ hi \in Nat /\ lo + (hi - lo) = hi
      /\ e.addr <= lo /\ hi <= End(e) /\ (e.size > 0 => hi - lo > 0)
  BY <1>1
<1>3. d = [e EXCEPT !.addr = lo, !.size = hi - lo, !.state = "FLUSHED"]
  BY DEF FlushedPart
<1> HIDE DEF lo, hi, d
<1>4. /\ d.addr = lo /\ d.size = hi - lo /\ d.state = "FLUSHED"
      /\ d.is_delete = e.is_delete /\ d.inEpoch = e.inEpoch
  BY <1>1, <1>3
<1>5. End(d) = hi
  BY <1>2, <1>4 DEF End
<1>6. /\ d.state = "FLUSHED" /\ d.is_delete = e.is_delete /\ d.inEpoch = e.inEpoch
      /\ e.addr <= d.addr /\ End(d) <= End(e)
      /\ e.size > 0 => d.size > 0
  BY <1>2, <1>4, <1>5
<1> QED
  BY <1>6 DEF d

\* Under Granular a flush makes no remainders: it changes states only.
LEMMA GranularNoSplit ==
  ASSUME GranularInv, NEW f \in FlushRanges
  PROVE  /\ IsRange(f) /\ Remainders(f) = {} /\ SplitsCurrentOnly(f)
         /\ Current.index + Cardinality(Remainders(f)) <= MAX_ARRAY_NUM
         /\ \A i \in FreshSlots(f) :
              /\ FlushedPart(array[i], f).addr = array[i].addr
              /\ FlushedPart(array[i], f).size = array[i].size
         /\ \A e \in tree : \A d \in FlushNode(e, f) :
              \/ d = e
              \/ d = [e EXCEPT !.state = "FLUSHED"] /\ e.state = "DIRTY" /\ Overlap(f, e)
<1>1. IsRange(f) /\ Layout /\ Granular /\ Recorded
  BY Ranges DEF GranularInv
<1>2. ASSUME NEW e \in Store, IsStored(e), Overlap(f, e)
      PROVE  /\ Within(e, f) /\ ~(e.addr < f.addr) /\ ~(End(e) > End(f))
             /\ FlushedPart(e, f) = [e EXCEPT !.state = "FLUSHED"]
  <2>1. Within(e, f) /\ ~(e.addr < f.addr) /\ ~(End(e) > End(f))
    BY <1>1, <1>2, GranularWithin
  <2>2. FlushedPart(e, f) = [e EXCEPT !.addr = e.addr, !.size = End(e) - e.addr, !.state = "FLUSHED"]
    BY <2>1 DEF FlushedPart
  <2>3. /\ e \in [addr : Nat, size : Nat, state : State, is_delete : BOOLEAN, inEpoch : BOOLEAN]
        /\ End(e) - e.addr = e.size
    BY DEF Store, End
  <2>4. FlushedPart(e, f) = [e EXCEPT !.addr = e.addr, !.size = e.size, !.state = "FLUSHED"]
    BY <2>2, <2>3
  <2>5. [e EXCEPT !.addr = e.addr, !.size = e.size, !.state = "FLUSHED"] = [e EXCEPT !.state = "FLUSHED"]
    BY <2>3
  <2> QED
    BY <2>1, <2>4, <2>5
<1>3. \A i \in FreshSlots(f) : /\ array[i] \in Store /\ IsStored(array[i]) /\ Overlap(f, array[i])
  BY <1>1, FreshFacts DEF Recorded
<1>4. Remainders(f) = {} /\ SplitsCurrentOnly(f)
  BY <1>2, <1>3 DEF Remainders, SplitsCurrentOnly
<1>5. Current.index + Cardinality(Remainders(f)) <= MAX_ARRAY_NUM
  <2>1. Cardinality(Remainders(f)) = 0
    <3> DEFINE P == Remainders(f)
    <3>1. P \subseteq Nat /\ IsFiniteSet(P) /\ NaturalSets
      BY <1>1, RemaindersNat DEF Layout
    <3>2. /\ Cardinality(P) \in Nat
          /\ \A j \in 0 .. Cardinality(P) - 1 : \E p \in P : Cardinality({q \in P : q < p}) = j
      BY <3>1 DEF NaturalSets
    <3> QED
      BY <1>4, <3>2
  <2> QED
    BY <1>1, <2>1, CurrentSnippet, Ranges
<1>6. \A i \in FreshSlots(f) : /\ FlushedPart(array[i], f).addr = array[i].addr
                               /\ FlushedPart(array[i], f).size = array[i].size
  BY <1>2, <1>3 DEF Store
<1>7. \A e \in tree : \A d \in FlushNode(e, f) :
        \/ d = e
        \/ d = [e EXCEPT !.state = "FLUSHED"] /\ e.state = "DIRTY" /\ Overlap(f, e)
  <2> TAKE e \in tree
  <2>1. e \in Store /\ IsStored(e)
    BY <1>1, Sorts DEF Recorded
  <2>2. CASE e.state = "DIRTY" /\ Overlap(f, e)
    <3>1. FlushNode(e, f) = {FlushedPart(e, f)}
      BY <1>2, <2>1, <2>2 DEF FlushNode
    <3> QED
      BY <1>2, <2>1, <2>2, <3>1
  <2>3. CASE ~(e.state = "DIRTY" /\ Overlap(f, e))
    BY <2>3 DEF FlushNode
  <2> QED
    BY <2>2, <2>3
<1> QED
  BY <1>1, <1>4, <1>5, <1>6, <1>7

\* The stores a flush meets: by the boxes, do_flush finds each of them.
LEMMA FlushFinds ==
  ASSUME GranularInv, NEW f \in FlushRanges, NEW i \in LiveSlots, NEW b \in Bytes(array[i]),
         b \in Bytes(f)
  PROVE  \E k \in 1 .. Last :
           /\ i \in Slots(snippets[k])
           /\ \/ Whole(snippets[k], f) /\ snippets[k] = Current
              \/ Scanned(snippets[k], f) /\ (~array[i].is_delete => i \in Met(snippets[k], f))
           /\ i \in Fresh(snippets[k], f) => Effective(i) = "DIRTY"
<1>1. Layout /\ Recorded /\ Covered /\ IsRange(f)
  BY Ranges DEF GranularInv
<1>2. PICK k \in 1 .. Last : /\ i \in Slots(snippets[k])
                             /\ AllFlushed(i) <=> snippets[k].flushed_num = "ALL_FLUSHED"
  BY <1>1, SnippetOf
<1>3. InBox(array[i], snippets[k])
  BY <1>1, <1>2 DEF Covered
<1>4. /\ array[i].addr \in Nat /\ array[i].size \in Nat /\ f.addr \in Nat /\ f.size \in Nat
      /\ snippets[k].min_add \in Nat /\ snippets[k].max_add \in Nat
  BY <1>1, Sorts DEF IsRange
<1>5. Overlap(f, array[i])
  BY <1>4, Shared
<1>6. Touches(snippets[k], f)
  BY <1>3, <1>4, <1>5, Shared
<1>7. Whole(snippets[k], f) => snippets[k] = Current
  BY <1>1 DEF Whole, Layout, SnippetsPartition, Current
<1>8. ~array[i].is_delete => i \in Met(snippets[k], f)
  BY <1>2, <1>5 DEF Met
<1>9. i \in Fresh(snippets[k], f) => Effective(i) = "DIRTY"
  BY <1>2 DEF Fresh, Effective
<1> QED
  BY <1>2, <1>6, <1>7, <1>8, <1>9 DEF Scanned
============================================================================
