------------------------------ MODULE Theorems ------------------------------
(* What is proved of the tracker of stores, of its options, of the orders, *)
(* the epochs and the instrumentation, for all programs and sizes.  The    *)
(* proofs of the components rest on NaturalSets and FiniteRules, which are *)
(* proved here.                                                            *)
EXTENDS OptionsProofs, OrdersProofs, EpochsProofs, FiniteSetTheorems,
        WellFoundedInduction

\* Zenon is quicker on most steps and SMT does arithmetic.
USE ZenonT(3), SMTT(15), ZenonT(20)
----------------------------------------------------------------------------
\* Min of a non-empty set of naturals is its least element.
LEMMA MinOfNats ==
  ASSUME NEW S, S \subseteq Nat, S # {}
  PROVE  Min(S) \in S /\ \A y \in S : Min(S) <= y
<1> DEFINE less == {ss \in Nat \X Nat : ss[1] < ss[2]}
<1>1. IsWellFoundedOn(less, Nat)
  BY NatLessThanWellFounded, Zenon DEF OpToRel
<1>2. \E x \in S : \A y \in S : ~(<<y, x>> \in less)
  <2> HIDE DEF less
  <2> QED
    BY <1>1, WFMin
<1>3. \E x \in S : \A y \in S : x <= y
  <2>1. PICK x \in S : \A y \in S : ~(<<y, x>> \in less)
    BY <1>2
  <2>2. \A y \in S : <<y, x>> \in Nat \X Nat /\ x \in Nat /\ y \in Nat
    OBVIOUS
  <2>3. \A y \in S : ~(<<y, x>>[1] < <<y, x>>[2])
    BY <2>1, <2>2
  <2>4. \A y \in S : ~(y < x)
    BY <2>3
  <2> QED
    BY <2>2, <2>4
<1> QED
  BY <1>3 DEF Min

\* Max of a non-empty bounded set of naturals is its greatest element.
LEMMA MaxOfNats ==
  ASSUME NEW b \in Nat, NEW S, S \subseteq 0 .. b, S # {}
  PROVE  Max(S) \in S /\ \A y \in S : Max(S) >= y
<1> DEFINE T == {b - x : x \in S}
<1>1. T \subseteq Nat /\ T # {}
  <2>1. \A x \in S : x \in Nat /\ b - x \in Nat
    OBVIOUS
  <2> QED
    BY <2>1
<1>2. Min(T) \in T /\ \A y \in T : Min(T) <= y
  BY <1>1, MinOfNats
<1>3. PICK m \in S : Min(T) = b - m
  BY <1>2
<1>4. \A y \in S : m >= y
  <2> TAKE y \in S
  <2>1. b - y \in T
    OBVIOUS
  <2>2. b - m <= b - y
    BY <1>2, <1>3, <2>1
  <2>3. m \in Nat /\ y \in Nat
    OBVIOUS
  <2> QED
    BY <2>2, <2>3
<1> QED
  BY <1>4 DEF Max

\* The ranks of the elements of a finite set of naturals are 0 .. n-1.
LEMMA Ranks ==
  ASSUME NEW P, P \subseteq Nat, IsFiniteSet(P)
  PROVE  /\ Cardinality(P) \in Nat
         /\ \A p \in P : Cardinality({q \in P : q < p}) \in 0 .. Cardinality(P) - 1
         /\ \A p, m \in P : Cardinality({q \in P : q < p}) = Cardinality({q \in P : q < m}) => p = m
         /\ \A j \in 0 .. Cardinality(P) - 1 : \E p \in P : Cardinality({q \in P : q < p}) = j
<1> DEFINE below(p) == {q \in P : q < p}
           n == Cardinality(P)
           rank == [p \in P |-> Cardinality(below(p))]
<1>1. n \in Nat
  BY FS_CardinalityType
<1>2. \A p : IsFiniteSet(below(p)) /\ Cardinality(below(p)) \in Nat
  <2> TAKE p
  <2>1. below(p) \in SUBSET P
    OBVIOUS
  <2>2. IsFiniteSet(below(p))
    <3> HIDE DEF below
    <3> QED
      BY <2>1, FS_Subset
  <2> QED
    BY <2>2, FS_CardinalityType
<1>3. ASSUME NEW p \in P, NEW S, IsFiniteSet(S), below(p) \in SUBSET S, p \in S
      PROVE  Cardinality(below(p)) < Cardinality(S)
  <2>1. below(p) # S
    BY <1>3
  <2> HIDE DEF below
  <2>2. Cardinality(below(p)) <= Cardinality(S) /\ Cardinality(below(p)) # Cardinality(S)
    BY <1>3, <2>1, FS_Subset
  <2> QED
    BY <1>2, <1>3, <2>2, FS_CardinalityType
<1>4. \A p \in P : Cardinality(below(p)) \in 0 .. n - 1
  <2> TAKE p \in P
  <2>1. below(p) \in SUBSET P
    OBVIOUS
  <2> HIDE DEF below
  <2>2. Cardinality(below(p)) < n
    BY <1>3, <2>1
  <2> QED
    BY <1>1, <1>2, <2>2
<1>5. ASSUME NEW p \in P, NEW m \in P, p < m
      PROVE  Cardinality(below(p)) < Cardinality(below(m))
  <2>1. p \in Nat /\ m \in Nat /\ \A q \in P : q \in Nat
    OBVIOUS
  <2>2. \A q \in P : q < p => q < m
    BY <1>5, <2>1
  <2>3. below(p) \in SUBSET below(m) /\ p \in below(m)
    BY <1>5, <2>2
  <2> HIDE DEF below
  <2> QED
    BY <1>2, <1>3, <2>3
<1>6. \A p, m \in P : Cardinality(below(p)) = Cardinality(below(m)) => p = m
  <2> TAKE p \in P, m \in P
  <2>1. p \in Nat /\ m \in Nat
    OBVIOUS
  <2> HIDE DEF below
  <2> QED
    BY <1>2, <1>5, <2>1
<1>7. \A j \in 0 .. n - 1 : \E p \in P : Cardinality(below(p)) = j
  <2> HIDE DEF below
  <2>1. rank \in Injection(P, 0 .. n - 1)
    BY <1>4, <1>6 DEF Injection, IsInjective
  <2>2. IsFiniteSet(0 .. n - 1) /\ Cardinality(0 .. n - 1) = n
    <3>1. 0 \in Int /\ n - 1 \in Int /\ (0 > n - 1 => n = 0)
      BY <1>1
    <3> HIDE DEF n
    <3> QED
      BY <1>1, <3>1, FS_Interval
  <2> HIDE DEF rank, n
  <2>3. rank \in Surjection(P, 0 .. n - 1)
    BY <2>1, <2>2, FS_Injection DEF n
  <2> QED
    BY <2>3 DEF Surjection, rank
<1> QED
  BY <1>1, <1>4, <1>6, <1>7

\* The facts on finite sets of numbers that the proofs of the components use.
LEMMA NaturalSetsHold == NaturalSets
<1>1. \A P : IsFiniteSet(P) => Cardinality(P) \in Nat
  BY FS_CardinalityType
<1>2. ASSUME NEW b \in Int, NEW S \in SUBSET (0 .. b)
      PROVE  /\ IsFiniteSet(S)
             /\ S # {} => /\ Min(S) \in S /\ \A y \in S : Min(S) <= y
                          /\ Max(S) \in S /\ \A y \in S : Max(S) >= y
  <2>1. IsFiniteSet(S)
    <3>1. IsFiniteSet(0 .. b)
      BY FS_Interval
    <3> QED
      BY <3>1, FS_Subset
  <2>2. ASSUME S # {}
        PROVE  b \in Nat /\ S \subseteq Nat
    <3>1. PICK x \in S : x \in 0 .. b
      BY <2>2
    <3>2. b \in Nat
      BY <3>1
    <3> QED
      BY <3>2
  <2> QED
    BY <2>1, <2>2, MinOfNats, MaxOfNats
<1>3. ASSUME NEW P \in SUBSET Nat, IsFiniteSet(P)
      PROVE  \A S \in SUBSET P : Cardinality(S) <= Cardinality(P)
  BY <1>3, FS_Subset
<1>4. \A n \in Nat : Cardinality(1 .. n) = n
  BY FS_Interval
<1> QED
  BY <1>1, <1>2, <1>3, <1>4, Ranks DEF NaturalSets

\* The facts on finite sets of stores that the proofs about the options use.
LEMMA FiniteRulesHold == FiniteRules
<1>1. IsFiniteSet({})
  BY FS_EmptySet
<1>2. ASSUME NEW S, NEW x, IsFiniteSet(S)
      PROVE  /\ IsFiniteSet(S \cup {x})
             /\ x \notin S => Cardinality(S \cup {x}) = Cardinality(S) + 1
  BY <1>2, FS_AddElement
<1>3. \A S, T : IsFiniteSet(S) /\ IsFiniteSet(T) => IsFiniteSet(S \cup T)
  BY FS_Union
<1>4. ASSUME NEW S, IsFiniteSet(S), NEW T \in SUBSET S
      PROVE  IsFiniteSet(T)
  BY <1>4, FS_Subset
<1>5. ASSUME NEW f, IsFiniteSet(DOMAIN f), \A x \in DOMAIN f : IsFiniteSet(f[x])
      PROVE  IsFiniteSet(UNION {f[x] : x \in DOMAIN f})
  <2> DEFINE T == {f[x] : x \in DOMAIN f}
             g == [x \in DOMAIN f |-> f[x]]
  <2>1. g \in Surjection(DOMAIN f, T)
    BY DEF Surjection
  <2>2. \A t \in T : IsFiniteSet(t)
    BY <1>5
  <2> HIDE DEF T, g
  <2>3. IsFiniteSet(T)
    BY <1>5, <2>1, FS_Surjection
  <2>4. IsFiniteSet(UNION T)
    BY <2>2, <2>3, FS_UNION
  <2> QED
    BY <2>4 DEF T
<1> QED
  BY <1>1, <1>2, <1>3, <1>4, <1>5 DEF FiniteRules
----------------------------------------------------------------------------
\* In every reachable state slots, snippets and tree hold well-formed entries,
\* and no index has left the array.
THEOREM TypeCorrect == Spec => []TypeOK
  BY NaturalSetsHold, TypeCorrectGiven

\* In every reachable state the snippets cut the used slots into consecutive
\* runs, the last of which waits for its first flush.
THEOREM AlwaysPartition == Spec => []SnippetsPartition
  BY NaturalSetsHold, AlwaysPartitionGiven

\* do_flush takes exactly the bytes of its range from dirty to flushed,
\* however it splits stores, as FlushExact says.
THEOREM AlwaysFlushExact == Spec => FlushExact
  BY NaturalSetsHold, AlwaysFlushExactGiven

\* A fence, the repair of do_fence, drops exactly the flushed bytes and leaves
\* every box around its stores, whatever was split before.
THEOREM AlwaysFenceRepairs == Spec => FenceRepairs
  BY NaturalSetsHold, AlwaysFenceRepairsGiven

\* SET_CLEAN takes exactly the bytes in its range out of the dirty and of the
\* flushed ones, but for what is behind the range of a store it cuts in two.
THEOREM AlwaysCleanExact == Spec => CleanExact
  BY NaturalSetsHold, AlwaysCleanExactGiven

\* Only a store makes bytes dirty, and only dirty bytes become flushed, but
\* for what SET_CLEAN left behind its range without a state: no order of
\* operations gets a byte forward by another way, boxes trusted or not.
THEOREM AlwaysStatesAdvance == Spec => StatesAdvance
  BY NaturalSetsHold, AlwaysStatesAdvanceGiven

\* When ranges hold stores entirely or not at all, the bounding boxes that
\* do_flush and SET_CLEAN filter with can always be trusted.
THEOREM AlwaysCovered == Granular /\ Spec => []Covered
  BY NaturalSetsHold, AlwaysCoveredGiven

\* Each operation of the tracker, whole-snippet marks, boxes, slots and nodes
\* included, does to the bytes exactly what PersistBytes says of it, for every
\* program whose ranges are Granular, and every size of the array.
THEOREM AlwaysOperationsExact == Granular /\ Spec => OperationsExact
  BY NaturalSetsHold, AlwaysOperationsExactGiven

\* The tracker is an implementation of PersistBytes under the mapping of its
\* slots, snippets and nodes to bytes.
THEOREM RefinesPersistBytes == Granular /\ Spec => ImplementsPersistBytes
  BY NaturalSetsHold, RefinesPersistBytesGiven

\* The time and order records of trace_pmem_store, do_fence and
\* ORDER_GUARANTEE are well formed in every reachable state, over any number of
\* strands, and what a strand leaves aside is a set of addresses.
THEOREM AlwaysOrdersTypeOK == OrdersSpec => []OrdersTypeOK
  BY NaturalSetsHold, AlwaysOrdersTypeOKGiven

\* For any orders, ranges and strands the check of do_flush registers every
\* flush of dirty bytes of b made while bytes of a, stored in an earlier
\* strand, are not persistent: stores are left aside only by NEW_STRAND, whose
\* id is then above zero, and the flush overlaps b.
THEOREM AlwaysCrossStrandReported == OrdersSpec => CrossStrandReported
  BY NaturalSetsHold, AlwaysCrossStrandReportedGiven

\* In every strand the pre-filters of do_flush and SET_CLEAN can be trusted,
\* though NEW_STRAND hands the box of the old tree on to the new one.
THEOREM AlwaysStrandCovered == Granular /\ OrdersSpec => []StrandCovered
  BY NaturalSetsHold, AlwaysStrandCoveredGiven

\* The inclusive comparisons and the bounding boxes of do_fence only err by
\* ending too much: a region of which a fence makes a byte persistent always
\* has its time ended, in whatever strand, slot or node that byte was.
THEOREM AlwaysFenceEndsRecords == Granular /\ OrdersSpec => FenceEndsRecords
  BY NaturalSetsHold, AlwaysFenceEndsRecordsGiven

\* For any number of orders, strands and fences, check_pmem_order reports
\* exactly the orders whose b was last written before a was persistent, unless
\* the records of the order were blurred.
THEOREM AlwaysOrderExact == Granular /\ OrdersSpec => []OrderExact
  BY NaturalSetsHold, AlwaysOrderExactGiven

\* Epochs are well-typed in every order of requests and operations: a count of
\* remove_tx is never zero or negative, what epoch_end reports are addresses,
\* and so are the bytes it still has to report.
THEOREM EpochsTypeCorrect == EpochsSpec => []EpochsTypeOK
  BY NaturalSetsHold, EpochsTypeCorrectGiven

\* README.md, epoch_durability: when ranges are Granular, the end of an epoch
\* reports every byte that was stored in it, or since it was last reported,
\* and is not persistent, wherever do_fence and the overflow of the array have
\* put its store; nothing persistent; and no store a second time.
THEOREM AlwaysEndComplete == Granular /\ EpochsSpec => EndComplete
  BY NaturalSetsHold, AlwaysEndCompleteGiven

\* For any program whose stores do not straddle cache lines, any mixture of
\* plain, guarded, atomic and vector stores, write-backs and barriers: once the
\* calls that pmc_instrument put behind a statement are made, the tool has the
\* same bytes dirty and flushed as the instructions meant, those set aside as
\* blurred excepted; without --isa-rec the instructions persist nothing.
THEOREM AlwaysTraceExact == Granular /\ InstrumentSpec => []TraceExact
  BY NaturalSetsHold, AlwaysTraceExactGiven

\* Under every set of options the register of overwrites never holds more than
\* MAX_MULT_OVERWRITES events, whatever is overwritten, and every event lies in
\* the address space.
THEOREM OptionsTypeCorrect == OptionsSpec => []OptionsTypeOK
  BY NaturalSetsHold, FiniteRulesHold, OptionsTypeCorrectGiven

\* Until a detailed listing, with --mult-stores no two tracked stores share a
\* byte and with --tree-reorganization no two nodes of the tree do: a store
\* finds, behind the boxes, every older one that it overlaps, and a fence moves
\* or merges what flushes and SET_CLEAN have left.
THEOREM AlwaysOneStorePerByte ==
  Granular /\ NoneInside /\ OptionsSpec => []OneStorePerByte
  BY NaturalSetsHold, FiniteRulesHold, AlwaysOneStorePerByteGiven
============================================================================
