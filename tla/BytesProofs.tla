---------------------------- MODULE BytesProofs ----------------------------
(* Proofs about the bytes behind the bookkeeping of stores: SET_CLEAN, the *)
(* properties of single operations, and the refinement of PersistBytes.    *)
EXTENDS FlushProofs

\* Zenon is quicker on most steps and SMT does arithmetic.
USE ZenonT(3), SMTT(15), ZenonT(20)
----------------------------------------------------------------------------
\* What SET_CLEAN makes of the slots and nodes: those that it meets are cut,
\* and those it takes into use hold what lies behind the range.
LEMMA CleanSlotsNodes ==
  ASSUME Layout, NEW r \in Cleans, SET_CLEAN(r)
  PROVE  /\ LiveSlots \subseteq LiveSlots'
         /\ \A i \in LiveSlots :
              array'[i] = IF i \in CleanSlots(r) THEN Cut(array[i], r) ELSE array[i]
         /\ \A i : AllFlushed(i)' <=> AllFlushed(i)
         /\ \A i \in LiveSlots' \ LiveSlots :
              /\ ~AllFlushed(i) /\ i \in 0 .. MAX_ARRAY_NUM - 1
              /\ \E p \in Pierced(r) : array'[i] = BeyondIn(array[i], array[p], r)
         /\ \A d \in tree' : \/ \E e \in tree : d \in CleanNode(e, r)
                             \/ \E p \in Pierced(r) : d = BeyondIn(ZeroStore, array[p], r)
         /\ \A e \in tree : CleanNode(e, r) \subseteq tree'
         /\ Last' = Last
         /\ \A k \in 1 .. Last : /\ snippets'[k].min_add = snippets[k].min_add
                                 /\ snippets'[k].max_add = snippets[k].max_add
                                 /\ \A i \in Slots(snippets'[k]) :
                                      i \in Slots(snippets[k]) \/ i \in LiveSlots' \ LiveSlots
         /\ Pierced(r) = {} => LiveSlots' = LiveSlots
<1> DEFINE P == Pierced(r)
           n == IndexAfter(P)
           c == Current.index
<1>1. IsRange(r) /\ MAX_ARRAY_NUM \in Nat
  BY Ranges
<1>2. P \subseteq CleanSlots(r) /\ CleanSlots(r) \subseteq LiveSlots /\ LiveSlots \subseteq 0 .. MAX_ARRAY_NUM - 1
  BY LiveSlotsType DEF Pierced, CleanSlots
<1>3. P \subseteq Nat /\ IsFiniteSet(P)
  <2>1. P \subseteq 0 .. MAX_ARRAY_NUM - 1 /\ MAX_ARRAY_NUM - 1 \in Int
    <3>1. MAX_ARRAY_NUM - 1 \in Int
      BY <1>1
    <3> HIDE DEF P
    <3>2. P \subseteq 0 .. MAX_ARRAY_NUM - 1
      BY <1>2, ZenonT(60)
    <3> QED
      BY <3>1, <3>2
  <2>2. IsFiniteSet(P)
    BY <2>1, BoundedFinite
  <2> QED
    BY <2>1, <2>2
<1>4. n \in 0 .. MAX_ARRAY_NUM /\ n >= c /\ c \in 0 .. MAX_ARRAY_NUM
  BY <1>3, IndexAfterType, CurrentSnippet
<1>5. /\ \A p \in P : SlotOf(P, p) \in Nat /\ SlotOf(P, p) >= c
      /\ \A i \in c .. n - 1 : \E p \in P : SlotOf(P, p) = i
  BY <1>3, Appended
<1>6. /\ Last' = Last /\ Current'.index = n
      /\ \A k \in 1 .. Last : /\ snippets'[k].start_index = snippets[k].start_index
                              /\ snippets'[k].flushed_num = snippets[k].flushed_num
                              /\ snippets'[k].min_add = snippets[k].min_add
                              /\ snippets'[k].max_add = snippets[k].max_add
                              /\ snippets'[k].index = IF k = Last THEN n ELSE snippets[k].index
  <2>1. /\ Last \in 1 .. Last /\ \A k \in 1 .. Last : snippets[k] \in Snippet
        /\ snippets \in Seq(Snippet) /\ DOMAIN snippets = 1 .. Last
    BY CurrentSnippet DEF Layout, TypeOK, Last
  <2>2. snippets' = [snippets EXCEPT ![Last].index = n]
    BY DEF SET_CLEAN
  <2> HIDE DEF n
  <2>3. /\ Last' = Last /\ snippets'[Last] = [snippets[Last] EXCEPT !.index = n]
        /\ \A k \in 1 .. Last : k # Last => snippets'[k] = snippets[k]
    BY <2>1, <2>2 DEF Last
  <2>4. \A k \in 1 .. Last : /\ snippets'[k].start_index = snippets[k].start_index
                              /\ snippets'[k].flushed_num = snippets[k].flushed_num
                              /\ snippets'[k].min_add = snippets[k].min_add
                              /\ snippets'[k].max_add = snippets[k].max_add
                              /\ snippets'[k].index = IF k = Last THEN n ELSE snippets[k].index
    <3> TAKE k \in 1 .. Last
    <3>1. snippets[k] \in Snippet
      BY <2>1
    <3>2. CASE k = Last
      <4>1. snippets'[k] = [snippets[k] EXCEPT !.index = n]
        BY <2>3, <3>2
      <4> QED
        BY <3>1, <3>2, <4>1 DEF Snippet
    <3>3. CASE k # Last
      <4>1. snippets'[k] = snippets[k]
        BY <2>3, <3>3
      <4> QED
        BY <3>3, <4>1
    <3> QED
      BY <3>2, <3>3
  <2>5. Current' = snippets'[Last]
    BY <2>3 DEF Current
  <2> QED
    BY <2>1, <2>3, <2>4, <2>5
<1>7. /\ LiveSlots' = 0 .. n - 1 /\ LiveSlots = 0 .. c - 1 /\ LiveSlots \subseteq LiveSlots'
      /\ \A i : AllFlushed(i)' <=> AllFlushed(i)
      /\ \A i \in LiveSlots' \ LiveSlots : ~AllFlushed(i)
      /\ \A k \in 1 .. Last : \A i \in Slots(snippets'[k]) :
           i \in Slots(snippets[k]) \/ (k = Last /\ i \in LiveSlots' \ LiveSlots)
  <2> HIDE DEF n
  <2> QED
    BY <1>4, <1>6, Grown DEF LiveSlots
<1>8. array' = [i \in 0 .. MAX_ARRAY_NUM - 1 |->
                  IF i \in CleanSlots(r) THEN Cut(array[i], r)
                  ELSE IF \E p \in P : SlotOf(P, p) = i
                  THEN BeyondIn(array[i], array[CHOOSE p \in P : SlotOf(P, p) = i], r)
                  ELSE array[i]]
  BY DEF SET_CLEAN, Layout, TypeOK
<1> HIDE DEF P, n
<1>9. \A i \in LiveSlots :
        array'[i] = IF i \in CleanSlots(r) THEN Cut(array[i], r) ELSE array[i]
  <2> TAKE i \in LiveSlots
  <2>1. i \in 0 .. MAX_ARRAY_NUM - 1 /\ i < c
    BY <1>2, <1>4, <1>7
  <2>2. ~\E p \in P : SlotOf(P, p) = i
    BY <1>4, <1>5, <2>1
  <2> QED
    BY <1>8, <2>1, <2>2
<1>10. ASSUME NEW i \in LiveSlots' \ LiveSlots
       PROVE  i \in 0 .. MAX_ARRAY_NUM - 1 /\ \E p \in P : array'[i] = BeyondIn(array[i], array[p], r)
  <2>1. i \in c .. n - 1 /\ i \in 0 .. MAX_ARRAY_NUM - 1 /\ i \notin CleanSlots(r)
    <3>1. LiveSlots' = 0 .. n - 1 /\ LiveSlots = 0 .. c - 1
      BY <1>7
    <3>2. i \in c .. n - 1 /\ i \in 0 .. MAX_ARRAY_NUM - 1
      BY <1>1, <1>4, <3>1
    <3> QED
      BY <1>2, <3>2
  <2>2. \E p \in P : SlotOf(P, p) = i
    BY <1>5, <2>1
  <2> DEFINE p == CHOOSE p \in P : SlotOf(P, p) = i
  <2>3. p \in P
    BY <2>2
  <2>4. array'[i] = BeyondIn(array[i], array[p], r)
    BY <1>8, <2>1, <2>2
  <2> HIDE DEF p
  <2> QED
    BY <2>1, <2>3, <2>4
<1>11. /\ \A d \in tree' : \/ \E e \in tree : d \in CleanNode(e, r)
                           \/ \E p \in P : d = BeyondIn(ZeroStore, array[p], r)
       /\ \A e \in tree : CleanNode(e, r) \subseteq tree'
  <2> DEFINE Q == {q \in P : SlotOf(P, q) >= MAX_ARRAY_NUM}
             A == UNION {CleanNode(e, r) : e \in tree}
             B == {BeyondIn(ZeroStore, array[p], r) : p \in Q}
  <2>1. tree' = A \cup B
    BY DEF SET_CLEAN, P
  <2>2. Q \subseteq P
    OBVIOUS
  <2> HIDE DEF Q
  <2>3. \A e \in A : \E d \in tree : e \in CleanNode(d, r)
    OBVIOUS
  <2>4. \A e \in B : \E p \in P : e = BeyondIn(ZeroStore, array[p], r)
    BY <2>2
  <2>5. \A e \in tree : CleanNode(e, r) \subseteq A
    OBVIOUS
  <2> HIDE DEF A, B
  <2> QED
    BY <2>1, <2>3, <2>4, <2>5
<1>12. P = {} => LiveSlots' = LiveSlots
  BY <1>4, <1>5, <1>7
<1> QED
  BY <1>6, <1>7, <1>9, <1>10, <1>11, <1>12 DEF P

\* What SET_CLEAN leaves of a store has a size, and lies in the store.
LEMMA CutFacts ==
  ASSUME NEW e \in Store, NEW r, IsRange(r), Overlap(r, e)
  PROVE  LET d == Cut(e, r)
         IN  /\ e.size > 0 => d.size > 0
             /\ d.state = e.state /\ d.inEpoch = e.inEpoch
             /\ d.is_delete <=> e.is_delete \/ Within(e, r)
             /\ \A b : b \in Bytes(d) => b \in Bytes(e)
             /\ e.addr <= d.addr /\ End(d) <= End(e)
             /\ ~Within(e, r) => \A b : b \in Bytes(d) => b \notin Bytes(r)
             /\ ~Within(e, r) => \A b : b \in Bytes(e) /\ b \notin Bytes(r) =>
                  b \in Bytes(d) \/ (e.addr < r.addr /\ End(e) > End(r) /\ b \in Bytes(RightPart(e, r)))
<1> DEFINE d == Cut(e, r)
<1>1. /\ e.addr \in Nat /\ e.size \in Nat /\ r.addr \in Nat /\ r.size \in Nat
      /\ End(e) \in Nat /\ End(r) \in Nat /\ End(e) = e.addr + e.size
      /\ e.addr < End(r) /\ r.addr < End(e)
      /\ e \in [addr : Nat, size : Nat, state : State, is_delete : BOOLEAN, inEpoch : BOOLEAN]
  BY DEF Store, IsRange, End, Overlap
<1>2. /\ \A b : b \in Bytes(LeftPart(e, r)) <=> b \in Bytes(e) /\ b < r.addr
      /\ \A b : b \in Bytes(RightPart(e, r)) <=> b \in Bytes(e) /\ b >= End(r)
      /\ \A b : b \in Bytes(e) => b \in Bytes(r) \/ b < r.addr \/ b >= End(r)
      /\ \A b : b \in Bytes(r) => ~(b < r.addr) /\ ~(b >= End(r))
  BY <1>1, PartsBytes
<1>3. \A b \in Bytes(e) : b \in Int /\ e.addr <= b /\ b < End(e)
  BY <1>1 DEF Bytes
<1>4. CASE e.addr < r.addr
  <2>1. d = LeftPart(e, r)
    BY <1>4 DEF Cut
  <2>2. /\ d.addr = e.addr /\ d.size = r.addr - e.addr /\ d.state = e.state
        /\ d.is_delete = e.is_delete /\ d.inEpoch = e.inEpoch
    BY <1>1, <2>1 DEF LeftPart
  <2>3. ~Within(e, r) /\ End(d) = r.addr
    BY <1>1, <1>4, <2>2 DEF Within, End
  <2> HIDE DEF d
  <2>4. /\ e.size > 0 => d.size > 0
        /\ e.addr <= d.addr /\ End(d) <= End(e)
    BY <1>1, <1>4, <2>2, <2>3
  <2>5. \A b : b \in Bytes(d) => b \in Bytes(e) /\ b \notin Bytes(r)
    BY <1>2, <2>1
  <2>6. \A b : b \in Bytes(e) /\ b \notin Bytes(r) =>
          b \in Bytes(d) \/ (End(e) > End(r) /\ b \in Bytes(RightPart(e, r)))
    BY <1>1, <1>2, <1>3, <2>1
  <2>7. d.state = e.state /\ d.inEpoch = e.inEpoch /\ (d.is_delete <=> e.is_delete)
    BY <2>2
  <2> QED
    BY <1>4, <2>3, <2>4, <2>5, <2>6, <2>7 DEF d
<1>5. CASE ~(e.addr < r.addr) /\ End(e) > End(r)
  <2>1. d = RightPart(e, r)
    BY <1>5 DEF Cut
  <2>2. /\ d.addr = End(r) /\ d.size = End(e) - End(r) /\ d.state = e.state
        /\ d.is_delete = e.is_delete /\ d.inEpoch = e.inEpoch
    BY <1>1, <2>1 DEF RightPart
  <2>3. ~Within(e, r) /\ End(d) = End(e)
    <3>1. End(d) = End(r) + (End(e) - End(r))
      BY <2>2 DEF End
    <3> HIDE DEF d
    <3> QED
      BY <1>1, <1>5, <3>1 DEF Within
  <2> HIDE DEF d
  <2>4. /\ e.size > 0 => d.size > 0
        /\ e.addr <= d.addr /\ End(d) <= End(e)
    BY <1>1, <1>5, <2>2, <2>3
  <2>5. \A b : b \in Bytes(d) => b \in Bytes(e) /\ b \notin Bytes(r)
    BY <1>2, <2>1
  <2>6. \A b : b \in Bytes(e) /\ b \notin Bytes(r) => b \in Bytes(d)
    BY <1>1, <1>2, <1>3, <1>5, <2>1
  <2>7. d.state = e.state /\ d.inEpoch = e.inEpoch /\ (d.is_delete <=> e.is_delete)
    BY <2>2
  <2> QED
    BY <2>3, <2>4, <2>5, <2>6, <2>7 DEF d
<1>6. CASE ~(e.addr < r.addr) /\ ~(End(e) > End(r))
  <2>1. d = [e EXCEPT !.is_delete = TRUE]
    BY <1>6 DEF Cut
  <2>2. /\ d.addr = e.addr /\ d.size = e.size /\ d.state = e.state
        /\ d.is_delete /\ d.inEpoch = e.inEpoch
    BY <1>1, <2>1
  <2> HIDE DEF d
  <2>3. Within(e, r) /\ Bytes(d) = Bytes(e) /\ End(d) = End(e) /\ e.addr <= d.addr /\ End(d) <= End(e)
    BY <1>1, <1>6, <2>2 DEF Within, End, Bytes
  <2> QED
    BY <2>2, <2>3 DEF d
<1> QED
  BY <1>4, <1>5, <1>6

\* A part behind the range has a size.
LEMMA BeyondInFacts ==
  ASSUME NEW old \in Store, NEW e \in Store, NEW r, IsRange(r), End(e) > End(r)
  PROVE  LET d == BeyondIn(old, e, r)
         IN  /\ d.size > 0 /\ d.state = old.state /\ d.is_delete = old.is_delete
             /\ Bytes(d) = Bytes(RightPart(e, r))
<1> DEFINE d == BeyondIn(old, e, r)
<1>1. /\ End(e) \in Nat /\ End(r) \in Nat
      /\ e \in [addr : Nat, size : Nat, state : State, is_delete : BOOLEAN, inEpoch : BOOLEAN]
      /\ old \in [addr : Nat, size : Nat, state : State, is_delete : BOOLEAN, inEpoch : BOOLEAN]
  BY DEF Store, IsRange, End
<1>2. /\ d.addr = End(r) /\ d.size = End(e) - End(r) /\ d.state = old.state
      /\ d.is_delete = old.is_delete
  BY <1>1 DEF BeyondIn
<1>3. RightPart(e, r).addr = End(r) /\ RightPart(e, r).size = End(e) - End(r)
  BY <1>1 DEF RightPart
<1>4. Bytes(d) = Bytes(RightPart(e, r))
  BY <1>2, <1>3 DEF Bytes, End
<1> HIDE DEF d
<1>5. d.size > 0
  BY <1>1, <1>2
<1> QED
  BY <1>2, <1>4, <1>5 DEF d
----------------------------------------------------------------------------
\* No operation tracks an empty store.
LEMMA NextSized == Layout /\ Sized /\ [Next]_vars => Sized'
<1> SUFFICES ASSUME Layout, Sized, [Next]_vars
             PROVE  Sized'
  OBVIOUS
<1>1. ASSUME NEW q \in Flushes, do_flush(q)
      PROVE  Sized'
  <2> DEFINE f == flush_info(q)
  <2>1. /\ IsRange(f) /\ array' = FlushArray(f) /\ snippets' = FlushSnippets(f)
        /\ tree' = FlushTree(f)
    BY <1>1, Ranges DEF do_flush, FlushRanges
  <2> HIDE DEF f
  <2>2. \A p \in Remainders(f) : Remainder(p, f).size > 0
    BY <2>1, RemainderFacts
  <2>3. ASSUME NEW i \in LiveSlots
        PROVE  array'[i].size > 0
    <3>1. CASE i \in FreshSlots(f)
      <4>1. array'[i] = FlushedPart(array[i], f)
        BY <2>1, <3>1, FlushSlots
      <4>2. array[i] \in Store /\ Overlap(f, array[i])
        BY <2>1, <3>1, FreshFacts
      <4> QED
        BY <2>1, <4>1, <4>2, FlushedPartFacts DEF Sized
    <3>2. CASE array'[i] = array[i]
      BY <3>2 DEF Sized
    <3>3. CASE array'[i] = [array[i] EXCEPT !.state = "FLUSHED"]
      <4>1. array'[i].size = array[i].size
        BY <3>3, Sorts DEF Store
      <4> QED
        BY <4>1 DEF Sized
    <3> QED
      BY <2>1, <3>1, <3>2, <3>3, FlushSlots
  <2>4. \A i \in LiveSlots' : array'[i].size > 0
    <3> TAKE i \in LiveSlots'
    <3>1. CASE i \in LiveSlots
      BY <2>3, <3>1
    <3>2. CASE i \notin LiveSlots
      <4>1. PICK p \in Remainders(f) : array'[i] = Remainder(p, f)
        BY <2>1, <3>2, FlushSlots
      <4> QED
        BY <2>2, <4>1
    <3> QED
      BY <3>1, <3>2
  <2>5. \A d \in tree' : d.size > 0
    <3> TAKE d \in tree'
    <3>1. CASE \E p \in Remainders(f) : d = Remainder(p, f)
      BY <2>2, <3>1
    <3>2. ASSUME NEW e \in tree, d = e \/ d \in FlushNode(e, f)
          PROVE  d.size > 0
      BY <2>1, <3>2, Sorts, NodeParts DEF Sized
    <3> QED
      BY <2>1, <3>1, <3>2, FlushNodes
  <2> QED
    BY <2>4, <2>5 DEF Sized
<1>2. ASSUME do_fence
      PROVE  Sized'
  <2>1. \A e \in tree' : e \in tree \/ \E i \in LiveSlots : e = array[i]
    BY <1>2 DEF do_fence, Moved
  <2>2. LiveSlots' = {}
    BY <1>2, FenceBytes
  <2> QED
    BY <2>1, <2>2 DEF Sized
<1>3. ASSUME NEW r \in Cleans, SET_CLEAN(r)
      PROVE  Sized'
  <2>1. IsRange(r)
    BY Ranges
  <2>2. \A p \in Pierced(r) : p \in LiveSlots /\ array[p] \in Store /\ End(array[p]) > End(r)
    BY Sorts DEF Pierced, CleanSlots
  <2>3. \A i \in LiveSlots : array'[i].size > 0
    <3> TAKE i \in LiveSlots
    <3>1. CASE i \in CleanSlots(r)
      <4>1. array'[i] = Cut(array[i], r)
        BY <1>3, <3>1, CleanSlotsNodes
      <4>2. array[i] \in Store /\ Overlap(r, array[i])
        BY <3>1, Sorts DEF CleanSlots
      <4> QED
        BY <2>1, <4>1, <4>2, CutFacts DEF Sized
    <3>2. CASE i \notin CleanSlots(r)
      <4>1. array'[i] = array[i]
        BY <1>3, <3>2, CleanSlotsNodes
      <4> QED
        BY <4>1 DEF Sized
    <3> QED
      BY <3>1, <3>2
  <2>4. ASSUME NEW i \in LiveSlots' \ LiveSlots
        PROVE  array'[i].size > 0
    <3>1. PICK p \in Pierced(r) : array'[i] = BeyondIn(array[i], array[p], r)
      BY <1>3, CleanSlotsNodes
    <3>2. array[i] \in Store
      BY <1>3, CleanSlotsNodes, LiveSlotsType
    <3> QED
      BY <2>1, <2>2, <3>1, <3>2, BeyondInFacts
  <2>5. \A d \in tree' : d.size > 0
    <3> TAKE d \in tree'
    <3>1. ASSUME NEW p \in Pierced(r), d = BeyondIn(ZeroStore, array[p], r)
          PROVE  d.size > 0
      BY <2>1, <2>2, <3>1, BeyondInFacts, ZeroStoreType
    <3>2. ASSUME NEW e \in tree, d \in CleanNode(e, r)
          PROVE  d.size > 0
      <4>1. e \in Store /\ e.size > 0
        BY Sorts DEF Sized
      <4>2. CASE d = e
        BY <4>1, <4>2
      <4>3. CASE d = Cut(e, r) /\ Overlap(e, r)
        <5>1. Overlap(r, e)
          BY <4>3 DEF Overlap
        <5> QED
          BY <2>1, <4>1, <4>3, <5>1, CutFacts
      <4>4. CASE d = BeyondIn(ZeroStore, e, r) /\ End(e) > End(r)
        BY <2>1, <4>1, <4>4, BeyondInFacts, ZeroStoreType
      <4> QED
        BY <3>2, <4>2, <4>3, <4>4 DEF CleanNode
    <3> QED
      BY <1>3, <3>1, <3>2, CleanSlotsNodes
  <2> QED
    BY <2>3, <2>4, <2>5 DEF Sized
<1>4. CASE UNCHANGED vars
  BY <1>4 DEF vars, Sized, LiveSlots, Current, Last
<1> QED
  BY <1>1, <1>2, <1>3, <1>4, StoreBytes, StatsBytes DEF Next

\* There is no store to begin with.
LEMMA InitSized == Init => Sized
<1> SUFFICES ASSUME Init
             PROVE  Sized
  OBVIOUS
<1>1. Last = 1 /\ Current = init_snippet_info(0)
  BY DEF Init, Last, Current
<1>2. LiveSlots = {}
  BY <1>1 DEF LiveSlots, init_snippet_info
<1> QED
  BY <1>2 DEF Init, Sized

\* It holds of the empty array and tree of the start.
LEMMA InitByteInv == NaturalSets /\ Init => ByteInv
BY InitLayout, InitSized DEF ByteInv

\* Every operation keeps it.
LEMMA NextByteInv == ByteInv /\ [Next]_vars => ByteInv'
BY NextLayout, NextSized DEF ByteInv
----------------------------------------------------------------------------
\* What a flush does to the bytes, for all programs, sizes and splits: this is
\* do_flush with its whole-snippet, per-slot and per-node paths.
LEMMA FlushIsExact ==
  ASSUME ByteInv, NEW q \in Flushes, Covered, SplitsCurrentOnly(flush_info(q)), do_flush(q)
  PROVE  LET f == flush_info(q)
         IN  /\ DirtyBytes' = DirtyBytes \ Bytes(f)
             /\ FlushedBytes \cup (DirtyBytes \cap Bytes(f)) \subseteq FlushedBytes'
             /\ FlushedBytes' \subseteq
                  FlushedBytes \cup ((DirtyBytes \cup StatelessBytes) \cap Bytes(f))
             /\ out'.redundant =>
                  (FlushedBytes \cup StatelessBytes) \cap Bytes(f) # {} \/ SplitsNode(f)
             /\ Current.index + Cardinality(Remainders(f)) <= MAX_ARRAY_NUM => Covered'
<1> DEFINE f == flush_info(q)
<1>1. /\ IsRange(f) /\ array' = FlushArray(f) /\ snippets' = FlushSnippets(f)
      /\ tree' = FlushTree(f) /\ out' = FlushEvents(f) /\ box' = box
      /\ SplitsCurrentOnly(f) /\ Layout /\ Sized
  BY Ranges DEF do_flush, FlushRanges, ByteInv
<1>2. Layout'
  BY FlushLayout DEF ByteInv
<1> HIDE DEF f
<1>3. DirtyBytes' = DirtyBytes \ Bytes(f)
  <2>1. \A b : b \in DirtyBytes' <=> b \in DirtyBytes /\ b \notin Bytes(f)
    BY <1>1, FlushAdds, FlushKeeps
  <2> QED
    BY <2>1
<1>4. FlushedBytes \cup (DirtyBytes \cap Bytes(f)) \subseteq FlushedBytes'
  BY <1>1, FlushKeeps
<1>5. FlushedBytes' \subseteq FlushedBytes \cup ((DirtyBytes \cup StatelessBytes) \cap Bytes(f))
  BY <1>1, FlushAdds
<1>6. out'.redundant => (FlushedBytes \cup StatelessBytes) \cap Bytes(f) # {} \/ SplitsNode(f)
  BY <1>1, FlushRedundant
<1>7. Current.index + Cardinality(Remainders(f)) <= MAX_ARRAY_NUM => Covered'
  BY <1>1, <1>2, FlushCovers
<1> QED
  BY <1>3, <1>4, <1>5, <1>6, <1>7 DEF f

\* do_flush takes exactly the bytes of its range from dirty to flushed,
\* however it splits stores, as FlushExact says.
LEMMA AlwaysFlushExactGiven == NaturalSets /\ Spec => FlushExact
<1>1. ByteInv /\ [Next]_vars => [\A q \in Flushes :
        LET f == flush_info(q)
        IN  Covered /\ SplitsCurrentOnly(f) /\ do_flush(q) =>
              /\ DirtyBytes' = DirtyBytes \ Bytes(f)
              /\ FlushedBytes \cup (DirtyBytes \cap Bytes(f)) \subseteq FlushedBytes'
              /\ FlushedBytes' \subseteq
                   FlushedBytes \cup ((DirtyBytes \cup StatelessBytes) \cap Bytes(f))
              /\ out'.redundant =>
                   (FlushedBytes \cup StatelessBytes) \cap Bytes(f) # {} \/ SplitsNode(f)
              /\ Current.index + Cardinality(Remainders(f)) <= MAX_ARRAY_NUM => Covered']_vars
  BY FlushIsExact
<1> QED
  BY <1>1, InitByteInv, NextByteInv, PTL DEF Spec, FlushExact

\* A fence, the repair of do_fence, drops exactly the flushed bytes and leaves
\* every box around its stores, whatever was split before.
LEMMA AlwaysFenceRepairsGiven == NaturalSets /\ Spec => FenceRepairs
<1>1. ByteInv /\ [Next]_vars =>
        [do_fence => DirtyBytes' = DirtyBytes /\ FlushedBytes' = {} /\ Covered']_vars
  BY FenceBytes DEF ByteInv
<1> QED
  BY <1>1, InitByteInv, NextByteInv, PTL DEF Spec, FenceRepairs
----------------------------------------------------------------------------
\* What lies behind the range of the stores that SET_CLEAN cuts in two.
LEMMA InBeyond ==
  ASSUME NEW r, NEW b
  PROVE  b \in Beyond(r) <=>
           \/ \E p \in Pierced(r) : b \in Bytes(RightPart(array[p], r))
           \/ \E e \in tree : e.addr < r.addr /\ End(e) > End(r) /\ b \in Bytes(RightPart(e, r))
BY DEF Beyond, BytesOf

\* SET_CLEAN gives no byte a state that it did not have, but behind the range,
\* and where the boxes cover the stores it leaves no state to a byte in the
\* range; bytes outside keep theirs.
LEMMA CleanBytes ==
  ASSUME Layout, NEW r \in Cleans, SET_CLEAN(r), NEW st, NEW b
  PROVE  /\ b \in BytesIn(st)' =>
              b \in Beyond(r) \/ (b \in BytesIn(st) /\ (Covered => b \notin Bytes(r)))
         /\ b \in BytesIn(st) /\ b \notin Bytes(r) => b \in BytesIn(st)' \/ b \in Beyond(r)
<1> DEFINE was == (\E i : InSlot(i, st, b)) \/ (\E e : InNode(e, st, b))
           now == (\E i : InSlot(i, st, b)') \/ (\E e : InNode(e, st, b)')
<1>1. IsRange(r) /\ r.addr \in Nat /\ r.size \in Nat
  BY Ranges DEF IsRange
<1>2. \A p \in Pierced(r) : array[p] \in Store /\ End(array[p]) > End(r)
  BY Sorts DEF Pierced, CleanSlots
<1>3. ASSUME NEW i \in LiveSlots
      PROVE  /\ i \in LiveSlots' /\ array[i] \in Store
             /\ array[i].addr \in Nat /\ array[i].size \in Nat
             /\ i \in CleanSlots(r) => /\ array'[i] = Cut(array[i], r) /\ Overlap(r, array[i])
                                       /\ ~array[i].is_delete /\ Effective(i)' = Effective(i)
             /\ i \notin CleanSlots(r) => array'[i] = array[i] /\ Effective(i)' = Effective(i)
  <2>1. /\ i \in LiveSlots' /\ array[i] \in Store
        /\ array[i].addr \in Nat /\ array[i].size \in Nat
        /\ array'[i] = IF i \in CleanSlots(r) THEN Cut(array[i], r) ELSE array[i]
    BY CleanSlotsNodes, Sorts
  <2>2. AllFlushed(i)' <=> AllFlushed(i)
    BY CleanSlotsNodes
  <2>3. i \in CleanSlots(r) => Overlap(r, array[i]) /\ ~array[i].is_delete
    BY DEF CleanSlots
  <2>4. array'[i].state = array[i].state
    BY <1>1, <2>1, <2>3, CutFacts
  <2>5. Effective(i)' = Effective(i)
    BY <2>2, <2>4 DEF Effective
  <2> QED
    BY <2>1, <2>3, <2>5
<1>4. ASSUME NEW i \in LiveSlots, InSlot(i, st, b)'
      PROVE  was /\ (Covered => b \notin Bytes(r))
  <2>1. ~array'[i].is_delete /\ Effective(i)' = st /\ b \in Bytes(array'[i])
    BY <1>4 DEF InSlot, Bytes, End
  <2>2. CASE i \in CleanSlots(r)
    <3>1. b \in Bytes(array[i]) /\ b \notin Bytes(r)
      BY <1>1, <1>3, <2>1, <2>2, CutFacts
    <3>2. InSlot(i, st, b)
      BY <1>3, <2>1, <2>2, <3>1 DEF InSlot
    <3> QED
      BY <3>1, <3>2
  <2>3. CASE i \notin CleanSlots(r)
    <3>1. InSlot(i, st, b)
      BY <1>3, <2>1, <2>3 DEF InSlot
    <3>2. ASSUME Covered, b \in Bytes(r)
          PROVE  FALSE
      <4>1. PICK k \in 1 .. Last : i \in Slots(snippets[k])
        BY SnippetOf
      <4>2. InBox(array[i], snippets[k]) /\ snippets[k].min_add \in Nat /\ snippets[k].max_add \in Nat
        BY <3>2, <4>1, Sorts DEF Covered
      <4>3. Overlap(r, array[i]) /\ Touches(snippets[k], r)
        BY <1>1, <1>3, <2>1, <2>3, <3>2, <4>2, Shared
      <4> QED
        BY <2>3, <3>1, <4>1, <4>3 DEF CleanSlots, InSlot
    <3> QED
      BY <3>1, <3>2
  <2> QED
    BY <2>2, <2>3
<1>5. ASSUME NEW i \in LiveSlots' \ LiveSlots, InSlot(i, st, b)'
      PROVE  b \in Beyond(r)
  <2>1. b \in Bytes(array'[i])
    BY <1>5 DEF InSlot, Bytes, End
  <2>2. PICK p \in Pierced(r) : array'[i] = BeyondIn(array[i], array[p], r)
    BY CleanSlotsNodes
  <2>3. array[i] \in Store
    BY CleanSlotsNodes, LiveSlotsType
  <2>4. b \in Bytes(RightPart(array[p], r))
    BY <1>1, <1>2, <2>1, <2>2, <2>3, BeyondInFacts
  <2> QED
    BY <2>4, InBeyond
<1>6. ASSUME NEW d, InNode(d, st, b)'
      PROVE  b \in Beyond(r) \/ (was /\ b \notin Bytes(r))
  <2>1. d \in tree' /\ d.state = st /\ b \in Bytes(d)
    BY <1>6 DEF InNode, Bytes, End
  <2>2. ASSUME NEW p \in Pierced(r), d = BeyondIn(ZeroStore, array[p], r)
        PROVE  b \in Beyond(r)
    BY <1>1, <1>2, <2>1, <2>2, BeyondInFacts, ZeroStoreType, InBeyond
  <2>3. ASSUME NEW e \in tree, d \in CleanNode(e, r)
        PROVE  b \in Beyond(r) \/ (was /\ b \notin Bytes(r))
    <3>1. e \in Store /\ e.addr \in Nat /\ e.size \in Nat
      BY Sorts
    <3>2. CASE d = e /\ ~Overlap(e, r)
      <4>1. InNode(e, st, b) /\ b \notin Bytes(r)
        BY <1>1, <2>1, <3>1, <3>2, Shared DEF InNode
      <4> QED
        BY <4>1
    <3>3. CASE d = Cut(e, r) /\ Overlap(e, r) /\ ~Within(e, r)
      <4>1. Overlap(r, e)
        BY <3>3 DEF Overlap
      <4>2. b \in Bytes(e) /\ b \notin Bytes(r) /\ e.state = st
        BY <1>1, <2>1, <3>1, <3>3, <4>1, CutFacts
      <4> QED
        BY <4>2 DEF InNode
    <3>4. CASE d = BeyondIn(ZeroStore, e, r) /\ e.addr < r.addr /\ End(e) > End(r)
      BY <1>1, <2>1, <3>1, <3>4, BeyondInFacts, ZeroStoreType, InBeyond
    <3> QED
      BY <2>3, <3>2, <3>3, <3>4 DEF CleanNode
  <2> QED
    BY <2>1, <2>2, <2>3, CleanSlotsNodes
<1>7. ASSUME b \in BytesIn(st)'
      PROVE  b \in Beyond(r) \/ (b \in BytesIn(st) /\ (Covered => b \notin Bytes(r)))
  <2>1. \A i : InSlot(i, st, b)' => i \in LiveSlots'
    BY DEF InSlot
  <2>2. b \in BytesIn(st) <=> was
    BY InBytes
  <2>3. (\E i : InSlot(i, st, b)') \/ (\E e : InNode(e, st, b)')
    BY <1>7, InBytesNext
  <2> HIDE DEF was
  <2> QED
    BY <1>4, <1>5, <1>6, <2>1, <2>2, <2>3
<1>8. ASSUME b \notin Bytes(r), NEW i, InSlot(i, st, b)
      PROVE  now \/ b \in Beyond(r)
  <2>1. i \in LiveSlots /\ ~array[i].is_delete /\ Effective(i) = st /\ b \in Bytes(array[i])
    BY <1>8 DEF InSlot
  <2>2. ASSUME ~array'[i].is_delete, b \in Bytes(array'[i])
        PROVE  now
    <3>1. InSlot(i, st, b)'
      BY <1>3, <2>1, <2>2 DEF InSlot, Bytes, End
    <3> QED
      BY <3>1
  <2>3. CASE i \in CleanSlots(r)
    <3>1. ~Within(array[i], r)
      <4>1. array[i].addr \in Nat /\ End(array[i]) \in Nat /\ End(r) \in Nat
        BY <1>1, <1>3, <2>1 DEF End
      <4> QED
        BY <1>1, <1>8, <2>1, <4>1 DEF Within, Bytes
    <3>2. \/ b \in Bytes(array'[i])
          \/ array[i].addr < r.addr /\ End(array[i]) > End(r) /\ b \in Bytes(RightPart(array[i], r))
      BY <1>1, <1>3, <1>8, <2>1, <2>3, <3>1, CutFacts
    <3>3. ~array'[i].is_delete
      BY <1>1, <1>3, <2>1, <2>3, <3>1, CutFacts
    <3> HIDE DEF now
    <3> QED
      BY <2>2, <2>3, <3>2, <3>3, InBeyond DEF Pierced
  <2>4. CASE i \notin CleanSlots(r)
    BY <1>3, <2>1, <2>2, <2>4
  <2> HIDE DEF now
  <2> QED
    BY <2>3, <2>4
<1>9. ASSUME b \notin Bytes(r), NEW e, InNode(e, st, b)
      PROVE  now \/ b \in Beyond(r)
  <2>1. e \in tree /\ e.state = st /\ b \in Bytes(e) /\ e \in Store /\ e.addr \in Nat /\ e.size \in Nat
    BY <1>9, Sorts DEF InNode
  <2>2. ASSUME NEW d \in CleanNode(e, r), d.state = st, b \in Bytes(d)
        PROVE  now
    <3>1. d \in tree'
      BY <2>1, CleanSlotsNodes
    <3>2. InNode(d, st, b)'
      BY <2>2, <3>1 DEF InNode, Bytes, End
    <3> QED
      BY <3>2
  <2>3. CASE ~Overlap(e, r)
    <3>1. e \in CleanNode(e, r)
      BY <2>3 DEF CleanNode
    <3> QED
      BY <2>1, <2>2, <3>1
  <2>4. CASE Overlap(e, r)
    <3>1. ~Within(e, r) /\ Overlap(r, e)
      <4>1. End(e) \in Nat /\ End(r) \in Nat
        BY <1>1, <2>1 DEF End
      <4> QED
        BY <1>1, <1>9, <2>1, <2>4, <4>1 DEF Within, Bytes, Overlap
    <3>2. PICK d : d = Cut(e, r)
      OBVIOUS
    <3>3. d.state = e.state /\ d \in CleanNode(e, r)
      BY <1>1, <2>1, <2>4, <3>1, <3>2, CutFacts DEF CleanNode
    <3>4. \/ b \in Bytes(d)
          \/ e.addr < r.addr /\ End(e) > End(r) /\ b \in Bytes(RightPart(e, r))
      BY <1>1, <1>9, <2>1, <3>1, <3>2, CutFacts
    <3> HIDE DEF now
    <3> QED
      BY <2>1, <2>2, <3>3, <3>4, InBeyond
  <2> HIDE DEF now
  <2> QED
    BY <2>3, <2>4
<1>10. ASSUME b \in BytesIn(st), b \notin Bytes(r)
       PROVE  b \in BytesIn(st)' \/ b \in Beyond(r)
  <2>1. b \in BytesIn(st)' <=> now
    BY InBytesNext
  <2>2. (\E i : InSlot(i, st, b)) \/ (\E e : InNode(e, st, b))
    BY <1>10, InBytes
  <2> HIDE DEF now
  <2> QED
    BY <1>8, <1>9, <1>10, <2>1, <2>2
<1> QED
  BY <1>7, <1>10

\* SET_CLEAN takes exactly the bytes in its range out of the dirty and of the
\* flushed ones, but for what is behind the range of a store it cuts in two.
LEMMA AlwaysCleanExactGiven == NaturalSets /\ Spec => CleanExact
<1>1. ASSUME ByteInv, NEW r \in Cleans, Covered, SET_CLEAN(r)
      PROVE  /\ DirtyBytes' \ Beyond(r) = (DirtyBytes \ Bytes(r)) \ Beyond(r)
             /\ FlushedBytes' \ Beyond(r) = (FlushedBytes \ Bytes(r)) \ Beyond(r)
  <2>1. \A b : b \notin Beyond(r) => (b \in DirtyBytes' <=> b \in DirtyBytes /\ b \notin Bytes(r))
    BY <1>1, CleanBytes DEF ByteInv, DirtyBytes
  <2>2. \A b : b \notin Beyond(r) => (b \in FlushedBytes' <=> b \in FlushedBytes /\ b \notin Bytes(r))
    BY <1>1, CleanBytes DEF ByteInv, FlushedBytes
  <2> QED
    BY <2>1, <2>2
<1>2. ByteInv /\ [Next]_vars => [\A r \in Cleans :
        Covered /\ SET_CLEAN(r) =>
          /\ DirtyBytes' \ Beyond(r) = (DirtyBytes \ Bytes(r)) \ Beyond(r)
          /\ FlushedBytes' \ Beyond(r) = (FlushedBytes \ Bytes(r)) \ Beyond(r)]_vars
  BY <1>1
<1> QED
  BY <1>2, InitByteInv, NextByteInv, PTL DEF Spec, CleanExact

\* Only a store makes bytes dirty, and only dirty bytes become flushed, but
\* for what SET_CLEAN left behind its range without a state: no order of
\* operations gets a byte forward by another way, boxes trusted or not.
LEMMA AlwaysStatesAdvanceGiven == NaturalSets /\ Spec => StatesAdvance
<1> DEFINE onward == /\ DirtyBytes' \subseteq DirtyBytes
                     /\ FlushedBytes' \subseteq FlushedBytes \cup DirtyBytes \cup StatelessBytes
<1>1. ASSUME ByteInv, NEW q \in Flushes, do_flush(q)
      PROVE  onward
  <2>1. PICK f : f = flush_info(q)
    OBVIOUS
  <2>2. /\ IsRange(f) /\ array' = FlushArray(f) /\ snippets' = FlushSnippets(f)
        /\ tree' = FlushTree(f) /\ Layout
    BY <1>1, <2>1, Ranges DEF do_flush, FlushRanges, ByteInv
  <2> QED
    BY <2>2, FlushAdds
<1>2. ASSUME ByteInv, NEW r \in Cleans, SET_CLEAN(r), Beyond(r) = {}
      PROVE  onward
  <2>1. \A b : b \in DirtyBytes' => b \in DirtyBytes
    BY <1>2, CleanBytes DEF ByteInv, DirtyBytes
  <2>2. \A b : b \in FlushedBytes' => b \in FlushedBytes
    BY <1>2, CleanBytes DEF ByteInv, FlushedBytes
  <2> QED
    BY <2>1, <2>2
<1>3. ByteInv /\ do_fence => onward
  BY FenceBytes DEF ByteInv
<1>4. ByteInv /\ print_store_stats => onward
  BY StatsBytes DEF ByteInv
<1> HIDE DEF onward
<1>5. ByteInv /\ [Next]_vars =>
        [\/ \E r \in Stores : trace_pmem_store(r)
         \/ \E r \in Cleans : SET_CLEAN(r) /\ Beyond(r) # {}
         \/ onward]_vars
  BY <1>1, <1>2, <1>3, <1>4 DEF Next
<1>6. ByteInv /\ [Next]_vars =>
        [\/ \E r \in Stores : trace_pmem_store(r)
         \/ \E r \in Cleans : SET_CLEAN(r) /\ Beyond(r) # {}
         \/ /\ DirtyBytes' \subseteq DirtyBytes
            /\ FlushedBytes' \subseteq FlushedBytes \cup DirtyBytes \cup StatelessBytes]_vars
  BY <1>5 DEF onward
<1> QED
  BY <1>6, InitByteInv, NextByteInv, PTL DEF Spec, StatesAdvance
----------------------------------------------------------------------------
\* Under Granular, SET_CLEAN deletes stores or leaves them alone.
LEMMA GranularDeletes ==
  ASSUME GranularInv, NEW r \in Cleans
  PROVE  /\ Pierced(r) = {} /\ Beyond(r) = {}
         /\ \A i \in CleanSlots(r) : /\ Cut(array[i], r) = [array[i] EXCEPT !.is_delete = TRUE]
                                     /\ Within(array[i], r) /\ ~array[i].is_delete
         /\ \A e \in tree : CleanNode(e, r) = IF Overlap(e, r) THEN {} ELSE {e}
<1>1. Layout /\ Recorded /\ Granular /\ IsRange(r)
  BY Ranges DEF GranularInv
<1>2. ASSUME NEW e \in Store, IsStored(e), Overlap(r, e)
      PROVE  Within(e, r) /\ ~(e.addr < r.addr) /\ ~(End(e) > End(r))
  BY <1>1, <1>2, GranularWithin
<1>3. ASSUME NEW i \in CleanSlots(r)
      PROVE  /\ ~(array[i].addr < r.addr) /\ ~(End(array[i]) > End(r)) /\ Within(array[i], r)
             /\ ~array[i].is_delete
  <2>1. i \in LiveSlots /\ Overlap(r, array[i]) /\ ~array[i].is_delete
    BY DEF CleanSlots
  <2>2. array[i] \in Store /\ IsStored(array[i])
    BY <1>1, <2>1, Sorts DEF Recorded
  <2> QED
    BY <1>2, <2>1, <2>2
<1>4. Pierced(r) = {}
  BY <1>3 DEF Pierced
<1>5. ASSUME NEW e \in tree
      PROVE  /\ e \in Store /\ IsStored(e) /\ Overlap(e, r) <=> Overlap(r, e)
             /\ Overlap(e, r) => Within(e, r)
             /\ ~(e.addr < r.addr /\ End(e) > End(r))
  <2>1. e \in Store /\ IsStored(e)
    BY <1>1, Sorts DEF Recorded
  <2>2. Overlap(e, r) <=> Overlap(r, e)
    BY DEF Overlap
  <2>3. e.addr < r.addr /\ End(e) > End(r) => Overlap(r, e)
    <3>1. e.addr \in Nat /\ e.size \in Nat /\ r.addr \in Nat /\ r.size \in Nat \ {0}
      BY <1>1, <2>1 DEF IsRange, Store
    <3> QED
      BY <3>1 DEF Overlap, End
  <2> QED
    BY <1>2, <2>1, <2>2, <2>3
<1>6. Beyond(r) = {}
  <2>1. \A b : b \notin Beyond(r)
    BY <1>4, <1>5, InBeyond
  <2> QED
    BY <2>1
<1>7. \A i \in CleanSlots(r) : Cut(array[i], r) = [array[i] EXCEPT !.is_delete = TRUE]
  BY <1>3 DEF Cut
<1>8. \A e \in tree : CleanNode(e, r) = IF Overlap(e, r) THEN {} ELSE {e}
  BY <1>5 DEF CleanNode
<1> QED
  BY <1>3, <1>4, <1>6, <1>7, <1>8

\* SET_CLEAN keeps the invariant: it deletes stores, and moves none.
LEMMA CleanRecorded ==
  ASSUME GranularInv, NEW r \in Cleans, SET_CLEAN(r)
  PROVE  /\ Covered' /\ Recorded' /\ LiveSlots' = LiveSlots
         /\ \A i \in LiveSlots : /\ array'[i].addr = array[i].addr /\ array'[i].size = array[i].size
                                 /\ array'[i].state = array[i].state
                                 /\ array'[i].inEpoch = array[i].inEpoch
                                 /\ array'[i].is_delete <=> array[i].is_delete \/ i \in CleanSlots(r)
         /\ tree' = {e \in tree : ~Overlap(e, r)}
<1>1. Layout /\ Recorded /\ Covered /\ Layout' /\ box' = box
  BY CleanLayout DEF GranularInv, SET_CLEAN
<1>2. /\ Pierced(r) = {} /\ LiveSlots' = LiveSlots /\ Last' = Last
      /\ \A i \in LiveSlots : array'[i] = IF i \in CleanSlots(r) THEN Cut(array[i], r) ELSE array[i]
      /\ \A k \in 1 .. Last : /\ snippets'[k].min_add = snippets[k].min_add
                              /\ snippets'[k].max_add = snippets[k].max_add
                              /\ \A i \in Slots(snippets'[k]) : i \in Slots(snippets[k])
  BY <1>1, CleanSlotsNodes, GranularDeletes
<1>3. ASSUME NEW i \in LiveSlots
      PROVE  /\ array'[i].addr = array[i].addr /\ array'[i].size = array[i].size
             /\ array'[i].state = array[i].state /\ array'[i].inEpoch = array[i].inEpoch
             /\ array'[i].is_delete <=> array[i].is_delete \/ i \in CleanSlots(r)
  <2>1. array[i] \in [addr : Nat, size : Nat, state : State, is_delete : BOOLEAN, inEpoch : BOOLEAN]
    BY <1>1, Sorts DEF Store
  <2>2. array'[i] = IF i \in CleanSlots(r) THEN [array[i] EXCEPT !.is_delete = TRUE] ELSE array[i]
    BY <1>2, GranularDeletes
  <2> QED
    BY <2>1, <2>2
<1>4. tree' = {e \in tree : ~Overlap(e, r)}
  <2>1. \A d : d \in tree' => d \in tree /\ ~Overlap(d, r)
    BY <1>1, <1>2, CleanSlotsNodes, GranularDeletes
  <2>2. \A d \in tree : ~Overlap(d, r) => d \in tree'
    BY <1>1, CleanSlotsNodes, GranularDeletes
  <2> QED
    BY <2>1, <2>2
<1>5. Covered'
  <2>1. ASSUME NEW k \in 1 .. Last', NEW i \in Slots(snippets'[k])
        PROVE  InBox(array'[i], snippets'[k])
    <3>1. k \in 1 .. Last /\ i \in Slots(snippets[k]) /\ i \in LiveSlots
      BY <1>1, <1>2, SlotsLive
    <3>2. InBox(array[i], snippets[k])
      BY <1>1, <3>1 DEF Covered
    <3> QED
      BY <1>2, <1>3, <3>1, <3>2 DEF InBox, End
  <2> QED
    BY <1>1, <1>4, <2>1 DEF Covered
<1>6. Recorded'
  <2>1. \A i \in LiveSlots' : IsStored(array'[i]) /\ array'[i].state # "CLEAN"
    BY <1>1, <1>2, <1>3 DEF Recorded, IsStored
  <2>2. Last \in 1 .. Last
    BY <1>1, CurrentSnippet
  <2>3. \A i \in Slots(Current') : array'[i].is_delete \/ array'[i].state = "DIRTY"
    <3> SUFFICES ASSUME NEW i \in Slots(Current')
                 PROVE  array'[i].is_delete \/ array'[i].state = "DIRTY"
      OBVIOUS
    <3>1. i \in Slots(Current) /\ i \in LiveSlots
      BY <1>1, <1>2, <2>2, SlotsLive DEF Current
    <3> QED
      BY <1>1, <1>3, <3>1 DEF Recorded
  <2>4. ProperBox(Current', NoAddr)
    BY <1>1, <1>2, <2>2 DEF Recorded, ProperBox, Current
  <2> QED
    BY <1>1, <1>4, <2>1, <2>3, <2>4 DEF Recorded, IsStored
<1> QED
  BY <1>2, <1>3, <1>4, <1>5, <1>6

\* The invariant holds initially.
LEMMA InitGranular == NaturalSets /\ Granular /\ Init => GranularInv
<1> SUFFICES ASSUME NaturalSets, Granular, Init
             PROVE  GranularInv
  OBVIOUS
<1>1. /\ tree = {} /\ box = EmptyBox /\ snippets = <<init_snippet_info(0)>>
  BY DEF Init
<1>2. Last = 1 /\ Current = init_snippet_info(0) /\ snippets[1] = init_snippet_info(0)
  BY <1>1 DEF Last, Current
<1>3. LiveSlots = {} /\ Slots(Current) = {} /\ Slots(snippets[1]) = {}
  BY <1>2 DEF LiveSlots, Slots, init_snippet_info
<1>4. ProperBox(Current, NoAddr) /\ ProperBox(box, NoAddr)
  BY <1>1, <1>2 DEF init_snippet_info, ProperBox, EmptyBox
<1>5. Covered
  BY <1>1, <1>2, <1>3 DEF Covered
<1> QED
  BY <1>1, <1>3, <1>4, <1>5, InitLayout DEF GranularInv, Recorded

\* Every operation keeps the invariant.
LEMMA NextGranular == GranularInv /\ [Next]_vars => GranularInv'
<1> SUFFICES ASSUME GranularInv, [Next]_vars
             PROVE  GranularInv'
  OBVIOUS
<1>1. Layout' /\ Granular'
  BY NextLayout DEF GranularInv, Granular
<1>2. Covered' /\ Recorded'
  <2>1. CASE \E r \in Stores : trace_pmem_store(r)
    BY <2>1, StoreRecorded
  <2>2. CASE \E q \in Flushes : do_flush(q)
    BY <2>2, FlushRecorded
  <2>3. CASE do_fence
    BY <2>3, FenceRecorded
  <2>4. CASE \E r \in Cleans : SET_CLEAN(r)
    BY <2>4, CleanRecorded
  <2>5. CASE print_store_stats
    BY <2>5, StatsRecorded
  <2>6. CASE UNCHANGED vars
    BY <2>6 DEF vars, GranularInv, Covered, Recorded, IsStored, LiveSlots, Slots, Current, Last
  <2> QED
    BY <2>1, <2>2, <2>3, <2>4, <2>5, <2>6 DEF Next
<1> QED
  BY <1>1, <1>2 DEF GranularInv

\* When ranges hold stores entirely or not at all, the bounding boxes that
\* do_flush and SET_CLEAN filter with can always be trusted.
LEMMA AlwaysCoveredGiven == NaturalSets /\ Granular /\ Spec => []Covered
<1>1. NaturalSets /\ Granular /\ Init => GranularInv
  BY InitGranular
<1>2. GranularInv /\ [Next]_vars => GranularInv'
  BY NextGranular
<1>3. GranularInv => Covered
  BY DEF GranularInv
<1> QED
  BY <1>1, <1>2, <1>3, PTL DEF Spec
----------------------------------------------------------------------------
(* The refinement: each operation does what PersistBytes says of it.       *)

\* The bytes of a region and a quiet output are the same in PersistBytes.
LEMMA SameBytes ==
  /\ \A e : Bytewise!Bytes(e) = Bytes(e)
  /\ Bytewise!Quiet = Quiet
BY DEF Bytes, End, Quiet, Bytewise!Bytes, Bytewise!End, Bytewise!Quiet

\* trace_pmem_store, in the array or in the tree, makes the bytes dirty.
LEMMA StoreRefines ==
  ASSUME GranularInv, NEW r \in Stores, trace_pmem_store(r)
  PROVE  Bytewise!Store(r)
<1>1. out' = Quiet
  BY DEF trace_pmem_store, StoreToArray, StoreToTree
<1>2. Layout
  BY DEF GranularInv
<1> QED
  BY <1>1, <1>2, StoreBytes, SameBytes DEF Bytewise!Store

\* do_flush makes the dirty bytes of its range flushed, and reports what it met.
LEMMA FlushRefines ==
  ASSUME GranularInv, NEW q \in Flushes, do_flush(q)
  PROVE  Bytewise!Flush(flush_info(q))
<1> DEFINE f == flush_info(q)
<1>1. f \in FlushRanges /\ out' = FlushEvents(f)
  BY DEF FlushRanges, do_flush
<1>2. Covered /\ ByteInv /\ SplitsCurrentOnly(f)
  BY <1>1, GranularByteInv, GranularNoSplit DEF GranularInv
<1>3. /\ DirtyBytes' = DirtyBytes \ Bytes(f)
      /\ FlushedBytes \cup (DirtyBytes \cap Bytes(f)) \subseteq FlushedBytes'
      /\ FlushedBytes' \subseteq
           FlushedBytes \cup ((DirtyBytes \cup StatelessBytes) \cap Bytes(f))
  BY <1>2, FlushIsExact
<1> HIDE DEF f
<1>4. FlushedBytes' = FlushedBytes \cup (DirtyBytes \cap Bytes(f))
  BY <1>3, Stateful
<1>5. CleanedBytes' = CleanedBytes
  <2>1. /\ LiveSlots' = LiveSlots
        /\ \A i \in LiveSlots : /\ array'[i].addr = array[i].addr /\ array'[i].size = array[i].size
                                /\ array'[i].is_delete = array[i].is_delete
    BY FlushRecorded
  <2>2. \A i \in LiveSlots : Bytes(array'[i]) = Bytes(array[i])
    BY <2>1 DEF Bytes, End
  <2>3. \A b : b \in CleanedBytes' <=> b \in CleanedBytes
    BY <2>1, <2>2, InCleaned, InCleanedNext
  <2> QED
    BY <2>3
<1>6. PICK nothing \in BOOLEAN :
        /\ (DirtyBytes \cup FlushedBytes \cup CleanedBytes) \cap Bytes(f) = {} => nothing
        /\ nothing => (DirtyBytes \cup FlushedBytes) \cap Bytes(f) = {}
        /\ FlushEvents(f) = [Quiet EXCEPT
             !.redundant = check_flush /\ FlushedBytes \cap Bytes(f) # {},
             !.superfluous = check_flush /\ nothing]
  BY <1>1, FlushReports
<1>7. Bytewise!Bytes(f) = Bytes(f) /\ Bytewise!Quiet = Quiet
  BY SameBytes
<1>8. Bytewise!Flush(f)
  BY <1>1, <1>3, <1>4, <1>5, <1>6, <1>7 DEF Bytewise!Flush
<1> QED
  BY <1>8 DEF f

\* do_fence forgets the flushed bytes, and the stores that SET_CLEAN deleted.
LEMMA FenceRefines ==
  ASSUME GranularInv, do_fence
  PROVE  Bytewise!Fence
<1>1. out' = Quiet /\ Layout
  BY DEF do_fence, GranularInv
<1> QED
  BY <1>1, FenceBytes, SameBytes DEF Bytewise!Fence

\* SET_CLEAN forgets the bytes of its range; those it leaves in the array as
\* deleted stores were tracked, and in the range.
LEMMA CleanRefines ==
  ASSUME GranularInv, NEW r \in Cleans, SET_CLEAN(r)
  PROVE  Bytewise!SetClean(r)
<1>1. out' = Quiet /\ Layout /\ Covered /\ IsRange(r) /\ Beyond(r) = {}
  BY Ranges, GranularDeletes DEF SET_CLEAN, GranularInv
<1>2. DirtyBytes' = DirtyBytes \ Bytes(r)
  <2>1. \A b : b \in BytesIn("DIRTY")' <=> b \in BytesIn("DIRTY") /\ b \notin Bytes(r)
    BY <1>1, CleanBytes
  <2> QED
    BY <2>1 DEF DirtyBytes
<1>3. FlushedBytes' = FlushedBytes \ Bytes(r)
  <2>1. \A b : b \in BytesIn("FLUSHED")' <=> b \in BytesIn("FLUSHED") /\ b \notin Bytes(r)
    BY <1>1, CleanBytes
  <2> QED
    BY <2>1 DEF FlushedBytes
<1>4. /\ LiveSlots' = LiveSlots
      /\ \A i \in LiveSlots : /\ array'[i].addr = array[i].addr /\ array'[i].size = array[i].size
                              /\ array'[i].is_delete <=> array[i].is_delete \/ i \in CleanSlots(r)
  BY CleanRecorded
<1>5. \A i \in LiveSlots : Bytes(array'[i]) = Bytes(array[i])
  BY <1>4 DEF Bytes, End
<1>6. CleanedBytes \subseteq CleanedBytes'
  <2>1. \A b : b \in CleanedBytes => b \in CleanedBytes'
    BY <1>4, <1>5, InCleaned, InCleanedNext
  <2> QED
    BY <2>1
<1>7. CleanedBytes' \subseteq CleanedBytes \cup ((DirtyBytes \cup FlushedBytes) \cap Bytes(r))
  <2> SUFFICES ASSUME NEW b \in CleanedBytes', b \notin CleanedBytes
               PROVE  (b \in DirtyBytes \/ b \in FlushedBytes) /\ b \in Bytes(r)
    OBVIOUS
  <2>1. PICK i \in LiveSlots : array'[i].is_delete /\ b \in Bytes(array[i])
    BY <1>4, <1>5, InCleanedNext
  <2>2. i \in CleanSlots(r) /\ ~array[i].is_delete
    BY <1>4, <2>1, InCleaned
  <2>3. Within(array[i], r) /\ array[i] \in Store
    BY <1>1, <2>2, GranularDeletes, Sorts
  <2>4. b \in Bytes(r)
    <3>1. /\ array[i].addr \in Nat /\ End(array[i]) \in Nat /\ r.addr \in Nat /\ End(r) \in Nat
      BY <1>1, <2>3 DEF Store, IsRange, End
    <3> QED
      BY <2>1, <2>3, <3>1 DEF Within, Bytes
  <2>5. InSlot(i, "DIRTY", b) \/ InSlot(i, "FLUSHED", b)
    BY <2>1, <2>2, Stateful DEF InSlot
  <2> QED
    BY <2>4, <2>5, InBytes DEF DirtyBytes, FlushedBytes
<1> QED
  BY <1>1, <1>2, <1>3, <1>6, <1>7, SameBytes DEF Bytewise!SetClean

\* print_store_stats lists the bytes that are not persistent.
LEMMA StatsRefines ==
  ASSUME GranularInv, print_store_stats
  PROVE  Bytewise!Stats
<1>1. Layout
  BY DEF GranularInv
<1>2. out' = [Quiet EXCEPT !.reported = BytesOf({array[i] : i \in LiveSlots} \cup tree)]
  BY DEF print_store_stats
<1>3. BytesOf({array[i] : i \in LiveSlots} \cup tree) = DirtyBytes \cup FlushedBytes \cup CleanedBytes
  <2>1. ASSUME NEW b, b \in DirtyBytes \/ b \in FlushedBytes \/ b \in CleanedBytes
        PROVE  (\E i \in LiveSlots : b \in Bytes(array[i])) \/ (\E e \in tree : b \in Bytes(e))
    BY <2>1, InBytes, InCleaned DEF DirtyBytes, FlushedBytes, InSlot, InNode
  <2>2. ASSUME NEW b, NEW i \in LiveSlots, b \in Bytes(array[i])
        PROVE  b \in DirtyBytes \/ b \in FlushedBytes \/ b \in CleanedBytes
    <3>1. \/ InSlot(i, "DIRTY", b) \/ InSlot(i, "FLUSHED", b)
          \/ array[i].is_delete
      BY <2>2, Stateful DEF InSlot
    <3> QED
      BY <2>2, <3>1, InBytes, InCleaned DEF DirtyBytes, FlushedBytes
  <2>3. ASSUME NEW b, NEW e \in tree, b \in Bytes(e)
        PROVE  b \in DirtyBytes \/ b \in FlushedBytes
    <3>1. InNode(e, "DIRTY", b) \/ InNode(e, "FLUSHED", b)
      BY <2>3, Stateful DEF InNode
    <3> QED
      BY <3>1, InBytes DEF DirtyBytes, FlushedBytes
  <2>4. \A b : b \in BytesOf({array[i] : i \in LiveSlots} \cup tree) <=>
          (\E i \in LiveSlots : b \in Bytes(array[i])) \/ (\E e \in tree : b \in Bytes(e))
    BY DEF BytesOf
  <2>5. \A b : b \in BytesOf({array[i] : i \in LiveSlots} \cup tree) <=>
          b \in DirtyBytes \/ b \in FlushedBytes \/ b \in CleanedBytes
    BY <2>1, <2>2, <2>3, <2>4
  <2> QED
    BY <2>5
<1> QED
  BY <1>1, <1>2, <1>3, StatsBytes, SameBytes DEF Bytewise!Stats

\* Each operation of the tracker, whole-snippet marks, boxes, slots and nodes
\* included, does to the bytes exactly what PersistBytes says of it, for every
\* program whose ranges are Granular, and every size of the array.
LEMMA AlwaysOperationsExactGiven == NaturalSets /\ Granular /\ Spec => OperationsExact
<1>1. ASSUME GranularInv, [Next]_vars
      PROVE  [/\ \A r \in Stores : trace_pmem_store(r) => Bytewise!Store(r)
              /\ \A q \in Flushes : do_flush(q) => Bytewise!Flush(flush_info(q))
              /\ do_fence => Bytewise!Fence
              /\ \A r \in Cleans : SET_CLEAN(r) => Bytewise!SetClean(r)
              /\ print_store_stats => Bytewise!Stats]_vars
  BY <1>1, StoreRefines, FlushRefines, FenceRefines, CleanRefines, StatsRefines
<1>2. GranularInv /\ [Next]_vars =>
        [/\ \A r \in Stores : trace_pmem_store(r) => Bytewise!Store(r)
         /\ \A q \in Flushes : do_flush(q) => Bytewise!Flush(flush_info(q))
         /\ do_fence => Bytewise!Fence
         /\ \A r \in Cleans : SET_CLEAN(r) => Bytewise!SetClean(r)
         /\ print_store_stats => Bytewise!Stats]_vars
  BY <1>1
<1> QED
  BY <1>2, InitGranular, NextGranular, PTL DEF Spec, OperationsExact

\* In the beginning no byte is dirty, flushed or cleaned.
LEMMA InitRefines ==
  ASSUME Init
  PROVE  Bytewise!Init
<1>1. tree = {} /\ LiveSlots = {} /\ out = Quiet
  <2>1. Last = 1 /\ Current = init_snippet_info(0)
    BY DEF Init, Last, Current
  <2> QED
    BY <2>1 DEF Init, LiveSlots, init_snippet_info
<1>2. \A b : b \notin BytesIn("DIRTY")
  BY <1>1, InBytes DEF InSlot, InNode
<1>3. \A b : b \notin BytesIn("FLUSHED")
  BY <1>1, InBytes DEF InSlot, InNode
<1>4. \A b : b \notin CleanedBytes
  BY <1>1, InCleaned
<1> QED
  BY <1>1, <1>2, <1>3, <1>4, SameBytes DEF Bytewise!Init, DirtyBytes, FlushedBytes

\* The tracker is an implementation of PersistBytes under the mapping of its
\* slots, snippets and nodes to bytes.
LEMMA RefinesPersistBytesGiven == NaturalSets /\ Granular /\ Spec => ImplementsPersistBytes
<1>1. ASSUME GranularInv, [Next]_vars
      PROVE  [Bytewise!Next]_(Bytewise!vars)
  <2>1. CASE \E r \in Stores : trace_pmem_store(r)
    BY <1>1, <2>1, StoreRefines DEF Bytewise!Next
  <2>2. CASE \E q \in Flushes : do_flush(q)
    BY <1>1, <2>2, FlushRefines DEF Bytewise!Next, FlushRanges
  <2>3. CASE do_fence
    BY <1>1, <2>3, FenceRefines DEF Bytewise!Next
  <2>4. CASE \E r \in Cleans : SET_CLEAN(r)
    BY <1>1, <2>4, CleanRefines DEF Bytewise!Next
  <2>5. CASE print_store_stats
    BY <1>1, <2>5, StatsRefines DEF Bytewise!Next
  <2>6. CASE UNCHANGED vars
    <3>1. Last' = Last /\ Current' = Current /\ LiveSlots' = LiveSlots /\ array' = array
          /\ tree' = tree /\ out' = out /\ snippets' = snippets
      BY <2>6 DEF vars, Last, Current, LiveSlots
    <3>2. DirtyBytes' = DirtyBytes /\ FlushedBytes' = FlushedBytes /\ CleanedBytes' = CleanedBytes
      BY <3>1 DEF DirtyBytes, FlushedBytes, CleanedBytes, BytesIn, SlotsIn, AllFlushed, Slots
    <3> QED
      BY <3>1, <3>2 DEF Bytewise!vars
  <2> QED
    BY <1>1, <2>1, <2>2, <2>3, <2>4, <2>5, <2>6 DEF Next
<1>2. GranularInv /\ [Next]_vars => [Bytewise!Next]_(Bytewise!vars)
  BY <1>1
<1>3. Init => Bytewise!Init
  BY InitRefines
<1> QED
  BY <1>2, <1>3, InitGranular, NextGranular, PTL DEF Spec, ImplementsPersistBytes, Bytewise!Spec
----------------------------------------------------------------------------
\* A request that touches neither the array nor the tree changes nothing that
\* the tracker keeps.
LEMMA SameEntries ==
  ASSUME UNCHANGED <<array, snippets, tree, box>>
  PROVE  /\ DirtyBytes' = DirtyBytes /\ FlushedBytes' = FlushedBytes
         /\ Covered' = Covered /\ Recorded' = Recorded
         /\ Layout /\ epoch' \in BOOLEAN /\ out' = Quiet => Layout'
<1>1. Last' = Last /\ Current' = Current /\ LiveSlots' = LiveSlots /\ array' = array
      /\ tree' = tree /\ snippets' = snippets /\ box' = box
  BY DEF Last, Current, LiveSlots
<1>2. Layout /\ epoch' \in BOOLEAN /\ out' = Quiet => Layout'
  BY <1>1, QuietType DEF Layout, TypeOK, SnippetsPartition, Slots
<1> QED
  BY <1>1, <1>2 DEF DirtyBytes, FlushedBytes, BytesIn, SlotsIn, AllFlushed, Slots, Covered, Recorded
============================================================================
