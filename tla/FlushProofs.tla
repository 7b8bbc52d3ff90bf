---------------------------- MODULE FlushProofs ----------------------------
(* Proofs about do_flush: what a flush makes of slots, snippets and nodes, *)
(* and of the bytes behind them, for all programs and sizes.               *)
EXTENDS StoreTrackerProofs

\* Zenon is quicker on most steps and SMT does arithmetic.
USE ZenonT(3), SMTT(15), ZenonT(20)
----------------------------------------------------------------------------
\* What do_flush makes of the snippets: boxes and starts stay, the last one
\* reaches the end of the used slots, and a new one may follow.
LEMMA FlushMarks ==
  ASSUME Layout, NEW f, IsRange(f), IsFiniteSet(Remainders(f)),
         snippets' = FlushSnippets(f)
  PROVE  /\ Current'.index = IndexAfter(Remainders(f))
         /\ Last' = Last \/ (Last' = Last + 1 /\ snippets'[Last'] = init_snippet_info(Current'.index))
         /\ \A k \in 1 .. Last :
              /\ snippets'[k].start_index = snippets[k].start_index
              /\ snippets'[k].min_add = snippets[k].min_add
              /\ snippets'[k].max_add = snippets[k].max_add
              /\ snippets'[k].index = IF k = Last THEN Current'.index ELSE snippets[k].index
              /\ snippets'[k].flushed_num =
                   IF Whole(snippets[k], f) THEN "ALL_FLUSHED"
                   ELSE IF Scanned(snippets[k], f) /\ Fresh(snippets[k], f) # {} THEN "PART_FLUSHED"
                   ELSE snippets[k].flushed_num
         /\ Last' = Last <=> ~Whole(Current, f) /\ (Scanned(Current, f) => Fresh(Current, f) = {})
<1> DEFINE mark(k) ==
             IF Whole(snippets[k], f) THEN "ALL_FLUSHED"
             ELSE IF Scanned(snippets[k], f) /\ Fresh(snippets[k], f) # {} THEN "PART_FLUSHED"
             ELSE snippets[k].flushed_num
           n == IndexAfter(Remainders(f))
           marked == [k \in 1 .. Last |->
                        [snippets[k] EXCEPT !.flushed_num = mark(k),
                                            !.index = IF k = Last THEN n ELSE @]]
           new == init_snippet_info(n)
<1>1. snippets' = IF mark(Last) = "NO_FLUSHED" THEN marked ELSE Append(marked, new)
  BY DEF FlushSnippets
<1>2. /\ Last \in Nat \ {0} /\ Last \in 1 .. Last
      /\ \A k \in 1 .. Last : snippets[k] \in Snippet
      /\ Current.flushed_num = "NO_FLUSHED"
  BY CurrentSnippet
<1> USE <1>2
<1>3. n \in 0 .. MAX_ARRAY_NUM
  BY IndexAfterType
<1>4. new \in Snippet /\ new.index = n
  BY <1>3, Ranges DEF init_snippet_info, Snippet, FlushedNum
<1>5. mark(Last) = "NO_FLUSHED" <=> ~Whole(Current, f) /\ (Scanned(Current, f) => Fresh(Current, f) = {})
  BY DEF Current
<1>6. \A k \in 1 .. Last : mark(k) \in FlushedNum
  BY DEF FlushedNum, Snippet
<1> HIDE DEF mark, n, new
<1>7. ASSUME NEW k \in 1 .. Last
      PROVE  /\ marked[k] \in Snippet
             /\ marked[k].start_index = snippets[k].start_index
             /\ marked[k].min_add = snippets[k].min_add
             /\ marked[k].max_add = snippets[k].max_add
             /\ marked[k].index = IF k = Last THEN n ELSE snippets[k].index
             /\ marked[k].flushed_num = mark(k)
  <2> DEFINE m == IF k = Last THEN n ELSE snippets[k].index
             g == mark(k)
  <2>1. marked[k] = [snippets[k] EXCEPT !.flushed_num = g, !.index = m]
    OBVIOUS
  <2>2. snippets[k] \in Snippet /\ m \in 0 .. MAX_ARRAY_NUM /\ g \in FlushedNum
    BY <1>3, <1>6 DEF Snippet
  <2> HIDE DEF m, g, marked
  <2>3. /\ marked[k] \in Snippet /\ marked[k].start_index = snippets[k].start_index
        /\ marked[k].min_add = snippets[k].min_add /\ marked[k].max_add = snippets[k].max_add
        /\ marked[k].index = m /\ marked[k].flushed_num = g
    BY <2>1, <2>2 DEF Snippet
  <2> QED
    BY <2>3 DEF m, g
<1>8. marked \in Seq(Snippet) /\ Len(marked) = Last
  <2>1. marked \in [1 .. Last -> Snippet]
    BY <1>7
  <2> HIDE DEF marked
  <2> QED
    BY <2>1
<1> HIDE DEF marked
<1>9. /\ \A k \in 1 .. Last : snippets'[k] = marked[k]
      /\ Current'.index = n
      /\ \/ mark(Last) = "NO_FLUSHED" /\ Last' = Last
         \/ mark(Last) # "NO_FLUSHED" /\ Last' = Last + 1 /\ snippets'[Last'] = new
  <2>1. CASE mark(Last) = "NO_FLUSHED"
    <3>1. snippets' = marked /\ Last' = Last /\ Current' = marked[Last]
      BY <1>1, <1>8, <2>1 DEF Last, Current
    <3> QED
      BY <1>7, <2>1, <3>1
  <2>2. CASE mark(Last) # "NO_FLUSHED"
    <3>1. /\ Len(snippets') = Last + 1 /\ \A k \in 1 .. Last : snippets'[k] = marked[k]
          /\ snippets'[Last + 1] = new
      BY <1>1, <1>4, <1>8, <2>2
    <3>2. Last' = Last + 1 /\ Current' = new
      BY <3>1 DEF Last, Current
    <3> QED
      BY <1>4, <2>2, <3>1, <3>2
  <2> QED
    BY <2>1, <2>2
<1>10. Last + 1 # Last
  OBVIOUS
<1> QED
  BY <1>5, <1>7, <1>9, <1>10 DEF mark, new, n

\* What do_flush makes of the slots: those in use are flushed, in part or as
\* they are, or left alone, and those it takes into use hold the remainders.
LEMMA FlushSlots ==
  ASSUME Layout, NEW f, IsRange(f), array' = FlushArray(f), snippets' = FlushSnippets(f)
  PROVE  /\ LiveSlots \subseteq LiveSlots'
         /\ \A i \in LiveSlots :
              /\ i \in FreshSlots(f) => array'[i] = FlushedPart(array[i], f)
              /\ i \notin FreshSlots(f) =>
                   \/ array'[i] = array[i]
                   \/ array[i].is_delete /\ array'[i] = [array[i] EXCEPT !.state = "FLUSHED"]
              /\ \A k \in 1 .. Last : i \in Slots(snippets[k]) =>
                   (AllFlushed(i)' <=> AllFlushed(i) \/ Whole(snippets[k], f))
         /\ \A i \in LiveSlots' \ LiveSlots :
              /\ \E p \in Remainders(f) : array'[i] = Remainder(p, f)
              /\ AllFlushed(i)' <=> Whole(Current, f)
              /\ i \in Slots(snippets'[Last])
         /\ \A p \in Remainders(f) :
              SlotOf(Remainders(f), p) < MAX_ARRAY_NUM =>
                \E i \in LiveSlots' \ LiveSlots : array'[i] = Remainder(p, f)
<1> DEFINE P == Remainders(f)
           n == IndexAfter(P)
           c == Current.index
           scanned(i) == \E k \in 1 .. Last : Scanned(snippets[k], f) /\ i \in Slots(snippets[k])
<1>1. P \subseteq Nat /\ IsFiniteSet(P) /\ FreshSlots(f) \subseteq LiveSlots
  BY RemaindersNat
<1> USE <1>1
<1>2. /\ \A p \in P : SlotOf(P, p) \in Nat /\ SlotOf(P, p) >= c
      /\ \A p, m \in P : SlotOf(P, p) = SlotOf(P, m) => p = m
      /\ \A p \in P : SlotOf(P, p) < MAX_ARRAY_NUM => SlotOf(P, p) < n
      /\ \A i \in c .. n - 1 : \E p \in P : SlotOf(P, p) = i
  BY Appended
<1>3. c \in 0 .. MAX_ARRAY_NUM /\ MAX_ARRAY_NUM \in Nat /\ n \in 0 .. MAX_ARRAY_NUM /\ n >= c
  BY CurrentSnippet, Ranges, IndexAfterType
<1> USE <1>3
<1>4. LiveSlots = 0 .. c - 1 /\ LiveSlots' = 0 .. n - 1
  BY FlushMarks DEF LiveSlots
<1>5. /\ Last \in Nat \ {0} /\ Last \in 1 .. Last
      /\ \A k \in 1 .. Last : snippets[k] \in Snippet
      /\ \A k \in 1 .. Last : k # Last => snippets[k].index <= c
      /\ snippets[Last].index = c /\ snippets[Last].start_index <= c
      /\ \A k \in 1 .. Last : snippets[k].flushed_num = "NO_FLUSHED" => k = Last
  <2>1. /\ Last \in Nat \ {0} /\ Last \in 1 .. Last
        /\ \A k \in 1 .. Last : snippets[k] \in Snippet
        /\ snippets[Last].index = c /\ snippets[Last].start_index <= c
    BY CurrentSnippet DEF Current
  <2>2. \A k \in 1 .. Last : k # Last => snippets[k].index <= snippets[Last].start_index
    BY <2>1 DEF Layout, SnippetsPartition
  <2>3. \A k \in 1 .. Last : k # Last => snippets[k].index <= c
    BY <2>1, <2>2 DEF Snippet
  <2>4. \A k \in 1 .. Last : snippets[k].flushed_num = "NO_FLUSHED" => k = Last
    BY DEF Layout, SnippetsPartition
  <2> QED
    BY <2>1, <2>3, <2>4
<1> USE <1>5
<1>6. /\ Last' = Last \/ (Last' = Last + 1 /\ snippets'[Last'] = init_snippet_info(n))
      /\ \A k \in 1 .. Last :
           /\ snippets'[k].start_index = snippets[k].start_index
           /\ snippets'[k].index = IF k = Last THEN n ELSE snippets[k].index
           /\ snippets'[k].flushed_num =
                IF Whole(snippets[k], f) THEN "ALL_FLUSHED"
                ELSE IF Scanned(snippets[k], f) /\ Fresh(snippets[k], f) # {} THEN "PART_FLUSHED"
                ELSE snippets[k].flushed_num
  BY FlushMarks
<1> USE <1>6
<1>7. array' = [i \in 0 .. MAX_ARRAY_NUM - 1 |->
                  IF i \in FreshSlots(f) THEN FlushedPart(array[i], f)
                  ELSE IF \E p \in P : SlotOf(P, p) = i
                  THEN Remainder(CHOOSE p \in P : SlotOf(P, p) = i, f)
                  ELSE IF array[i].is_delete /\ scanned(i)
                  THEN [array[i] EXCEPT !.state = "FLUSHED"]
                  ELSE array[i]]
  <2>1. DOMAIN array = 0 .. MAX_ARRAY_NUM - 1
    BY DEF Layout, TypeOK
  <2> QED
    BY <2>1 DEF FlushArray
<1> HIDE DEF P, n, c, scanned
<1>8. ASSUME NEW k \in 1 .. Last
      PROVE  snippets'[k].flushed_num = "ALL_FLUSHED" <=>
               snippets[k].flushed_num = "ALL_FLUSHED" \/ Whole(snippets[k], f)
  <2>1. snippets[k].flushed_num = "ALL_FLUSHED" => Fresh(snippets[k], f) = {}
    BY DEF Fresh
  <2> QED
    BY <2>1
<1>9. ASSUME NEW i, i \in Slots(snippets'[Last + 1]), Last' = Last + 1
      PROVE  FALSE
  BY <1>9 DEF Slots, init_snippet_info
<1>10. ASSUME NEW i \in LiveSlots
       PROVE  /\ i \in FreshSlots(f) => array'[i] = FlushedPart(array[i], f)
              /\ i \notin FreshSlots(f) =>
                   \/ array'[i] = array[i]
                   \/ array[i].is_delete /\ array'[i] = [array[i] EXCEPT !.state = "FLUSHED"]
  <2>1. i \in 0 .. MAX_ARRAY_NUM - 1 /\ \A p \in P : SlotOf(P, p) # i
    BY <1>2, <1>4
  <2> QED
    BY <1>7, <2>1
<1>11. ASSUME NEW i \in LiveSlots, NEW k \in 1 .. Last, i \in Slots(snippets[k])
       PROVE  AllFlushed(i)' <=> AllFlushed(i) \/ Whole(snippets[k], f)
  <2>1. /\ \A j \in 1 .. Last : i \in Slots(snippets[j]) <=> j = k
        /\ AllFlushed(i) <=> snippets[k].flushed_num = "ALL_FLUSHED"
    BY <1>11, SnippetOf
  <2>2. \A j \in 1 .. Last : i \in Slots(snippets'[j]) <=> j = k
    <3> TAKE j \in 1 .. Last
    <3>1. i \in Slots(snippets'[j]) <=> i \in Slots(snippets[j])
      <4>1. i \in Int /\ i < c /\ snippets[j] \in Snippet
        BY <1>4
      <4> QED
        BY <4>1 DEF Slots, Snippet
    <3> QED
      BY <2>1, <3>1
  <2>3. AllFlushed(i)' <=> snippets'[k].flushed_num = "ALL_FLUSHED"
    BY <1>9, <2>2 DEF AllFlushed, Slots
  <2> QED
    BY <1>8, <2>1, <2>3
<1>12. ASSUME NEW i \in LiveSlots' \ LiveSlots
       PROVE  /\ \E p \in P : array'[i] = Remainder(p, f)
              /\ AllFlushed(i)' <=> Whole(Current, f)
              /\ i \in Slots(snippets'[Last])
  <2>1. i \in c .. n - 1 /\ i \in 0 .. MAX_ARRAY_NUM - 1
    BY <1>4
  <2>2. \E p \in P : array'[i] = Remainder(p, f)
    BY <1>2, <1>7, <2>1
  <2>3. \A j \in 1 .. Last : i \in Slots(snippets'[j]) <=> j = Last
    BY <2>1 DEF Slots, Snippet
  <2>4. AllFlushed(i)' <=> snippets'[Last].flushed_num = "ALL_FLUSHED"
    BY <1>9, <2>3 DEF AllFlushed, Slots
  <2>5. Current.flushed_num = "NO_FLUSHED"
    BY CurrentSnippet
  <2> QED
    BY <1>8, <2>2, <2>3, <2>4, <2>5 DEF Current
<1>13. ASSUME NEW p \in P, SlotOf(P, p) < MAX_ARRAY_NUM
       PROVE  \E i \in LiveSlots' \ LiveSlots : array'[i] = Remainder(p, f)
  <2> DEFINE i == SlotOf(P, p)
  <2>1. i \in LiveSlots' \ LiveSlots /\ i \in 0 .. MAX_ARRAY_NUM - 1
    BY <1>2, <1>4, <1>13
  <2>2. (CHOOSE m \in P : SlotOf(P, m) = i) = p
    BY <1>2
  <2>3. array'[i] = Remainder(p, f)
    BY <1>7, <2>1, <2>2
  <2> QED
    BY <2>1, <2>3
<1>14. LiveSlots \subseteq LiveSlots'
  BY <1>4
<1> QED
  BY <1>10, <1>11, <1>12, <1>13, <1>14 DEF P
----------------------------------------------------------------------------
\* What do_flush makes of the nodes of the tree.  Remainders that did not fit
\* in the array lie outside the flush, and it leaves them as they are.
LEMMA FlushNodes ==
  ASSUME Layout, NEW f, IsRange(f), tree' = FlushTree(f)
  PROVE  \A d : d \in tree' <=>
           \/ \E p \in Remainders(f) :
                SlotOf(Remainders(f), p) >= MAX_ARRAY_NUM /\ d = Remainder(p, f)
           \/ \E e \in tree : IF Touches(box, f) THEN d \in FlushNode(e, f) ELSE d = e
<1> DEFINE P == Remainders(f)
           late == {q \in P : SlotOf(P, q) >= MAX_ARRAY_NUM}
           full == tree \cup {Remainder(p, f) : p \in late}
<1>1. tree' = IF Touches(box, f) THEN UNION {FlushNode(e, f) : e \in full} ELSE full
  BY DEF FlushTree
<1>2. \A p \in P : FlushNode(Remainder(p, f), f) = {Remainder(p, f)}
  BY RemainderFacts DEF FlushNode
<1>3. \A d : d \in full <=> d \in tree \/ \E p \in P : SlotOf(P, p) >= MAX_ARRAY_NUM /\ d = Remainder(p, f)
  OBVIOUS
<1> HIDE DEF full, late
<1>4. CASE Touches(box, f)
  <2>1. \A d : d \in tree' <=> \E e \in full : d \in FlushNode(e, f)
    BY <1>1, <1>4
  <2> QED
    BY <1>2, <1>3, <1>4, <2>1
<1>5. CASE ~Touches(box, f)
  BY <1>1, <1>3, <1>5
<1> QED
  BY <1>4, <1>5

\* What do_flush makes of one node: the bytes in the range are flushed, those
\* outside keep their state.
LEMMA NodeParts ==
  ASSUME NEW e \in Store, NEW f, IsRange(f)
  PROVE  /\ \A d \in FlushNode(e, f) :
              /\ \/ d = e /\ (e.state = "DIRTY" => ~Overlap(f, e))
                 \/ /\ e.state = "DIRTY" /\ Overlap(f, e) /\ d.state = "FLUSHED"
                    /\ \A b : b \in Bytes(d) => b \in Bytes(e) /\ b \in Bytes(f)
                 \/ /\ e.state = "DIRTY" /\ Overlap(f, e) /\ d.state = "DIRTY"
                    /\ \A b : b \in Bytes(d) => b \in Bytes(e) /\ b \notin Bytes(f)
              /\ e.addr <= d.addr /\ End(d) <= End(e)
              /\ e.size > 0 => d.size > 0
         /\ \A b \in Bytes(e) : \E d \in FlushNode(e, f) :
              /\ b \in Bytes(d)
              /\ d.state = IF e.state = "DIRTY" /\ b \in Bytes(f) THEN "FLUSHED" ELSE e.state
<1>1. /\ e.addr \in Nat /\ e.size \in Nat /\ f.addr \in Nat /\ f.size \in Nat
      /\ End(e) \in Nat /\ End(f) \in Nat /\ End(e) = e.addr + e.size
      /\ e \in [addr : Nat, size : Nat, state : State, is_delete : BOOLEAN, inEpoch : BOOLEAN]
  BY DEF Store, IsRange, End
<1> USE <1>1
<1>2. CASE ~(e.state = "DIRTY" /\ Overlap(f, e))
  <2>1. FlushNode(e, f) = {e}
    BY <1>2 DEF FlushNode
  <2>2. \A b \in Bytes(e) : ~(e.state = "DIRTY" /\ b \in Bytes(f))
    BY <1>2, Shared
  <2> QED
    BY <1>2, <2>1, <2>2
<1>3. CASE e.state = "DIRTY" /\ Overlap(f, e)
  <2> USE <1>3
  <2> DEFINE m == FlushedPart(e, f)
             l == LeftPart(e, f)
             g == RightPart(e, f)
             h == [g EXCEPT !.inEpoch = FALSE]
  <2>1. \A d : d \in FlushNode(e, f) <=>
          d = m \/ (d = l /\ e.addr < f.addr) \/ (d = h /\ End(e) > End(f))
    BY DEF FlushNode
  <2>2. e.addr < End(f) /\ f.addr < End(e)
    BY DEF Overlap
  <2>3. /\ l.addr = e.addr /\ l.size = f.addr - e.addr /\ l.state = "DIRTY"
        /\ h.addr = End(f) /\ h.size = End(e) - End(f) /\ h.state = "DIRTY"
        /\ g.addr = h.addr /\ g.size = h.size
    BY DEF LeftPart, RightPart
  <2> USE <2>3
  <2>4. /\ \A b : b \in Bytes(m) <=> b \in Bytes(e) /\ b \in Bytes(f)
        /\ \A b : b \in Bytes(l) <=> b \in Bytes(e) /\ b < f.addr
        /\ \A b : b \in Bytes(g) <=> b \in Bytes(e) /\ b >= End(f)
        /\ \A b : b \in Bytes(e) => b \in Bytes(f) \/ b < f.addr \/ b >= End(f)
        /\ \A b : b \in Bytes(f) => ~(b < f.addr) /\ ~(b >= End(f))
    BY <2>2, PartsBytes
  <2> USE <2>4
  <2>5. Bytes(h) = Bytes(g)
    BY DEF Bytes, End
  <2>6. /\ m.state = "FLUSHED" /\ e.addr <= m.addr /\ End(m) <= End(e)
        /\ e.size > 0 => m.size > 0
    BY FlushedPartFacts
  <2>7. \A b \in Bytes(e) : b \in Int /\ e.addr <= b /\ b < End(e)
    BY DEF Bytes
  <2> HIDE DEF m, l, g, h
  <2>8. /\ End(l) = f.addr /\ End(h) = End(e)
    <3>1. End(h) = End(f) + (End(e) - End(f)) /\ End(l) = e.addr + (f.addr - e.addr)
      BY DEF End
    <3> QED
      BY <3>1
  <2>9. \A d \in FlushNode(e, f) :
          /\ \/ d.state = "FLUSHED" /\ \A b : b \in Bytes(d) => b \in Bytes(e) /\ b \in Bytes(f)
             \/ d.state = "DIRTY" /\ \A b : b \in Bytes(d) => b \in Bytes(e) /\ b \notin Bytes(f)
          /\ e.addr <= d.addr /\ End(d) <= End(e)
          /\ e.size > 0 => d.size > 0
    <3> TAKE d \in FlushNode(e, f)
    <3>1. CASE d = m
      BY <2>6, <3>1
    <3>2. CASE d = l /\ e.addr < f.addr
      <4>1. \A b : b \in Bytes(l) => b \in Bytes(e) /\ b \notin Bytes(f)
        OBVIOUS
      <4>2. e.addr <= l.addr /\ End(l) <= End(e) /\ l.size > 0
        BY <2>2, <2>8, <3>2
      <4> QED
        BY <3>2, <4>1, <4>2
    <3>3. CASE d = h /\ End(e) > End(f)
      <4>1. \A b : b \in Bytes(h) => b \in Bytes(e) /\ b \notin Bytes(f)
        BY <2>5
      <4>2. e.addr <= h.addr /\ End(h) <= End(e) /\ h.size > 0
        BY <2>2, <2>8, <3>3
      <4> QED
        BY <3>3, <4>1, <4>2
    <3> QED
      BY <2>1, <3>1, <3>2, <3>3
  <2>10. \A b \in Bytes(e) : \E d \in FlushNode(e, f) :
           b \in Bytes(d) /\ d.state = IF b \in Bytes(f) THEN "FLUSHED" ELSE "DIRTY"
    <3> TAKE b \in Bytes(e)
    <3>1. CASE b \in Bytes(f)
      BY <2>1, <2>6, <3>1
    <3>2. CASE b \notin Bytes(f) /\ b < f.addr
      <4>1. e.addr < f.addr
        BY <2>7, <3>2
      <4> QED
        BY <2>1, <3>2, <4>1
    <3>3. CASE b \notin Bytes(f) /\ b >= End(f)
      <4>1. End(e) > End(f)
        BY <2>7, <3>3
      <4> QED
        BY <2>1, <2>5, <3>3, <4>1
    <3> QED
      BY <3>1, <3>2, <3>3
  <2> QED
    BY <2>9, <2>10
<1> QED
  BY <1>2, <1>3
----------------------------------------------------------------------------
\* Where the boxes cover the stores, do_flush misses no dirty store that
\* meets its range, and a snippet flushed as a whole lies in the range.
LEMMA FlushMisses ==
  ASSUME Layout, NEW f, IsRange(f), NEW i \in LiveSlots, NEW k \in 1 .. Last,
         i \in Slots(snippets[k]), InBox(array[i], snippets[k]), NEW b \in Bytes(array[i])
  PROVE  /\ Whole(snippets[k], f) => b \in Bytes(f)
         /\ b \in Bytes(f) /\ ~array[i].is_delete /\ Effective(i) = "DIRTY" /\ ~Whole(snippets[k], f)
              => i \in FreshSlots(f)
<1>1. /\ array[i].addr \in Nat /\ array[i].size \in Nat /\ f.addr \in Nat /\ f.size \in Nat
      /\ snippets[k].min_add \in Nat /\ snippets[k].max_add \in Nat
  BY Sorts DEF IsRange
<1>2. Whole(snippets[k], f) => b \in Bytes(f)
  BY <1>1, Shared DEF Whole
<1>3. ASSUME b \in Bytes(f), ~array[i].is_delete, Effective(i) = "DIRTY", ~Whole(snippets[k], f)
      PROVE  i \in FreshSlots(f)
  <2>1. Overlap(f, array[i]) /\ Touches(snippets[k], f)
    BY <1>1, <1>3, Shared
  <2>2. ~AllFlushed(i) /\ array[i].state = "DIRTY"
    BY <1>3 DEF Effective
  <2>3. snippets[k].flushed_num # "ALL_FLUSHED"
    BY <2>2 DEF AllFlushed
  <2>4. i \in Fresh(snippets[k], f) /\ Scanned(snippets[k], f)
    BY <1>3, <2>1, <2>2, <2>3 DEF Fresh, Met, Scanned
  <2> QED
    BY <2>4 DEF FreshSlots
<1> QED
  BY <1>2, <1>3

\* A store of the current snippet that is split is in no snippet flushed as
\* a whole, so neither are its remainders.
LEMMA SplitScanned ==
  ASSUME Layout, NEW f, IsRange(f), SplitsCurrentOnly(f), Remainders(f) # {}
  PROVE  ~Whole(Current, f)
<1>1. PICK j \in FreshSlots(f) : ~Within(array[j], f)
  BY RemainderFacts
<1>2. j \in Slots(Current) /\ j \in LiveSlots
  BY <1>1, FreshFacts DEF SplitsCurrentOnly
<1>3. PICK k \in 1 .. Last : Scanned(snippets[k], f) /\ j \in Fresh(snippets[k], f)
  BY FreshFacts
<1>4. k = Last
  <2>1. Last \in 1 .. Last /\ j \in Slots(snippets[Last]) /\ j \in Slots(snippets[k])
    BY <1>2, <1>3, CurrentSnippet DEF Current, Fresh, Met
  <2> QED
    BY <1>2, <2>1, SnippetOf
<1> QED
  BY <1>3, <1>4 DEF Scanned, Current

\* What is dirty or flushed after a flush was so before, but for stores in a
\* snippet flushed as a whole; and where the boxes cover the stores it is so
\* because of the range of the flush.
LEMMA FlushAdds ==
  ASSUME Layout, NEW f, IsRange(f),
         array' = FlushArray(f), snippets' = FlushSnippets(f), tree' = FlushTree(f)
  PROVE  /\ \A b \in DirtyBytes' : b \in DirtyBytes /\ (Covered => b \notin Bytes(f))
         /\ \A b \in FlushedBytes' :
              /\ b \in FlushedBytes \/ b \in DirtyBytes \/ b \in StatelessBytes
              /\ Covered /\ SplitsCurrentOnly(f) => b \in FlushedBytes \/ b \in Bytes(f)
         /\ \A b \in StatelessBytes' : b \in StatelessBytes
<1> DEFINE was(st, b) == (\E i : InSlot(i, st, b)) \/ (\E e : InNode(e, st, b))
           ok(st, b) == /\ st = "DIRTY" => was("DIRTY", b) /\ (Covered => b \notin Bytes(f))
                        /\ st = "FLUSHED" =>
                             /\ was("FLUSHED", b) \/ was("DIRTY", b) \/ was("CLEAN", b)
                             /\ Covered /\ SplitsCurrentOnly(f) => was("FLUSHED", b) \/ b \in Bytes(f)
                        /\ st = "CLEAN" => was("CLEAN", b)
<1>0. \A i \in LiveSlots :
        /\ i \in FreshSlots(f) => array'[i] = FlushedPart(array[i], f)
        /\ i \notin FreshSlots(f) =>
             \/ array'[i] = array[i]
             \/ array[i].is_delete /\ array'[i] = [array[i] EXCEPT !.state = "FLUSHED"]
        /\ \A k \in 1 .. Last : i \in Slots(snippets[k]) =>
             (AllFlushed(i)' <=> AllFlushed(i) \/ Whole(snippets[k], f))
  BY FlushSlots
<1>1. ASSUME NEW j \in FreshSlots(f), NEW b \in Bytes(array[j])
      PROVE  InSlot(j, "DIRTY", b)
  BY <1>1, FreshFacts DEF InSlot
<1>2. ASSUME NEW st \in State, NEW b, NEW i \in LiveSlots, InSlot(i, st, b)'
      PROVE  ok(st, b)
  <2>1. ~array'[i].is_delete /\ Effective(i)' = st /\ b \in Bytes(array'[i])
    BY <1>2 DEF InSlot, Bytes, End
  <2> USE <2>1
  <2>2. CASE i \in FreshSlots(f)
    <3>1. array'[i] = FlushedPart(array[i], f) /\ array[i] \in Store /\ Overlap(f, array[i])
      BY <1>0, <2>2, FreshFacts, ZenonT(60)
    <3>2. b \in Bytes(array[i]) /\ b \in Bytes(f)
      BY <3>1, PartsBytes
    <3>3. st = "FLUSHED"
      BY <3>1, FlushedPartFacts DEF Effective
    <3> QED
      BY <1>1, <2>2, <3>2, <3>3
  <2>3. CASE i \notin FreshSlots(f)
    <3>1. array'[i] = array[i]
      <4>1. array[i].is_delete => [array[i] EXCEPT !.state = "FLUSHED"].is_delete
        BY Sorts DEF Store
      <4> QED
        BY <1>0, <2>3, <4>1, ZenonT(60)
    <3>k. PICK k \in 1 .. Last : i \in Slots(snippets[k])
      BY SnippetOf
    <3>2. i \in Slots(snippets[k]) /\ (AllFlushed(i)' <=> AllFlushed(i) \/ Whole(snippets[k], f))
      BY <1>0, <3>k, ZenonT(60)
    <3>3. /\ Effective(i)' = IF AllFlushed(i)' THEN "FLUSHED" ELSE array'[i].state
          /\ Effective(i) = IF AllFlushed(i) THEN "FLUSHED" ELSE array[i].state
      BY DEF Effective
    <3>4. Covered => InBox(array[i], snippets[k])
      BY <3>2 DEF Covered
    <3>5. CASE ~Whole(snippets[k], f)
      <4>1. InSlot(i, st, b)
        BY <3>1, <3>2, <3>3, <3>5 DEF InSlot
      <4>2. st = "DIRTY" /\ Covered => b \notin Bytes(f)
        BY <2>3, <3>2, <3>4, <3>5, <4>1, FlushMisses DEF InSlot
      <4> QED
        BY <4>1, <4>2
    <3>6. CASE Whole(snippets[k], f)
      <4>1. st = "FLUSHED" /\ InSlot(i, Effective(i), b)
        BY <3>1, <3>2, <3>3, <3>6 DEF InSlot
      <4>2. Effective(i) \in {"DIRTY", "FLUSHED", "CLEAN"}
        BY <3>3, Sorts DEF State
      <4>3. Covered => b \in Bytes(f)
        BY <3>1, <3>2, <3>4, <3>6, FlushMisses
      <4> QED
        BY <4>1, <4>2, <4>3
    <3> QED
      BY <3>5, <3>6
  <2> QED
    BY <2>2, <2>3
<1>3. ASSUME NEW p \in Remainders(f), NEW b \in Bytes(Remainder(p, f))
      PROVE  Remainder(p, f).state = "DIRTY" /\ was("DIRTY", b) /\ b \notin Bytes(f)
  BY <1>1, <1>3, RemainderFacts
<1>4. ASSUME NEW st \in State, NEW b, NEW i \in LiveSlots' \ LiveSlots, InSlot(i, st, b)'
      PROVE  ok(st, b)
  <2>1. Effective(i)' = st /\ b \in Bytes(array'[i])
    BY <1>4 DEF InSlot, Bytes, End
  <2>2. PICK p \in Remainders(f) : array'[i] = Remainder(p, f)
    BY FlushSlots
  <2>3. /\ Effective(i)' = IF AllFlushed(i)' THEN "FLUSHED" ELSE array'[i].state
        /\ AllFlushed(i)' <=> Whole(Current, f)
    BY FlushSlots DEF Effective
  <2>4. array'[i].state = "DIRTY" /\ was("DIRTY", b) /\ b \notin Bytes(f)
    BY <1>3, <2>1, <2>2
  <2>5. SplitsCurrentOnly(f) => ~Whole(Current, f)
    BY <2>2, SplitScanned
  <2> QED
    BY <2>1, <2>3, <2>4, <2>5
<1>5. ASSUME NEW st \in State, NEW b, NEW d, InNode(d, st, b)'
      PROVE  ok(st, b)
  <2>1. d \in tree' /\ d.state = st /\ b \in Bytes(d)
    BY <1>5 DEF InNode, Bytes, End
  <2> USE <2>1
  <2>2. CASE \E p \in Remainders(f) : d = Remainder(p, f)
    BY <1>3, <2>2
  <2>3. ASSUME NEW e \in tree, Touches(box, f), d \in FlushNode(e, f)
        PROVE  ok(st, b)
    <3>1. e \in Store /\ e.addr \in Nat /\ e.size \in Nat /\ f.addr \in Nat /\ f.size \in Nat
      BY Sorts DEF IsRange
    <3>2. CASE d = e /\ (e.state = "DIRTY" => ~Overlap(f, e))
      <4>1. st = "DIRTY" => b \notin Bytes(f)
        BY <3>1, <3>2, Shared
      <4>2. InNode(e, st, b)
        BY <3>2 DEF InNode
      <4> QED
        BY <4>1, <4>2
    <3>3. CASE /\ e.state = "DIRTY" /\ d.state = "FLUSHED"
               /\ \A x : x \in Bytes(d) => x \in Bytes(e) /\ x \in Bytes(f)
      BY <3>3 DEF InNode
    <3>4. CASE /\ e.state = "DIRTY" /\ d.state = "DIRTY"
               /\ \A x : x \in Bytes(d) => x \in Bytes(e) /\ x \notin Bytes(f)
      BY <3>4 DEF InNode
    <3> QED
      BY <2>3, <3>1, <3>2, <3>3, <3>4, NodeParts
  <2>4. ASSUME ~Touches(box, f), d \in tree
        PROVE  ok(st, b)
    <3>1. d.addr \in Nat /\ d.size \in Nat /\ f.addr \in Nat /\ f.size \in Nat
      BY <2>4, Sorts DEF IsRange
    <3>2. Covered => b \notin Bytes(f)
      BY <2>4, <3>1, Sorts, Shared DEF Covered
    <3>3. InNode(d, st, b)
      BY <2>4 DEF InNode
    <3> QED
      BY <3>2, <3>3
  <2> QED
    BY <2>2, <2>3, <2>4, FlushNodes
<1>6. ASSUME NEW st \in State, NEW b \in BytesIn(st)'
      PROVE  ok(st, b)
  <2>1. \A i : InSlot(i, st, b)' => i \in LiveSlots'
    BY DEF InSlot
  <2> HIDE DEF ok
  <2> QED
    BY <1>2, <1>4, <1>5, <2>1, InBytesNext
<1>7. \A st, b : b \in BytesIn(st) <=> was(st, b)
  BY InBytes
<1>8. "DIRTY" \in State /\ "FLUSHED" \in State /\ "CLEAN" \in State
  BY DEF State
<1> HIDE DEF was
<1> QED
  BY <1>6, <1>7, <1>8 DEF DirtyBytes, FlushedBytes, StatelessBytes

\* Where the boxes cover the stores and only stores of the current snippet
\* are split, no byte is lost: flushed bytes stay flushed, dirty ones become
\* flushed in the range and stay dirty outside.
LEMMA FlushKeeps ==
  ASSUME Layout, Covered, NEW f, IsRange(f), SplitsCurrentOnly(f),
         array' = FlushArray(f), snippets' = FlushSnippets(f), tree' = FlushTree(f)
  PROVE  /\ \A b \in DirtyBytes : IF b \in Bytes(f) THEN b \in FlushedBytes' ELSE b \in DirtyBytes'
         /\ \A b \in FlushedBytes : b \in FlushedBytes'
<1> DEFINE now(st, b) == (\E i : InSlot(i, st, b)') \/ (\E e : InNode(e, st, b)')
           ok(st, b) == /\ st = "DIRTY" /\ b \in Bytes(f) => now("FLUSHED", b)
                        /\ st = "DIRTY" /\ b \notin Bytes(f) => now("DIRTY", b)
                        /\ st = "FLUSHED" => now("FLUSHED", b)
<1>0. \A i \in LiveSlots :
        /\ i \in FreshSlots(f) => array'[i] = FlushedPart(array[i], f)
        /\ i \notin FreshSlots(f) =>
             \/ array'[i] = array[i]
             \/ array[i].is_delete /\ array'[i] = [array[i] EXCEPT !.state = "FLUSHED"]
        /\ \A k \in 1 .. Last : i \in Slots(snippets[k]) =>
             (AllFlushed(i)' <=> AllFlushed(i) \/ Whole(snippets[k], f))
  BY FlushSlots
<1>1. LiveSlots \subseteq LiveSlots'
  BY FlushSlots
<1>2. ASSUME NEW p \in Remainders(f), NEW b \in Bytes(Remainder(p, f))
      PROVE  now("DIRTY", b)
  <2>1. Remainder(p, f).state = "DIRTY" /\ ~Remainder(p, f).is_delete
    BY RemainderFacts
  <2>2. ~Whole(Current, f)
    BY SplitScanned
  <2>3. CASE SlotOf(Remainders(f), p) < MAX_ARRAY_NUM
    <3>1. PICK i \in LiveSlots' \ LiveSlots : array'[i] = Remainder(p, f)
      BY <2>3, FlushSlots
    <3>2. ~AllFlushed(i)'
      BY <2>2, FlushSlots
    <3>3. Effective(i)' = "DIRTY"
      BY <2>1, <3>1, <3>2 DEF Effective
    <3>4. InSlot(i, "DIRTY", b)'
      BY <1>2, <2>1, <3>1, <3>3 DEF InSlot, Bytes, End
    <3> QED
      BY <3>4
  <2>4. CASE SlotOf(Remainders(f), p) >= MAX_ARRAY_NUM
    <3>1. PICK d : d = Remainder(p, f)
      OBVIOUS
    <3>2. d \in tree'
      BY <2>4, <3>1, FlushNodes
    <3>3. InNode(d, "DIRTY", b)'
      BY <1>2, <2>1, <3>1, <3>2 DEF InNode, Bytes, End
    <3> QED
      BY <3>3
  <2>5. SlotOf(Remainders(f), p) \in Nat /\ MAX_ARRAY_NUM \in Nat
    BY RemaindersNat, Appended, Ranges
  <2> HIDE DEF now
  <2> QED
    BY <2>3, <2>4, <2>5
<1>3. ASSUME NEW st \in {"DIRTY", "FLUSHED"}, NEW b, NEW i \in LiveSlots, InSlot(i, st, b)
      PROVE  ok(st, b)
  <2>1. ~array[i].is_delete /\ Effective(i) = st /\ b \in Bytes(array[i]) /\ array[i] \in Store
    BY <1>3, Sorts DEF InSlot
  <2> USE <2>1
  <2>2. i \in LiveSlots'
    BY <1>1
  <2>3. CASE i \in FreshSlots(f)
    <3>1. array'[i] = FlushedPart(array[i], f) /\ Overlap(f, array[i]) /\ st = "DIRTY"
      BY <1>0, <2>3, FreshFacts, ZenonT(60)
    <3>6. /\ FlushedPart(array[i], f).state = "FLUSHED"
          /\ FlushedPart(array[i], f).is_delete = array[i].is_delete
      BY <3>1, FlushedPartFacts, ZenonT(60)
    <3>2. array'[i].state = "FLUSHED" /\ ~array'[i].is_delete
      BY <3>1, <3>6, ZenonT(60)
    <3>3. Effective(i)' = "FLUSHED"
      BY <3>2 DEF Effective
    <3>4. CASE b \in Bytes(f)
      <4>1. b \in Bytes(array'[i])
        BY <3>1, <3>4, PartsBytes
      <4>2. InSlot(i, "FLUSHED", b)'
        BY <2>2, <3>2, <3>3, <4>1 DEF InSlot, Bytes, End
      <4> QED
        BY <3>1, <3>4, <4>2
    <3>5. CASE b \notin Bytes(f)
      <4>1. PICK p \in Remainders(f) : b \in Bytes(Remainder(p, f))
        BY <2>3, <3>5, RemainderOf
      <4> QED
        BY <1>2, <3>1, <3>5, <4>1
    <3> QED
      BY <3>4, <3>5
  <2>4. CASE i \notin FreshSlots(f)
    <3>1. array'[i] = array[i]
      BY <1>0, <2>4, ZenonT(60)
    <3>2. PICK k \in 1 .. Last : i \in Slots(snippets[k])
      BY SnippetOf
    <3>3. AllFlushed(i)' <=> AllFlushed(i) \/ Whole(snippets[k], f)
      BY <1>0, <3>2, ZenonT(60)
    <3>4. InBox(array[i], snippets[k])
      BY <3>2 DEF Covered
    <3>5. /\ Effective(i)' = IF AllFlushed(i)' THEN "FLUSHED" ELSE array'[i].state
          /\ Effective(i) = IF AllFlushed(i) THEN "FLUSHED" ELSE array[i].state
      BY DEF Effective
    <3>6. ASSUME NEW s, Effective(i)' = s
          PROVE  InSlot(i, s, b)'
      BY <2>2, <3>1, <3>6 DEF InSlot, Bytes, End
    <3>7. CASE Whole(snippets[k], f)
      <4>1. Effective(i)' = "FLUSHED" /\ b \in Bytes(f)
        BY <3>2, <3>3, <3>4, <3>5, <3>7, FlushMisses
      <4> QED
        BY <3>6, <4>1
    <3>8. CASE ~Whole(snippets[k], f)
      <4>1. Effective(i)' = st
        BY <3>1, <3>3, <3>5, <3>8
      <4>2. st = "DIRTY" => b \notin Bytes(f)
        BY <2>4, <3>2, <3>4, <3>8, FlushMisses
      <4>3. now(st, b)
        BY <3>6, <4>1
      <4> HIDE DEF now
      <4> QED
        BY <4>2, <4>3
    <3> HIDE DEF ok
    <3> QED
      BY <3>7, <3>8
  <2> HIDE DEF ok
  <2> QED
    BY <2>3, <2>4
<1>4. ASSUME NEW st \in {"DIRTY", "FLUSHED"}, NEW b, NEW e, InNode(e, st, b)
      PROVE  ok(st, b)
  <2>1. e \in tree /\ e.state = st /\ b \in Bytes(e) /\ e \in Store
    BY <1>4, Sorts DEF InNode
  <2> USE <2>1
  <2>2. ASSUME NEW d \in tree', b \in Bytes(d), d.state = "FLUSHED" \/ d.state = "DIRTY"
        PROVE  now(d.state, b)
    BY <2>2 DEF InNode, Bytes, End
  <2>3. CASE Touches(box, f)
    <3>1. PICK d \in FlushNode(e, f) :
            b \in Bytes(d) /\ d.state = IF st = "DIRTY" /\ b \in Bytes(f) THEN "FLUSHED" ELSE st
      BY NodeParts
    <3>2. d \in tree'
      BY <2>3, FlushNodes
    <3> HIDE DEF now
    <3> QED
      BY <2>2, <3>1, <3>2
  <2>4. CASE ~Touches(box, f)
    <3>1. e \in tree'
      BY <2>4, FlushNodes
    <3>2. e.addr \in Nat /\ e.size \in Nat /\ f.addr \in Nat /\ f.size \in Nat
      BY Sorts DEF IsRange
    <3>3. b \notin Bytes(f)
      BY <2>4, <3>2, Sorts, Shared DEF Covered
    <3> HIDE DEF now
    <3> QED
      BY <2>2, <3>1, <3>3
  <2> QED
    BY <2>3, <2>4
<1>5. ASSUME NEW st \in {"DIRTY", "FLUSHED"}, NEW b \in BytesIn(st)
      PROVE  ok(st, b)
  <2>1. \A i : InSlot(i, st, b) => i \in LiveSlots
    BY DEF InSlot
  <2> HIDE DEF ok
  <2> QED
    BY <1>3, <1>4, <1>5, <2>1, InBytes
<1>6. \A st, b : b \in BytesIn(st)' <=> now(st, b)
  BY InBytesNext
<1> HIDE DEF now
<1> QED
  BY <1>5, <1>6 DEF DirtyBytes, FlushedBytes
----------------------------------------------------------------------------
\* A flush that splits stores of the current snippet only, with room for the
\* remainders, leaves every store inside its box.
LEMMA FlushCovers ==
  ASSUME Layout, Layout', Covered, NEW f, IsRange(f), SplitsCurrentOnly(f),
         Current.index + Cardinality(Remainders(f)) <= MAX_ARRAY_NUM,
         array' = FlushArray(f), snippets' = FlushSnippets(f), tree' = FlushTree(f), box' = box
  PROVE  Covered'
<1> DEFINE P == Remainders(f)
<1>1. P \subseteq Nat /\ IsFiniteSet(P)
  BY RemaindersNat
<1>2. \A p \in P : SlotOf(P, p) < MAX_ARRAY_NUM
  <2>1. /\ Cardinality(P) \in Nat
        /\ \A p \in P : Cardinality({q \in P : q < p}) \in 0 .. Cardinality(P) - 1
    BY <1>1, Zenon DEF Layout, NaturalSets
  <2>2. Current.index \in Nat /\ MAX_ARRAY_NUM \in Nat
    BY CurrentSnippet, Ranges
  <2> HIDE DEF P
  <2>3. Current.index + Cardinality(P) <= MAX_ARRAY_NUM
    BY DEF P
  <2> QED
    BY <2>1, <2>2, <2>3 DEF SlotOf
<1>3. ASSUME NEW e \in Store, NEW d, d.addr \in Nat, End(d) \in Nat, e.addr <= d.addr, End(d) <= End(e),
             NEW x, x.min_add \in Nat, x.max_add \in Nat, InBox(e, x)
      PROVE  InBox(d, x)
  <2>1. e.addr \in Nat /\ End(e) \in Nat
    BY DEF Store, End
  <2> QED
    BY <1>3, <2>1, Ranges DEF InBox
<1>4. /\ \A d \in tree' : d \in Store /\ d.addr \in Nat /\ End(d) \in Nat
      /\ \A i \in 0 .. MAX_ARRAY_NUM - 1 :
           array'[i] \in Store /\ array'[i].addr \in Nat /\ End(array'[i]) \in Nat
  <2>1. \A d \in Store : d.addr \in Nat /\ End(d) \in Nat
    BY DEF Store, End
  <2>2. /\ \A d \in tree' : d \in Store
        /\ \A i \in 0 .. MAX_ARRAY_NUM - 1 : array'[i] \in Store
    BY DEF Layout, TypeOK
  <2> QED
    BY <2>1, <2>2
<1>5. \A e \in tree' : InBox(e, box')
  <2> TAKE d \in tree'
  <2>1. PICK e \in tree : IF Touches(box, f) THEN d \in FlushNode(e, f) ELSE d = e
    <3>1. \A p \in P : ~(SlotOf(P, p) >= MAX_ARRAY_NUM)
      <4>1. \A p \in P : SlotOf(P, p) \in Nat
        BY <1>1, Appended
      <4> QED
        BY <1>2, <4>1, Ranges
    <3> QED
      BY <3>1, FlushNodes
  <2>2. e \in Store /\ InBox(e, box) /\ box.min_add \in Nat /\ box.max_add \in Nat
    BY Sorts DEF Covered
  <2>3. d = e \/ (e.addr <= d.addr /\ End(d) <= End(e))
    BY <2>1, <2>2, NodeParts
  <2>4. InBox(d, box)
    BY <1>3, <1>4, <2>2, <2>3
  <2> QED
    BY <2>4
<1>6. ASSUME NEW k \in 1 .. Last, NEW i \in LiveSlots, i \in Slots(snippets[k])
      PROVE  InBox(array'[i], snippets[k])
  <2>1. /\ array[i] \in Store /\ InBox(array[i], snippets[k])
        /\ snippets[k].min_add \in Nat /\ snippets[k].max_add \in Nat
        /\ array'[i].addr \in Nat /\ End(array'[i]) \in Nat
    BY <1>4, <1>6, Sorts, LiveSlotsType DEF Covered
  <2>2. array[i].addr <= array'[i].addr /\ End(array'[i]) <= End(array[i])
    <3>1. CASE i \in FreshSlots(f)
      <4>1. array'[i] = FlushedPart(array[i], f) /\ Overlap(f, array[i])
        BY <3>1, FlushSlots, FreshFacts
      <4> QED
        BY <2>1, <4>1, FlushedPartFacts
    <3>2. CASE array'[i] = array[i]
      <4>1. array[i].addr \in Nat /\ End(array[i]) \in Nat
        BY <2>1, <3>2
      <4> QED
        BY <3>2, <4>1
    <3>3. CASE array'[i] = [array[i] EXCEPT !.state = "FLUSHED"]
      <4>1. /\ array'[i].addr = array[i].addr /\ array'[i].size = array[i].size
        BY <2>1, <3>3 DEF Store
      <4>2. End(array'[i]) = End(array[i])
        BY <4>1 DEF End
      <4> QED
        BY <2>1, <4>1, <4>2
    <3> QED
      BY <3>1, <3>2, <3>3, FlushSlots
  <2> QED
    BY <1>3, <2>1, <2>2
<1>7. ASSUME NEW i \in LiveSlots' \ LiveSlots
      PROVE  InBox(array'[i], Current) /\ i \in Slots(snippets'[Last])
  <2>1. i \in Slots(snippets'[Last])
    BY FlushSlots
  <2>2. PICK p \in P : array'[i] = Remainder(p, f)
    BY FlushSlots
  <2>3. PICK j \in FreshSlots(f) :
          /\ array[j].addr <= array'[i].addr /\ End(array'[i]) <= End(array[j])
          /\ ~Within(array[j], f)
    BY <2>2, RemainderFacts
  <2>4. j \in Slots(Current) /\ array[j] \in Store
    BY <2>3, FreshFacts DEF SplitsCurrentOnly
  <2>5. Last \in Nat \ {0}
    BY CurrentSnippet
  <2> Last \in 1 .. Last /\ Current = snippets[Last]
    BY <2>5 DEF Current
  <2>6. InBox(array[j], Current) /\ Current.min_add \in Nat /\ Current.max_add \in Nat
    BY <2>4, Sorts DEF Covered
  <2>7. array'[i].addr \in Nat /\ End(array'[i]) \in Nat
    <3>1. Remainder(p, f) \in Store
      BY RemaindersType
    <3> QED
      BY <2>2, <3>1 DEF Store, End
  <2> QED
    BY <1>3, <2>1, <2>3, <2>4, <2>6, <2>7
<1>8. ASSUME NEW k \in 1 .. Last', NEW i \in Slots(snippets'[k])
      PROVE  InBox(array'[i], snippets'[k])
  <2> DEFINE n == Current'.index
  <2>1. /\ Last \in Nat \ {0} /\ Last \in 1 .. Last /\ Current = snippets[Last]
        /\ \A j \in 1 .. Last : snippets[j] \in Snippet
        /\ Current.index \in Nat
    BY CurrentSnippet DEF Current
  <2>2. n \in Nat /\ n >= Current.index
    BY <1>1, FlushMarks, IndexAfterType, Ranges
  <2>3. Last' = Last \/ (Last' = Last + 1 /\ snippets'[Last'] = init_snippet_info(n))
    BY <1>1, FlushMarks
  <2>4. /\ \A j \in 1 .. Last :
             /\ snippets'[j].start_index = snippets[j].start_index
             /\ snippets'[j].min_add = snippets[j].min_add
             /\ snippets'[j].max_add = snippets[j].max_add
             /\ snippets'[j].index = IF j = Last THEN n ELSE snippets[j].index
    BY <1>1, FlushMarks
  <2>5. LiveSlots' = 0 .. n - 1 /\ LiveSlots = 0 .. Current.index - 1
    BY DEF LiveSlots
  <2> HIDE DEF n
  <2>6. k \in 1 .. Last
    <3> SUFFICES ASSUME Last' = Last + 1, k = Last + 1
                 PROVE  FALSE
      BY <2>1, <2>3
    <3>1. snippets'[k] = init_snippet_info(n)
      BY <2>1, <2>3
    <3>2. Slots(snippets'[k]) = {}
      BY <2>2, <3>1 DEF Slots, init_snippet_info
    <3> QED
      BY <1>8, <3>2
  <2>7. ASSUME NEW e, InBox(e, snippets[k])
        PROVE  InBox(e, snippets'[k])
    BY <2>4, <2>6, <2>7 DEF InBox
  <2>8. CASE i \in Slots(snippets[k])
    <3>1. i \in LiveSlots
      BY <2>6, <2>8, LiveSlotsType
    <3> QED
      BY <1>6, <2>6, <2>7, <2>8, <3>1
  <2>9. CASE i \notin Slots(snippets[k])
    <3>1. k = Last /\ i \in LiveSlots' \ LiveSlots
      <4>1. k = Last
        BY <1>8, <2>4, <2>6, <2>9 DEF Slots
      <4>2. /\ Current.start_index \in Nat /\ snippets'[k].start_index = Current.start_index
            /\ snippets'[k].index = n /\ snippets[k].index = Current.index
            /\ snippets[k].start_index = Current.start_index
        BY <2>1, <2>4, <4>1, Ranges DEF Snippet
      <4> QED
        BY <1>8, <2>1, <2>2, <2>5, <2>9, <4>1, <4>2 DEF Slots
    <3> QED
      BY <1>7, <2>1, <2>7, <3>1
  <2> QED
    BY <2>8, <2>9
<1> QED
  BY <1>5, <1>8 DEF Covered, InBox, End, Slots

\* do_flush meets a store again, in a slot or in the tree, only where a store
\* that is tracked and not dirty has a byte in the range, or where a node of
\* the tree was split.
LEMMA RedundantMeets ==
  ASSUME Layout, Sized, NEW f, IsRange(f),
         \/ \E k \in 1 .. Last : Scanned(snippets[k], f) /\ Met(snippets[k], f) # Fresh(snippets[k], f)
         \/ \E e \in tree : RedundantNode(e, f)
  PROVE  \/ \E b : b \in Bytes(f) /\ (b \in FlushedBytes \/ b \in StatelessBytes)
         \/ SplitsNode(f)
<1>2. f.addr \in Nat /\ f.size \in Nat /\ f.size > 0 /\ End(f) \in Nat
  BY DEF IsRange, End
<1>3. ASSUME NEW k \in 1 .. Last, Met(snippets[k], f) # Fresh(snippets[k], f)
      PROVE  \E b : b \in Bytes(f) /\ (b \in FlushedBytes \/ b \in StatelessBytes)
  <2>1. PICK i \in Met(snippets[k], f) : i \notin Fresh(snippets[k], f)
    BY <1>3 DEF Fresh
  <2>2. /\ i \in Slots(snippets[k]) /\ i \in LiveSlots /\ ~array[i].is_delete /\ Overlap(f, array[i])
        /\ snippets[k].flushed_num = "ALL_FLUSHED" \/ array[i].state # "DIRTY"
    BY <2>1, LiveSlotsType DEF Met, Fresh
  <2>3. array[i].addr \in Nat /\ array[i].size \in Nat /\ array[i].size > 0 /\ array[i].state \in State
    BY <2>2, Sorts DEF Sized
  <2>4. PICK b : b \in Bytes(array[i]) /\ b \in Bytes(f)
    BY <1>2, <2>2, <2>3, Shared
  <2>5. Effective(i) = "FLUSHED" \/ Effective(i) = "CLEAN"
    BY <2>2, <2>3 DEF Effective, AllFlushed, State
  <2>6. InSlot(i, Effective(i), b)
    BY <2>2, <2>4 DEF InSlot
  <2> QED
    BY <2>4, <2>5, <2>6, InBytes DEF FlushedBytes, StatelessBytes
<1>4. ASSUME NEW e \in tree, RedundantNode(e, f), ~SplitsNode(f)
      PROVE  \E b : b \in Bytes(f) /\ (b \in FlushedBytes \/ b \in StatelessBytes)
  <2>1. /\ e.addr \in Nat /\ e.size \in Nat /\ e.size > 0 /\ e.state \in State /\ End(e) \in Nat
    BY Sorts DEF Sized, End
  <2>2. Overlap(f, e) /\ Overlap(e, f) /\ e.state # "DIRTY"
    BY <1>2, <1>4, <2>1 DEF RedundantNode, SplitsNode, Overlap, Within
  <2>3. PICK b : b \in Bytes(e) /\ b \in Bytes(f)
    BY <1>2, <2>1, <2>2, Shared
  <2>4. InNode(e, e.state, b) /\ (e.state = "FLUSHED" \/ e.state = "CLEAN")
    BY <2>1, <2>2, <2>3 DEF InNode, State
  <2> QED
    BY <2>3, <2>4, InBytes DEF FlushedBytes, StatelessBytes
<1> QED
  BY <1>3, <1>4

\* A redundant flush is registered in those cases only.
LEMMA FlushRedundant ==
  ASSUME Layout, Sized, NEW f, IsRange(f), FlushEvents(f).redundant
  PROVE  \/ \E b : b \in Bytes(f) /\ (b \in FlushedBytes \/ b \in StatelessBytes)
         \/ SplitsNode(f)
<1>1. \/ \E k \in 1 .. Last : Scanned(snippets[k], f) /\ Met(snippets[k], f) # Fresh(snippets[k], f)
      \/ \E e \in tree : RedundantNode(e, f)
  BY DEF FlushEvents, Quiet
<1> QED
  BY <1>1, RedundantMeets
----------------------------------------------------------------------------
\* do_flush keeps the invariant: no slot is taken into use, and the snippet
\* in which later stores go has no store that the flush has marked.
LEMMA FlushRecorded ==
  ASSUME GranularInv, NEW q \in Flushes, do_flush(q)
  PROVE  /\ Covered' /\ Recorded' /\ LiveSlots' = LiveSlots
         /\ \A i \in LiveSlots : /\ array'[i].addr = array[i].addr /\ array'[i].size = array[i].size
                                 /\ array'[i].is_delete = array[i].is_delete
                                 /\ array'[i].inEpoch = array[i].inEpoch
<1> DEFINE f == flush_info(q)
<1>1. /\ f \in FlushRanges /\ array' = FlushArray(f) /\ snippets' = FlushSnippets(f)
      /\ tree' = FlushTree(f) /\ box' = box /\ Layout /\ Layout' /\ Granular /\ Covered /\ Recorded
  BY FlushLayout DEF do_flush, FlushRanges, GranularInv
<1> USE <1>1
<1> HIDE DEF f
<1>2. /\ IsRange(f) /\ Remainders(f) = {} /\ SplitsCurrentOnly(f)
      /\ Current.index + Cardinality(Remainders(f)) <= MAX_ARRAY_NUM
  BY GranularNoSplit
<1> USE <1>2
<1>3. Covered'
  BY FlushCovers
<1>4. LiveSlots \subseteq LiveSlots' /\ LiveSlots' \ LiveSlots = {}
  BY FlushSlots
<1>5. ASSUME NEW i \in LiveSlots
      PROVE  /\ array[i] \in Store /\ array'[i].addr = array[i].addr /\ array'[i].size = array[i].size
             /\ array'[i].is_delete = array[i].is_delete /\ array'[i].inEpoch = array[i].inEpoch
             /\ array'[i].state # "CLEAN"
             /\ i \notin FreshSlots(f) => array[i].is_delete \/ array'[i] = array[i]
  <2>1. /\ array[i] \in Store /\ array[i].state # "CLEAN"
        /\ array[i] \in [addr : Nat, size : Nat, state : State, is_delete : BOOLEAN, inEpoch : BOOLEAN]
    BY Sorts DEF Recorded, Store
  <2>2. CASE i \in FreshSlots(f)
    <3>1. /\ array'[i] = FlushedPart(array[i], f) /\ Overlap(f, array[i])
      BY <2>2, FlushSlots, FreshFacts
    <3>4. /\ FlushedPart(array[i], f).state = "FLUSHED"
          /\ FlushedPart(array[i], f).is_delete = array[i].is_delete
          /\ FlushedPart(array[i], f).inEpoch = array[i].inEpoch
      BY <2>1, <3>1, FlushedPartFacts, ZenonT(60)
    <3>2. /\ array'[i].state = "FLUSHED" /\ array'[i].is_delete = array[i].is_delete
          /\ array'[i].inEpoch = array[i].inEpoch
      BY <3>1, <3>4, ZenonT(60)
    <3>3. array'[i].addr = array[i].addr /\ array'[i].size = array[i].size
      BY <2>2, <3>1, GranularNoSplit
    <3> QED
      BY <2>1, <2>2, <3>2, <3>3
  <2>3. CASE i \notin FreshSlots(f)
    <3>1. \/ array'[i] = array[i]
          \/ array[i].is_delete /\ array'[i] = [array[i] EXCEPT !.state = "FLUSHED"]
      BY <2>3, FlushSlots
    <3> QED
      BY <2>1, <2>3, <3>1
  <2> QED
    BY <2>2, <2>3
<1>6. \A i \in LiveSlots' : IsStored(array[i])' /\ array'[i].state # "CLEAN"
  <2>1. ASSUME NEW i \in LiveSlots'
        PROVE  IsStored(array[i])' /\ array'[i].state # "CLEAN"
    <3>1. i \in LiveSlots /\ IsStored(array[i])
      BY <1>4 DEF Recorded
    <3>2. /\ array'[i].addr = array[i].addr /\ array'[i].size = array[i].size
          /\ array'[i].state # "CLEAN"
      BY <1>5, <3>1, ZenonT(60)
    <3> QED
      BY <3>1, <3>2 DEF IsStored
  <2> QED
    BY <2>1
<1>7. \A d \in tree' : IsStored(d) /\ d.state # "CLEAN" /\ ~d.is_delete
  <2> SUFFICES ASSUME NEW d \in tree'
               PROVE  IsStored(d) /\ d.state # "CLEAN" /\ ~d.is_delete
    OBVIOUS
  <2>1. PICK e \in tree : d = e \/ d \in FlushNode(e, f)
    BY FlushNodes
  <2>2. d = e \/ d = [e EXCEPT !.state = "FLUSHED"]
    BY <2>1, GranularNoSplit
  <2>3. /\ IsStored(e) /\ e.state # "CLEAN" /\ ~e.is_delete
        /\ e \in [addr : Nat, size : Nat, state : State, is_delete : BOOLEAN, inEpoch : BOOLEAN]
    BY Sorts DEF Recorded, Store
  <2> QED
    BY <2>2, <2>3 DEF IsStored
<1>8. /\ \A i \in Slots(Current)' : array'[i].is_delete \/ array'[i].state = "DIRTY"
      /\ ProperBox(Current', NoAddr)
  <2>1. IsFiniteSet(Remainders(f))
    BY RemaindersType
  <2>2. Last' = Last \/ (Last' = Last + 1 /\ snippets'[Last'] = init_snippet_info(Current'.index))
    BY <2>1, FlushMarks
  <2>3. Last \in Nat \ {0} /\ Last \in 1 .. Last
    BY CurrentSnippet
  <2>4. CASE Last' = Last
    <3>1. ~Whole(Current, f) /\ (Scanned(Current, f) => Fresh(Current, f) = {})
      BY <2>1, <2>4, FlushMarks
    <3>2. /\ Current'.start_index = Current.start_index /\ Current'.min_add = Current.min_add
          /\ Current'.max_add = Current.max_add
      BY <2>1, <2>3, <2>4, FlushMarks DEF Current
    <3>3. Current'.index = Current.index
      <4>1. Current'.index \in Nat /\ Current.index \in Nat
        BY CurrentSnippet, NextSnippet
      <4> QED
        BY <1>4, <4>1 DEF LiveSlots
    <3>4. ASSUME NEW i \in Slots(Current)'
          PROVE  array'[i].is_delete \/ array'[i].state = "DIRTY"
      <4>1. i \in Slots(Current)
        BY <3>2, <3>3 DEF Slots
      <4>2. i \in LiveSlots
        BY <4>1, CurrentSnippet, Ranges DEF Slots, LiveSlots, Snippet
      <4>3. i \notin FreshSlots(f)
        <5> SUFFICES ASSUME i \in FreshSlots(f)
                     PROVE  FALSE
          OBVIOUS
        <5>1. PICK k \in 1 .. Last : Scanned(snippets[k], f) /\ i \in Fresh(snippets[k], f)
          BY FreshFacts
        <5>2. i \in Slots(snippets[k])
          BY <5>1 DEF Fresh, Met
        <5>3. k = Last
          BY <2>3, <4>1, <4>2, <5>2, SnippetOf DEF Current
        <5> QED
          BY <3>1, <5>1, <5>3 DEF Current
      <4>4. array[i].is_delete \/ array[i].state = "DIRTY"
        BY <4>1 DEF Recorded
      <4> QED
        BY <1>5, <4>2, <4>3, <4>4
    <3>5. ProperBox(Current', NoAddr)
      BY <3>2 DEF ProperBox, Recorded
    <3> QED
      BY <3>4, <3>5
  <2>5. CASE Last' = Last + 1 /\ snippets'[Last'] = init_snippet_info(Current'.index)
    <3>1. Current' = init_snippet_info(Current'.index)
      BY <2>5 DEF Current
    <3>2. Current'.index \in Nat
      BY NextSnippet
    <3>3. Slots(Current)' = {} /\ ProperBox(Current', NoAddr)
      BY <3>1, <3>2 DEF init_snippet_info, Slots, ProperBox
    <3> QED
      BY <3>3
  <2> QED
    BY <2>2, <2>4, <2>5
<1>9. Recorded'
  <2>1. ProperBox(box', NoAddr)
    BY DEF Recorded
  <2> QED
    BY <1>6, <1>7, <1>8, <2>1 DEF Recorded, IsStored
<1>10. LiveSlots' = LiveSlots
  BY <1>4
<1> QED
  BY <1>3, <1>5, <1>9, <1>10

\* The events of a flush, byte by byte: redundant when it meets flushed bytes,
\* superfluous when it meets nothing; only whether a store that SET_CLEAN
\* deleted counts as met depends on the snippet it is in.
LEMMA FlushReports ==
  ASSUME GranularInv, NEW f \in FlushRanges
  PROVE  \E nothing \in BOOLEAN :
           /\ (DirtyBytes \cup FlushedBytes \cup CleanedBytes) \cap Bytes(f) = {} => nothing
           /\ nothing => (DirtyBytes \cup FlushedBytes) \cap Bytes(f) = {}
           /\ FlushEvents(f) = [Quiet EXCEPT
                !.redundant = check_flush /\ FlushedBytes \cap Bytes(f) # {},
                !.superfluous = check_flush /\ nothing]
<1> DEFINE scanned == {k \in 1 .. Last : Scanned(snippets[k], f)}
           redundant == \/ \E k \in scanned : Met(snippets[k], f) # Fresh(snippets[k], f)
                        \/ Touches(box, f) /\ \E e \in tree : RedundantNode(e, f)
           valid == \/ \E k \in 1 .. Last : Whole(snippets[k], f)
                    \/ \E k \in scanned : Met(snippets[k], f) # {}
                    \/ Touches(box, f) /\ \E e \in tree : Overlap(f, e)
<1>1. Layout /\ Sized /\ Recorded /\ Covered /\ IsRange(f) /\ Granular
  BY Ranges, GranularByteInv DEF GranularInv, ByteInv
<1> USE <1>1
<1>2. FlushEvents(f) = [Quiet EXCEPT !.redundant = check_flush /\ redundant,
                                     !.superfluous = check_flush /\ ~valid]
  BY DEF FlushEvents
<1>3. ASSUME NEW e \in tree, NEW b \in Bytes(e), b \in Bytes(f)
      PROVE  Touches(box, f) /\ Overlap(f, e)
  <2>1. /\ e.addr \in Nat /\ e.size \in Nat /\ f.addr \in Nat /\ f.size \in Nat
        /\ box.min_add \in Nat /\ box.max_add \in Nat /\ InBox(e, box)
    BY Sorts DEF IsRange, Covered
  <2>2. Overlap(f, e)
    BY <1>3, <2>1, Shared
  <2> QED
    BY <2>1, <2>2, Shared
<1>4. ASSUME NEW b \in FlushedBytes, b \in Bytes(f)
      PROVE  redundant
  <2>1. (\E i : InSlot(i, "FLUSHED", b)) \/ (\E e : InNode(e, "FLUSHED", b))
    BY <1>4, InBytes DEF FlushedBytes
  <2>2. CASE \E i : InSlot(i, "FLUSHED", b)
    <3>1. PICK i : i \in LiveSlots /\ ~array[i].is_delete /\ Effective(i) = "FLUSHED" /\ b \in Bytes(array[i])
      BY <2>2 DEF InSlot
    <3>2. PICK k \in 1 .. Last :
            /\ i \in Slots(snippets[k])
            /\ \/ Whole(snippets[k], f) /\ snippets[k] = Current
               \/ Scanned(snippets[k], f) /\ (~array[i].is_delete => i \in Met(snippets[k], f))
            /\ i \in Fresh(snippets[k], f) => Effective(i) = "DIRTY"
      BY <1>4, <3>1, FlushFinds
    <3>3. snippets[k] # Current
      BY <3>1, <3>2, Stateful
    <3>4. k \in scanned /\ i \in Met(snippets[k], f) /\ i \notin Fresh(snippets[k], f)
      BY <3>1, <3>2, <3>3
    <3> QED
      BY <3>4
  <2>3. CASE \E e : InNode(e, "FLUSHED", b)
    <3>1. PICK e : e \in tree /\ e.state = "FLUSHED" /\ b \in Bytes(e)
      BY <2>3 DEF InNode
    <3>2. Touches(box, f) /\ RedundantNode(e, f)
      BY <1>3, <1>4, <3>1 DEF RedundantNode
    <3> QED
      BY <3>1, <3>2
  <2> QED
    BY <2>1, <2>2, <2>3
<1>5. ASSUME redundant
      PROVE  \E b : b \in FlushedBytes /\ b \in Bytes(f)
  <2>1. ~SplitsNode(f)
    <3> SUFFICES ASSUME NEW e \in tree, Overlap(e, f), ~Within(e, f)
                 PROVE  FALSE
      BY DEF SplitsNode
    <3>1. e \in Store /\ IsStored(e) /\ Overlap(f, e)
      BY Sorts DEF Recorded, Overlap
    <3> QED
      BY <3>1, GranularWithin
  <2>2. \/ \E b : b \in Bytes(f) /\ (b \in FlushedBytes \/ b \in StatelessBytes)
        \/ SplitsNode(f)
    BY <1>5, RedundantMeets
  <2> QED
    BY <2>1, <2>2, Stateful
<1>6. ASSUME NEW b, b \in DirtyBytes \/ b \in FlushedBytes, b \in Bytes(f)
      PROVE  valid
  <2>1. \/ \E i : i \in LiveSlots /\ ~array[i].is_delete /\ b \in Bytes(array[i])
        \/ \E e : e \in tree /\ b \in Bytes(e)
    BY <1>6, InBytes DEF FlushedBytes, DirtyBytes, InSlot, InNode
  <2>2. CASE \E i : i \in LiveSlots /\ ~array[i].is_delete /\ b \in Bytes(array[i])
    BY <1>6, <2>2, FlushFinds
  <2>3. CASE \E e : e \in tree /\ b \in Bytes(e)
    BY <1>3, <1>6, <2>3
  <2> QED
    BY <2>1, <2>2, <2>3
<1>7. ASSUME valid
      PROVE  \E b : b \in Bytes(f) /\ (b \in DirtyBytes \/ b \in FlushedBytes \/ b \in CleanedBytes)
  <2>1. ASSUME NEW i \in LiveSlots, NEW b \in Bytes(array[i])
        PROVE  b \in DirtyBytes \/ b \in FlushedBytes \/ b \in CleanedBytes
    <3>1. CASE array[i].is_delete
      BY <2>1, <3>1, InCleaned
    <3>2. CASE ~array[i].is_delete
      <4>1. InSlot(i, "DIRTY", b) \/ InSlot(i, "FLUSHED", b)
        BY <2>1, <3>2, Stateful DEF InSlot
      <4> QED
        BY <4>1, InBytes DEF DirtyBytes, FlushedBytes
    <3> QED
      BY <3>1, <3>2
  <2>2. CASE \E k \in 1 .. Last : Whole(snippets[k], f)
    <3>1. PICK k \in 1 .. Last : Whole(snippets[k], f)
      BY <2>2
    <3>2. End(f) >= snippets[k].max_add /\ snippets[k].min_add >= f.addr
      BY <3>1 DEF Whole
    <3>3. snippets[k] \in Snippet /\ End(f) < NoAddr /\ End(f) \in Nat /\ NoAddr \in Nat
      BY CurrentSnippet, Ranges DEF IsRange, End
    <3>4. snippets[k].max_add # NoAddr
      BY <3>2, <3>3
    <3>5. snippets[k].start_index <= snippets[k].index /\ snippets[k].start_index # snippets[k].index
      BY <3>4 DEF Layout, SnippetsPartition
    <3> DEFINE i == snippets[k].start_index
    <3>6. i \in Slots(snippets[k])
      BY <3>3, <3>5, Ranges DEF Slots, Snippet
    <3>7. i \in LiveSlots /\ InBox(array[i], snippets[k])
      BY <3>6, SlotsLive DEF Covered
    <3>8. array[i].addr \in Nat /\ array[i].size \in Nat /\ array[i].size > 0
      BY <3>7, Sorts DEF Sized
    <3>9. array[i].addr \in Bytes(array[i])
      BY <3>8 DEF Bytes, End
    <3>10. array[i].addr \in Bytes(f)
      <4>1. /\ f.addr \in Nat /\ f.size \in Nat /\ snippets[k].min_add \in Nat /\ snippets[k].max_add \in Nat
        BY Sorts DEF IsRange
      <4>2. f.addr <= array[i].addr /\ array[i].addr < End(f)
        BY <3>2, <3>7, <3>8, <4>1 DEF InBox, End
      <4> QED
        BY <3>8, <4>1, <4>2 DEF Bytes, End
    <3> QED
      BY <2>1, <3>7, <3>9, <3>10
  <2>3. CASE \E k \in scanned : Met(snippets[k], f) # {}
    <3>1. PICK i \in LiveSlots : Overlap(f, array[i])
      BY <2>3, SlotsLive DEF Met
    <3>2. i \in LiveSlots
      OBVIOUS
    <3>3. /\ array[i].addr \in Nat /\ array[i].size \in Nat /\ array[i].size > 0
          /\ f.addr \in Nat /\ f.size \in Nat /\ f.size > 0
      BY <3>2, Sorts DEF Sized, IsRange
    <3>4. \E b : b \in Bytes(array[i]) /\ b \in Bytes(f)
      BY <3>1, <3>3, Shared
    <3> QED
      BY <2>1, <3>2, <3>4
  <2>4. CASE \E e \in tree : Overlap(f, e)
    <3>1. PICK e \in tree : Overlap(f, e)
      BY <2>4
    <3>2. /\ e.addr \in Nat /\ e.size \in Nat /\ e.size > 0
          /\ f.addr \in Nat /\ f.size \in Nat /\ f.size > 0
      BY Sorts DEF Sized, IsRange
    <3>3. PICK b : b \in Bytes(e) /\ b \in Bytes(f)
      BY <3>1, <3>2, Shared
    <3>4. InNode(e, "DIRTY", b) \/ InNode(e, "FLUSHED", b)
      BY <3>1, <3>3, Stateful DEF InNode
    <3> QED
      BY <3>3, <3>4, InBytes DEF DirtyBytes, FlushedBytes
  <2> QED
    BY <1>7, <2>2, <2>3, <2>4
<1>8. redundant <=> FlushedBytes \cap Bytes(f) # {}
  BY <1>4, <1>5
<1>9. /\ (DirtyBytes \cup FlushedBytes \cup CleanedBytes) \cap Bytes(f) = {} => ~valid
      /\ ~valid => (DirtyBytes \cup FlushedBytes) \cap Bytes(f) = {}
  BY <1>6, <1>7
<1>10. redundant \in BOOLEAN /\ (~valid) \in BOOLEAN
  OBVIOUS
<1> HIDE DEF redundant, valid
<1>11. redundant = (FlushedBytes \cap Bytes(f) # {})
  BY <1>8, <1>10
<1> QED
  BY <1>2, <1>9, <1>10, <1>11
============================================================================
