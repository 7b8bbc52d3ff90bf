---------------------------- MODULE OrdersProofs ----------------------------
(* Proofs about order guarantees and strands, for any requests, ranges and *)
(* bounds.                                                                 *)
EXTENDS Orders, BytesProofs

\* Zenon is quicker on most steps and SMT does arithmetic.
USE ZenonT(3), SMTT(15), ZenonT(20)

\* The inductive invariant: the layout of the array in the current strand,
\* well-formed records, and stores left aside only after the first strand.
OrdersInv ==
  /\ Layout
  /\ OrdersTypeOK
  /\ lost # {} => strand_id > 0

OrderRecord == [a : TimeRecord, b : TimeRecord]

Story == [stored : BOOLEAN, safe : BOOLEAN, blurred : BOOLEAN]
----------------------------------------------------------------------------
\* A function over 1 .. n is a sequence of length n.
LEMMA FunctionIsSeq ==
  ASSUME NEW T, NEW n \in Nat, NEW f \in [1 .. n -> T]
  PROVE  f \in Seq(T) /\ Len(f) = n /\ DOMAIN f = 1 .. n
  OBVIOUS

\* The elements of the records and their number.
LEMMA OrderElements ==
  ASSUME OrdersTypeOK
  PROVE  /\ Len(orders) \in Nat /\ DOMAIN orders = 1 .. Len(orders)
         /\ DOMAIN story = 1 .. Len(orders)
         /\ \A k \in 1 .. Len(orders) :
              orders[k].a \in TimeRecord /\ orders[k].b \in TimeRecord
         /\ \A k \in 1 .. Len(orders) : story[k] \in Story
<1>1. orders \in Seq(OrderRecord) /\ story \in Seq(Story) /\ Len(story) = Len(orders)
  BY DEF OrdersTypeOK, OrderRecord, Story
<1>2. /\ Len(orders) \in Nat /\ DOMAIN orders = 1 .. Len(orders)
      /\ DOMAIN story = 1 .. Len(orders)
      /\ \A k \in 1 .. Len(orders) : orders[k] \in OrderRecord /\ story[k] \in Story
  BY <1>1
<1> QED
  BY <1>2 DEF OrderRecord

\* The model's bounds.
LEMMA Bounds ==
  MaxOrders \in Nat /\ MaxTime \in Nat /\ MaxStrands \in Nat /\ Never = MaxTime + 1
  BY OrdersAssumption DEF Never

\* A store begins a record's time, and a fence ends it, at the current time.
LEMMA RecordType ==
  ASSUME OrdersTypeOK, NEW rec \in TimeRecord, NEW r
  PROVE  Begun(rec, r) \in TimeRecord /\ Ended(rec) \in TimeRecord
<1>1. global_time_stamp \in 0 .. MaxTime /\ global_time_stamp \in 0 .. Never /\ Never \in 0 .. Never
  BY Bounds DEF OrdersTypeOK
<1> QED
  BY <1>1 DEF Begun, Ended, TimeRecord

\* Blurring changes no other part of what became of an order.
LEMMA BlurType ==
  ASSUME OrdersTypeOK, NEW S
  PROVE  Blur(S) \in Seq(Story) /\ Len(Blur(S)) = Len(orders)
<1>1. /\ Len(orders) \in Nat /\ DOMAIN story = 1 .. Len(orders)
      /\ \A k \in 1 .. Len(orders) : story[k] \in Story
  BY OrderElements
<1>2. Blur(S) \in [1 .. Len(orders) -> Story]
  BY <1>1 DEF Blur, Story
<1> QED
  BY <1>1, <1>2, FunctionIsSeq

\* The tracked bytes are below NoAddr.
LEMMA PendingType ==
  ASSUME Layout, OrdersTypeOK
  PROVE  Pending \subseteq 0 .. NoAddr
<1>1. ASSUME NEW e \in Store
      PROVE  Bytes(e) \subseteq 0 .. NoAddr
  BY Ranges DEF Store, Bytes, End
<1>2. ASSUME NEW st
      PROVE  BytesIn(st) \subseteq 0 .. NoAddr
  <2>1. \A i \in SlotsIn(st) : array[i] \in Store
    BY LiveSlotsType DEF SlotsIn
  <2>2. \A e \in tree : e \in Store
    BY DEF Layout, TypeOK
  <2>3. \A e \in {array[i] : i \in SlotsIn(st)} \cup {n \in tree : n.state = st} : e \in Store
    BY <2>1, <2>2
  <2> QED
    BY <1>1, <2>3 DEF BytesIn, BytesOf
<1> QED
  BY <1>2 DEF Pending, DirtyBytes, FlushedBytes, OrdersTypeOK
----------------------------------------------------------------------------
\* NEW_STRAND sets up one empty snippet, as pmc_post_clo_init does.
LEMMA StrandLayout ==
  ASSUME Layout, NEW_STRAND
  PROVE  Layout'
<1>1. init_snippet_info(0) \in Snippet
  BY Ranges DEF init_snippet_info, Snippet, FlushedNum
<1>2. /\ snippets' = <<init_snippet_info(0)>> /\ snippets' \in Seq(Snippet)
      /\ snippets' # << >> /\ Last' = 1 /\ snippets'[1] = init_snippet_info(0)
  BY <1>1 DEF NEW_STRAND, Last
<1>3. TypeOK'
  <2>1. array' \in [0 .. MAX_ARRAY_NUM - 1 -> Store]
    BY ZeroStoreType DEF NEW_STRAND, Layout, TypeOK
  <2>2. box' \in [min_add : 0 .. NoAddr, max_add : 0 .. NoAddr]
    BY DEF NEW_STRAND, Layout, TypeOK
  <2>3. (\A e \in tree' : e \in Store) /\ epoch' \in BOOLEAN /\ out' = Quiet
    BY DEF NEW_STRAND
  <2> QED
    BY <1>2, <2>1, <2>2, <2>3, QuietType DEF TypeOK
<1>4. SnippetsPartition'
  BY <1>2 DEF SnippetsPartition, init_snippet_info, LiveSlots, Current
<1> QED
  BY <1>3, <1>4 DEF Layout

\* The tracker is set up for the first strand, with no orders.
LEMMA InitOrders == NaturalSets /\ OrdersInit => OrdersInv
<1> SUFFICES ASSUME NaturalSets, OrdersInit
             PROVE  OrdersInv
  OBVIOUS
<1>1. Layout
  BY InitLayout DEF OrdersInit
<1>2. OrdersTypeOK
  BY Bounds, Ranges DEF OrdersInit, OrdersTypeOK
<1> QED
  BY <1>1, <1>2 DEF OrdersInit, OrdersInv
----------------------------------------------------------------------------
\* trace_pmem_store with the records that it begins.
LEMMA StoreOrders ==
  ASSUME OrdersInv, NEW r \in Stores, OrderStore(r)
  PROVE  OrdersInv'
<1>1. Layout'
  <2>1. Next
    BY DEF OrderStore, Next
  <2> QED
    BY <2>1, NextLayout DEF OrdersInv
<1>2. /\ Len(orders) \in Nat /\ DOMAIN orders = 1 .. Len(orders)
      /\ DOMAIN story = 1 .. Len(orders)
      /\ \A k \in 1 .. Len(orders) : orders[k].a \in TimeRecord /\ orders[k].b \in TimeRecord
      /\ \A k \in 1 .. Len(orders) : story[k] \in Story
  BY OrderElements DEF OrdersInv
<1>3. orders' \in Seq(OrderRecord) /\ Len(orders') = Len(orders)
  <2>1. \A k \in 1 .. Len(orders) :
          Begun(orders[k].a, r) \in TimeRecord /\ Begun(orders[k].b, r) \in TimeRecord
    BY <1>2, RecordType DEF OrdersInv
  <2>2. orders' \in [1 .. Len(orders) -> OrderRecord]
    BY <1>2, <2>1 DEF OrderStore, OrderRecord
  <2> QED
    BY <1>2, <2>2, FunctionIsSeq
<1>4. story' \in Seq(Story) /\ Len(story') = Len(orders)
  <2>1. ASSUME NEW k \in 1 .. Len(orders)
        PROVE  StoryOfStore(r)[k] \in Story
    <3> DEFINE clear == story[k].stored /\ Pending \cap Bytes(orders[k].a) = {}
               near == Pending \cap Bytes(orders[k].a) # {}
    <3>1. clear \in BOOLEAN /\ near \in BOOLEAN
      OBVIOUS
    <3>2. StoryOfStore(r)[k] =
            IF Overlap(r, orders[k].a) THEN [stored |-> TRUE, safe |-> FALSE, blurred |-> near]
            ELSE IF Overlap(r, orders[k].b) THEN [story[k] EXCEPT !.safe = clear]
            ELSE story[k]
      BY <1>2 DEF StoryOfStore
    <3> HIDE DEF clear, near
    <3> QED
      BY <1>2, <3>1, <3>2 DEF Story
  <2>2. StoryOfStore(r) \in [1 .. Len(orders) -> Story]
    BY <1>2, <2>1 DEF StoryOfStore
  <2>3. story' = StoryOfStore(r)
    BY DEF OrderStore
  <2> QED
    BY <1>2, <2>2, <2>3, FunctionIsSeq
<1>5. /\ lacking' = 0 /\ global_time_stamp' = global_time_stamp
      /\ strand_id' = strand_id /\ lost' = lost
  BY DEF OrderStore
<1>6. OrdersTypeOK'
  BY <1>3, <1>4, <1>5, Bounds DEF OrdersInv, OrdersTypeOK, OrderRecord, Story
<1> QED
  BY <1>1, <1>5, <1>6 DEF OrdersInv

\* A set of orders has at most MaxOrders members.
LEMMA OrdersCount ==
  ASSUME OrdersInv, NEW S, S \subseteq DOMAIN orders
  PROVE  /\ IsFiniteSet(S) /\ Cardinality(S) \in 0 .. MaxOrders
         /\ \A T \in SUBSET S : Cardinality(T) <= Cardinality(S)
<1>1. Len(orders) \in Nat /\ DOMAIN orders = 1 .. Len(orders) /\ Len(orders) <= MaxOrders
  BY OrderElements DEF OrdersInv, OrdersTypeOK
<1>2. NaturalSets
  BY DEF OrdersInv, Layout
<1>3. /\ Len(orders) \in Int /\ S \subseteq 0 .. Len(orders) /\ S \subseteq Nat
      /\ 1 .. Len(orders) \subseteq 0 .. Len(orders) /\ 1 .. Len(orders) \subseteq Nat
  BY <1>1
<1>4. IsFiniteSet(S) /\ IsFiniteSet(1 .. Len(orders))
  BY <1>2, <1>3 DEF NaturalSets
<1>5. /\ Cardinality(S) \in Nat /\ \A T \in SUBSET S : Cardinality(T) <= Cardinality(S)
      /\ Cardinality(S) <= Cardinality(1 .. Len(orders))
      /\ Cardinality(1 .. Len(orders)) = Len(orders)
  BY <1>1, <1>2, <1>3, <1>4 DEF NaturalSets
<1> QED
  BY <1>1, <1>4, <1>5, Bounds

\* do_flush with its check across strands.
LEMMA FlushOrders ==
  ASSUME OrdersInv, NEW q \in Flushes, OrderFlush(q)
  PROVE  OrdersInv'
<1>1. Layout'
  <2>1. Next
    BY DEF OrderFlush, Next
  <2> QED
    BY <2>1, NextLayout DEF OrdersInv
<1>2. lacking' \in 0 .. MaxOrders
  <2> DEFINE S == {k \in DOMAIN orders : Overlap(flush_info(q), orders[k].b)}
  <2>1. Cardinality(S) \in 0 .. MaxOrders
    BY OrdersCount DEF OrdersInv
  <2>2. lacking' = Cardinality(S) \/ lacking' = 0
    BY DEF OrderFlush
  <2> QED
    BY <2>1, <2>2, Bounds
<1>3. UNCHANGED <<orders, global_time_stamp, strand_id, lost, story>>
  BY DEF OrderFlush
<1> QED
  BY <1>1, <1>2, <1>3 DEF OrdersInv, OrdersTypeOK

\* do_fence with the records that it ends.
LEMMA FenceOrders ==
  ASSUME OrdersInv, OrderFence
  PROVE  OrdersInv'
<1>1. Layout'
  <2>1. Next
    BY DEF OrderFence, Next
  <2> QED
    BY <2>1, NextLayout DEF OrdersInv
<1>2. /\ Len(orders) \in Nat /\ DOMAIN orders = 1 .. Len(orders)
      /\ \A k \in 1 .. Len(orders) : orders[k].a \in TimeRecord /\ orders[k].b \in TimeRecord
  BY OrderElements DEF OrdersInv
<1>3. orders' \in Seq(OrderRecord) /\ Len(orders') = Len(orders)
  <2>1. \A k \in 1 .. Len(orders) :
          Ended(orders[k].a) \in TimeRecord /\ Ended(orders[k].b) \in TimeRecord
    BY <1>2, RecordType DEF OrdersInv
  <2>2. orders' \in [1 .. Len(orders) -> OrderRecord]
    BY <1>2, <2>1 DEF OrderFence, OrderRecord
  <2> QED
    BY <1>2, <2>2, FunctionIsSeq
<1>4. story' \in Seq(Story) /\ Len(story') = Len(orders)
  BY BlurType DEF OrderFence, OrdersInv
<1>5. /\ global_time_stamp' \in 0 .. MaxTime
      /\ lacking' = 0 /\ strand_id' = strand_id /\ lost' = lost
  BY Bounds DEF OrderFence, OrdersInv, OrdersTypeOK
<1>6. OrdersTypeOK'
  BY <1>3, <1>4, <1>5, Bounds DEF OrdersInv, OrdersTypeOK, OrderRecord, Story
<1> QED
  BY <1>1, <1>5, <1>6 DEF OrdersInv

\* SET_CLEAN, which changes no record.
LEMMA CleanOrders ==
  ASSUME OrdersInv, NEW r \in Cleans, OrderClean(r)
  PROVE  OrdersInv'
<1>1. Layout'
  <2>1. Next
    BY DEF OrderClean, Next
  <2> QED
    BY <2>1, NextLayout DEF OrdersInv
<1>2. story' \in Seq(Story) /\ Len(story') = Len(orders)
  BY BlurType DEF OrderClean, OrdersInv
<1>3. lacking' = 0 /\ UNCHANGED <<orders, global_time_stamp, strand_id, lost>>
  BY DEF OrderClean
<1>4. OrdersTypeOK'
  BY <1>2, <1>3, Bounds DEF OrdersInv, OrdersTypeOK, Story
<1> QED
  BY <1>1, <1>3, <1>4 DEF OrdersInv

\* ORDER_GUARANTEE adds a record with both times zero.
LEMMA GuaranteeOrders ==
  ASSUME OrdersInv, NEW p \in OrderPairs, ORDER_GUARANTEE(p[1], p[2])
  PROVE  OrdersInv'
<1> DEFINE new == [a |-> NewRecord(p[1]), b |-> NewRecord(p[2])]
<1>1. Layout'
  <2>1. UNCHANGED <<array, snippets, tree, box, epoch>> /\ out' = Quiet
    BY DEF ORDER_GUARANTEE
  <2> QED
    BY <2>1, QuietType DEF OrdersInv, Layout, TypeOK, SnippetsPartition, Last, LiveSlots, Current, Slots
<1>2. new \in OrderRecord
  <2>1. \A i \in 1 .. 2 : p[i].addr \in Nat /\ p[i].size \in Nat
    BY OrdersAssumption
  <2>2. NewRecord(p[1]) \in TimeRecord /\ NewRecord(p[2]) \in TimeRecord
    BY <2>1, Bounds DEF NewRecord, TimeRecord
  <2> QED
    BY <2>2 DEF OrderRecord
<1>3. /\ orders \in Seq(OrderRecord) /\ story \in Seq(Story)
      /\ Len(story) = Len(orders) /\ Len(orders) < MaxOrders
  BY DEF OrdersInv, OrdersTypeOK, OrderRecord, Story, ORDER_GUARANTEE
<1>4. orders' = Append(orders, new) /\ story' = Append(story, NewStory)
  BY DEF ORDER_GUARANTEE
<1>5. NewStory \in Story
  BY DEF NewStory, Story
<1> HIDE DEF new
<1>6. /\ orders' \in Seq(OrderRecord) /\ Len(orders') = Len(orders) + 1
      /\ story' \in Seq(Story) /\ Len(story') = Len(orders) + 1
  BY <1>2, <1>3, <1>4, <1>5
<1>7. lacking' = 0 /\ UNCHANGED <<global_time_stamp, strand_id, lost>>
  BY DEF ORDER_GUARANTEE
<1>8. OrdersTypeOK'
  BY <1>3, <1>6, <1>7, Bounds DEF OrdersInv, OrdersTypeOK, OrderRecord, Story
<1> QED
  BY <1>1, <1>7, <1>8 DEF OrdersInv

\* NEW_STRAND leaves stores aside and takes the next id.
LEMMA StrandOrders ==
  ASSUME OrdersInv, NEW_STRAND
  PROVE  OrdersInv'
<1>1. Layout'
  BY StrandLayout DEF OrdersInv
<1>2. /\ strand_id' = strand_id + 1 /\ strand_id' <= MaxStrands /\ lost' = Pending /\ lacking' = 0
      /\ UNCHANGED <<orders, global_time_stamp, story>>
  BY Bounds DEF NEW_STRAND, OrdersInv, OrdersTypeOK
<1>3. lost' \subseteq 0 .. NoAddr
  BY <1>2, PendingType DEF OrdersInv
<1>4. OrdersTypeOK'
  BY <1>2, <1>3, Bounds DEF OrdersInv, OrdersTypeOK
<1> QED
  BY <1>1, <1>2, <1>4 DEF OrdersInv, OrdersTypeOK

\* Every operation keeps the invariant.
LEMMA NextOrders == OrdersInv /\ [OrdersNext]_allOrderVars => OrdersInv'
<1> SUFFICES ASSUME OrdersInv, [OrdersNext]_allOrderVars
             PROVE  OrdersInv'
  OBVIOUS
<1>1. CASE UNCHANGED allOrderVars
  <2>1. UNCHANGED vars /\ UNCHANGED orderVars
    BY <1>1 DEF allOrderVars
  <2>2. Layout'
    BY <2>1, NextLayout DEF OrdersInv
  <2> QED
    BY <2>1, <2>2 DEF orderVars, OrdersInv, OrdersTypeOK
<1> QED
  BY <1>1, StoreOrders, FlushOrders, FenceOrders, CleanOrders, GuaranteeOrders, StrandOrders
  DEF OrdersNext

\* The time and order records of trace_pmem_store, do_fence and
\* ORDER_GUARANTEE are well formed in every reachable state, over any number of
\* strands, and what a strand leaves aside is a set of addresses.
LEMMA AlwaysOrdersTypeOKGiven == NaturalSets /\ OrdersSpec => []OrdersTypeOK
<1>1. OrdersInv => OrdersTypeOK
  BY DEF OrdersInv
<1> QED
  BY <1>1, InitOrders, NextOrders, PTL DEF OrdersSpec

\* Regions that share a byte are taken for overlapping by cmp_pmem_st.
LEMMA SharingOverlaps ==
  ASSUME NEW f, IsRange(f), NEW rec \in TimeRecord, Bytes(f) \cap Bytes(rec) # {}
  PROVE  Overlap(f, rec)
<1>1. f.addr \in Nat /\ f.size \in Nat /\ rec.addr \in Nat /\ rec.size \in Nat
  BY DEF IsRange, TimeRecord
<1>2. PICK b : b \in Bytes(f) /\ b \in Bytes(rec)
  OBVIOUS
<1> QED
  BY <1>1, <1>2 DEF Bytes, End, Overlap

\* For any orders, ranges and strands the check of do_flush registers every
\* flush of dirty bytes of b made while bytes of a, stored in an earlier
\* strand, are not persistent: stores are left aside only by NEW_STRAND, whose
\* id is then above zero, and the flush overlaps b.
LEMMA AlwaysCrossStrandReportedGiven == NaturalSets /\ OrdersSpec => CrossStrandReported
<1>1. OrdersInv => CrossStrandStep
  <2> SUFFICES ASSUME OrdersInv, NEW q \in Flushes,
                      lack_ordering_trand, lost # {}, OrderFlush(q)
               PROVE  Cardinality({k \in DOMAIN orders :
                        /\ DirtyBytes \cap Bytes(flush_info(q)) \cap Bytes(orders[k].b) # {}
                        /\ lost \cap Bytes(orders[k].a) # {}}) <= lacking'
    BY DEF CrossStrandStep
  <2> DEFINE concerned ==
               {k \in DOMAIN orders :
                  /\ DirtyBytes \cap Bytes(flush_info(q)) \cap Bytes(orders[k].b) # {}
                  /\ lost \cap Bytes(orders[k].a) # {}}
             registered == {k \in DOMAIN orders : Overlap(flush_info(q), orders[k].b)}
  <2>1. lacking' = Cardinality(registered)
    BY DEF OrdersInv, OrderFlush
  <2>2. IsRange(flush_info(q))
    BY Ranges DEF FlushRanges
  <2>3. \A k \in DOMAIN orders : orders[k].b \in TimeRecord
    BY OrderElements DEF OrdersInv
  <2>4. concerned \subseteq registered
    BY <2>2, <2>3, SharingOverlaps
  <2>5. registered \subseteq DOMAIN orders
    OBVIOUS
  <2>6. Cardinality(concerned) <= Cardinality(registered)
    <3> HIDE DEF concerned, registered
    <3> QED
      BY <2>4, <2>5, OrdersCount
  <2> QED
    BY <2>1, <2>6
<1> QED
  BY <1>1, InitOrders, NextOrders, PTL DEF OrdersSpec, CrossStrandReported
----------------------------------------------------------------------------
(* When ranges hold stores entirely or not at all: the boxes of a strand,  *)
(* and the exactness of check_pmem_order.                                  *)

\* A new strand has nothing for its boxes to cover.
LEMMA StrandGranular ==
  ASSUME GranularInv, NEW_STRAND
  PROVE  GranularInv' /\ DirtyBytes' = {} /\ FlushedBytes' = {}
<1>1. Layout /\ Layout' /\ Granular' /\ Recorded
  BY StrandLayout DEF GranularInv, Granular
<1>2. /\ tree' = {} /\ box' = box /\ snippets' = <<init_snippet_info(0)>>
      /\ Last' = 1 /\ Current' = init_snippet_info(0) /\ snippets'[1] = init_snippet_info(0)
  BY DEF NEW_STRAND, Last, Current
<1>3. Slots(init_snippet_info(0)) = {} /\ LiveSlots' = {} /\ Slots(Current)' = {}
  BY <1>2 DEF init_snippet_info, Slots, LiveSlots
<1>4. Covered'
  BY <1>2, <1>3 DEF Covered, Slots
<1>5. Recorded'
  BY <1>1, <1>2, <1>3 DEF Recorded, ProperBox, init_snippet_info
<1>6. ASSUME NEW b
      PROVE  b \notin BytesIn("DIRTY")' /\ b \notin BytesIn("FLUSHED")'
  BY <1>2, <1>3, InBytesNext DEF InSlot, InNode
<1> QED
  BY <1>1, <1>4, <1>5, <1>6 DEF GranularInv, DirtyBytes, FlushedBytes

\* What the operations do to the bytes of the current strand.
LEMMA StrandBytes ==
  ASSUME GranularInv
  PROVE  /\ \A r \in Stores : trace_pmem_store(r) =>
              DirtyBytes' = DirtyBytes \cup Bytes(r) /\ FlushedBytes' = FlushedBytes
         /\ \A q \in Flushes : do_flush(q) =>
              /\ DirtyBytes' = DirtyBytes \ Bytes(flush_info(q))
              /\ FlushedBytes' = FlushedBytes \cup (DirtyBytes \cap Bytes(flush_info(q)))
         /\ do_fence => DirtyBytes' = DirtyBytes /\ FlushedBytes' = {}
         /\ \A r \in Cleans : SET_CLEAN(r) =>
              DirtyBytes' = DirtyBytes \ Bytes(r) /\ FlushedBytes' = FlushedBytes \ Bytes(r)
<1>1. ASSUME NEW r \in Stores, trace_pmem_store(r)
      PROVE  DirtyBytes' = DirtyBytes \cup Bytes(r) /\ FlushedBytes' = FlushedBytes
  BY <1>1, StoreRefines, SameBytes DEF Bytewise!Store
<1>2. ASSUME NEW q \in Flushes, do_flush(q)
      PROVE  /\ DirtyBytes' = DirtyBytes \ Bytes(flush_info(q))
             /\ FlushedBytes' = FlushedBytes \cup (DirtyBytes \cap Bytes(flush_info(q)))
  BY <1>2, FlushRefines, SameBytes DEF Bytewise!Flush
<1>3. ASSUME do_fence
      PROVE  DirtyBytes' = DirtyBytes /\ FlushedBytes' = {}
  BY <1>3, FenceRefines DEF Bytewise!Fence
<1>4. ASSUME NEW r \in Cleans, SET_CLEAN(r)
      PROVE  DirtyBytes' = DirtyBytes \ Bytes(r) /\ FlushedBytes' = FlushedBytes \ Bytes(r)
  BY <1>4, CleanRefines, SameBytes DEF Bytewise!SetClean
<1> QED
  BY <1>1, <1>2, <1>3, <1>4

\* Every operation keeps the tracker's invariant, in whatever strand.
LEMMA OrdersGranular ==
  ASSUME GranularInv, OrdersInv, [OrdersNext]_allOrderVars
  PROVE  GranularInv'
<1>1. Granular' /\ Layout'
  BY NextOrders DEF GranularInv, Granular, OrdersInv
<1>2. CASE Next \/ UNCHANGED vars
  BY <1>2, NextGranular
<1>3. CASE NEW_STRAND
  BY <1>3, StrandGranular
<1>4. ASSUME NEW p \in OrderPairs, ORDER_GUARANTEE(p[1], p[2])
      PROVE  GranularInv'
  <2>1. UNCHANGED <<array, snippets, tree, box>>
    BY <1>4 DEF ORDER_GUARANTEE
  <2> QED
    BY <1>1, <2>1, SameEntries DEF GranularInv
<1> QED
  BY <1>2, <1>3, <1>4
  DEF OrdersNext, OrderStore, OrderFlush, OrderFence, OrderClean, Next, allOrderVars

\* In every strand the pre-filters of do_flush and SET_CLEAN can be trusted,
\* though NEW_STRAND hands the box of the old tree on to the new one.
LEMMA AlwaysStrandCoveredGiven == NaturalSets /\ Granular /\ OrdersSpec => []StrandCovered
<1>1. NaturalSets /\ Granular /\ OrdersInit => GranularInv /\ OrdersInv
  BY InitGranular, InitOrders DEF OrdersInit
<1>2. GranularInv /\ OrdersInv /\ [OrdersNext]_allOrderVars => GranularInv' /\ OrdersInv'
  BY OrdersGranular, NextOrders
<1>3. GranularInv => StrandCovered
  BY DEF GranularInv, StrandCovered
<1> QED
  BY <1>1, <1>2, <1>3, PTL DEF OrdersSpec
----------------------------------------------------------------------------
\* do_fence finds, by boxes, slots and nodes, every region a byte of which it
\* makes persistent.
LEMMA FenceFinds ==
  ASSUME GranularInv, NEW rec \in TimeRecord, FlushedBytes \cap Bytes(rec) # {}
  PROVE  TakenAsPersistent(rec)
<1>1. /\ Layout /\ Covered /\ rec.addr \in Nat /\ rec.size \in Nat
      /\ End(rec) \in Nat
  BY DEF GranularInv, TimeRecord, End
<1>2. PICK b : b \in BytesIn("FLUSHED") /\ b \in Bytes(rec)
  BY DEF FlushedBytes
<1>3. ASSUME NEW e, InNode(e, "FLUSHED", b)
      PROVE  TakenAsPersistent(rec)
  <2>1. e \in tree /\ e.state = "FLUSHED" /\ b \in Bytes(e) /\ e.addr \in Nat /\ e.size \in Nat
    BY <1>1, <1>3, Sorts DEF InNode
  <2>2. Overlap(e, rec)
    BY <1>1, <1>2, <2>1, Shared
  <2> QED
    BY <2>1, <2>2 DEF TakenAsPersistent
<1>4. ASSUME NEW i, InSlot(i, "FLUSHED", b)
      PROVE  TakenAsPersistent(rec)
  <2>1. /\ i \in LiveSlots /\ ~array[i].is_delete /\ Effective(i) = "FLUSHED"
        /\ b \in Bytes(array[i]) /\ array[i].addr \in Nat /\ array[i].size \in Nat
    BY <1>1, <1>4, Sorts DEF InSlot
  <2>2. PICK k \in 1 .. Last :
          /\ i \in Slots(snippets[k])
          /\ AllFlushed(i) <=> snippets[k].flushed_num = "ALL_FLUSHED"
    BY <1>1, <2>1, SnippetOf
  <2>3. InBox(array[i], snippets[k]) /\ snippets[k].min_add \in Nat /\ snippets[k].max_add \in Nat
    BY <1>1, <2>2, Sorts DEF Covered
  <2>4. Overlap(rec, array[i])
    BY <1>1, <1>2, <2>1, Shared
  <2>5. Touches(snippets[k], rec)
    BY <1>1, <2>1, <2>3, <2>4, Shared
  <2>6. CASE ~AllFlushed(i)
    <3>1. array[i].state = "FLUSHED"
      BY <2>1, <2>6 DEF Effective
    <3>2. k # Last
      BY <2>1, <2>2, Stateful DEF Current
    <3>3. snippets[k].flushed_num = "PART_FLUSHED"
      <4>1. snippets[k].flushed_num \in FlushedNum
        BY <1>1, <2>2, CurrentSnippet DEF Snippet
      <4> QED
        BY <1>1, <2>2, <2>6, <3>2, <4>1 DEF Layout, SnippetsPartition, FlushedNum
    <3>4. rec.addr <= End(array[i]) /\ End(rec) >= array[i].addr
      BY <1>1, <2>1, <2>4 DEF Overlap, End
    <3> QED
      BY <2>2, <2>5, <3>1, <3>3, <3>4 DEF TakenAsPersistent
  <2> QED
    BY <2>2, <2>5, <2>6 DEF TakenAsPersistent
<1> QED
  BY <1>2, <1>3, <1>4, InBytes

\* The inclusive comparisons and the bounding boxes of do_fence only err by
\* ending too much: a region of which a fence makes a byte persistent always
\* has its time ended, in whatever strand, slot or node that byte was.
LEMMA AlwaysFenceEndsRecordsGiven == NaturalSets /\ Granular /\ OrdersSpec => FenceEndsRecords
<1> DEFINE ends == OrderFence =>
             \A k \in DOMAIN orders :
               /\ FlushedBytes \cap Bytes(orders[k].a) # {} =>
                    orders'[k].a.timestamp_end = global_time_stamp
               /\ FlushedBytes \cap Bytes(orders[k].b) # {} =>
                    orders'[k].b.timestamp_end = global_time_stamp
<1>1. ASSUME GranularInv, OrdersInv
      PROVE  ends
  <2> SUFFICES ASSUME OrderFence, NEW k \in DOMAIN orders
               PROVE  /\ FlushedBytes \cap Bytes(orders[k].a) # {} =>
                           orders'[k].a.timestamp_end = global_time_stamp
                      /\ FlushedBytes \cap Bytes(orders[k].b) # {} =>
                           orders'[k].b.timestamp_end = global_time_stamp
    OBVIOUS
  <2>1. orders[k].a \in TimeRecord /\ orders[k].b \in TimeRecord
    BY <1>1, OrderElements DEF OrdersInv
  <2>2. orders'[k].a = Ended(orders[k].a) /\ orders'[k].b = Ended(orders[k].b)
    BY DEF OrderFence
  <2>3. \A rec \in TimeRecord :
          FlushedBytes \cap Bytes(rec) # {} => Ended(rec).timestamp_end = global_time_stamp
    BY <1>1, FenceFinds DEF Ended, TimeRecord
  <2> QED
    BY <2>1, <2>2, <2>3
<1>2. GranularInv /\ OrdersInv => [ends]_allOrderVars
  BY <1>1
<1>3. NaturalSets /\ Granular /\ OrdersInit => GranularInv /\ OrdersInv
  BY InitGranular, InitOrders DEF OrdersInit
<1>4. GranularInv /\ OrdersInv /\ [OrdersNext]_allOrderVars => GranularInv' /\ OrdersInv'
  BY OrdersGranular, NextOrders
<1> QED
  BY <1>2, <1>3, <1>4, PTL DEF OrdersSpec, FenceEndsRecords
----------------------------------------------------------------------------
(* The records of order k, once a was stored to and while nothing blurs    *)
(* them.  Region a is all dirty, all flushed or all left aside, as far as  *)
(* it is not persistent: were it in two of these states, a fence would end *)
(* its time with a part of it still to be made persistent.  What is dirty  *)
(* of it comes from a single store, so that no flush divides it.           *)

OneState(k) ==
  LET A == Bytes(orders[k].a)
  IN  /\ DirtyBytes \cap A # {} =>
           /\ FlushedBytes \cap A = {} /\ lost \cap A = {}
           /\ \E s \in Stores : DirtyBytes \cap A = Bytes(s) \cap A
      /\ FlushedBytes \cap A # {} => lost \cap A = {}

\* The time of a has ended, in the past, exactly when all of it is persistent.
Timely(k) ==
  LET a == orders[k].a
  IN  /\ a.timestamp_end = Never <=> Pending \cap Bytes(a) # {}
      /\ a.timestamp_end # Never => a.timestamp_end < global_time_stamp
      /\ story[k].safe <=> a.timestamp_end < orders[k].b.timestamp_begin

Regular(k) ==
  /\ orders[k].a.size > 0
  /\ orders[k].b.timestamp_begin <= global_time_stamp
  /\ story[k].stored /\ ~story[k].blurred => OneState(k) /\ Timely(k)

TimesInv == GranularInv /\ OrdersInv /\ \A k \in DOMAIN orders : Regular(k)

\* The types that comparing times and blurring records need.
LEMMA TimeTypes ==
  ASSUME OrdersInv, NEW k \in DOMAIN orders
  PROVE  /\ k \in DOMAIN story
         /\ orders[k].a \in TimeRecord /\ orders[k].b \in TimeRecord
         /\ orders[k].a.timestamp_end \in 0 .. Never
         /\ orders[k].b.timestamp_begin \in 0 .. MaxTime
         /\ story[k].stored \in BOOLEAN /\ story[k].safe \in BOOLEAN
         /\ story[k].blurred \in BOOLEAN /\ story[k] \in Story
         /\ global_time_stamp \in 0 .. MaxTime /\ MaxTime \in Nat /\ Never = MaxTime + 1
<1>1. orders[k].a \in TimeRecord /\ orders[k].b \in TimeRecord /\ story[k] \in Story /\ k \in DOMAIN story
  BY OrderElements DEF OrdersInv
<1> QED
  BY <1>1, Bounds DEF TimeRecord, Story, OrdersInv, OrdersTypeOK

\* An order whose record of a, region and story did not change, while the
\* bytes of a stay in their states or are left aside, is still regular.
LEMMA StaysRegular ==
  ASSUME OrdersInv, NEW k \in DOMAIN orders, Regular(k),
         orders'[k] = orders[k], global_time_stamp' = global_time_stamp,
         story'[k].stored /\ ~story'[k].blurred =>
           /\ story[k].stored /\ ~story[k].blurred /\ story'[k].safe = story[k].safe
           /\ Pending' \cap Bytes(orders[k].a) = Pending \cap Bytes(orders[k].a)
           /\ OneState(k) => OneState(k)'
  PROVE  Regular(k)'
<1>1. ASSUME story'[k].stored, ~story'[k].blurred
      PROVE  OneState(k)' /\ Timely(k)'
  <2>1. OneState(k)' /\ Timely(k)
    BY <1>1 DEF Regular
  <2>2. Never' = Never
    BY DEF Never
  <2> QED
    BY <1>1, <2>1, <2>2 DEF Timely
<1> QED
  BY <1>1 DEF Regular

\* A flush takes along all of what is dirty of a region, or nothing of it.
LEMMA FlushTimes ==
  ASSUME TimesInv, NEW q \in Flushes, OrderFlush(q)
  PROVE  \A k \in DOMAIN orders' : Regular(k)'
<1> DEFINE f == flush_info(q)
<1>1. /\ GranularInv /\ OrdersInv /\ \A k \in DOMAIN orders : Regular(k)
      /\ UNCHANGED <<orders, global_time_stamp, lost, story>> /\ do_flush(q)
  BY DEF TimesInv, OrderFlush
<1>2. /\ DirtyBytes' = DirtyBytes \ Bytes(f)
      /\ FlushedBytes' = FlushedBytes \cup (DirtyBytes \cap Bytes(f))
  BY <1>1, StrandBytes
<1>3. Pending' = Pending
  BY <1>1, <1>2 DEF Pending
<1>4. ASSUME NEW s \in Stores
      PROVE  Bytes(s) \subseteq Bytes(f) \/ Bytes(s) \cap Bytes(f) = {}
  <2>1. IsRange(s) /\ IsRange(f) /\ f \in FlushRanges
    BY Ranges DEF FlushRanges
  <2>2. s.addr \in Nat /\ s.size \in Nat /\ f.addr \in Nat /\ f.size \in Nat
    BY <2>1 DEF IsRange
  <2> HIDE DEF f
  <2>3. CASE Overlap(s, f)
    <3>1. Within(s, f)
      BY <1>1, <2>1, <2>3 DEF GranularInv, Granular
    <3> QED
      BY <2>2, <3>1 DEF Within, Bytes, End
  <2>4. CASE ~Overlap(s, f)
    BY <2>2, <2>4, Shared
  <2> QED
    BY <2>3, <2>4
<1> HIDE DEF f
<1>5. ASSUME NEW k \in DOMAIN orders, OneState(k)
      PROVE  OneState(k)'
  <2> DEFINE A == Bytes(orders[k].a)
  <2>1. Bytes(orders[k].a)' = A
    BY <1>1
  <2>2. CASE DirtyBytes \cap A = {}
    BY <1>1, <1>2, <1>5, <2>1, <2>2 DEF OneState
  <2>3. CASE DirtyBytes \cap A # {}
    <3>1. PICK s \in Stores : DirtyBytes \cap A = Bytes(s) \cap A
      BY <1>5, <2>3 DEF OneState
    <3>2. FlushedBytes \cap A = {} /\ lost \cap A = {}
      BY <1>5, <2>3 DEF OneState
    <3>3. CASE Bytes(s) \subseteq Bytes(f)
      BY <1>1, <1>2, <2>1, <3>1, <3>2, <3>3 DEF OneState
    <3>4. CASE Bytes(s) \cap Bytes(f) = {}
      <4>1. DirtyBytes' \cap A = Bytes(s) \cap A /\ FlushedBytes' \cap A = {}
        BY <1>2, <3>1, <3>2, <3>4
      <4> QED
        BY <1>1, <2>1, <3>2, <4>1 DEF OneState
    <3> QED
      BY <1>4, <3>3, <3>4
  <2> QED
    BY <2>2, <2>3
<1> QED
  BY <1>1, <1>3, <1>5, StaysRegular

\* SET_CLEAN blurs the orders of which it forgets a byte of a.
LEMMA CleanTimes ==
  ASSUME TimesInv, NEW r \in Cleans, OrderClean(r)
  PROVE  \A k \in DOMAIN orders' : Regular(k)'
<1>1. /\ GranularInv /\ OrdersInv /\ \A k \in DOMAIN orders : Regular(k)
      /\ UNCHANGED <<orders, global_time_stamp, lost>> /\ SET_CLEAN(r)
  BY DEF TimesInv, OrderClean
<1>2. DirtyBytes' = DirtyBytes \ Bytes(r) /\ FlushedBytes' = FlushedBytes \ Bytes(r)
  BY <1>1, StrandBytes
<1>3. ASSUME NEW k \in DOMAIN orders
      PROVE  Regular(k)'
  <2> DEFINE A == Bytes(orders[k].a)
             B == {j \in DOMAIN orders : Pending \cap Bytes(orders[j].a) \cap Bytes(r) # {}}
  <2>1. story[k] \in Story /\ k \in DOMAIN story
    BY <1>1, TimeTypes
  <2>2. story'[k] = IF k \in B THEN [story[k] EXCEPT !.blurred = TRUE] ELSE story[k]
    BY <2>1 DEF OrderClean, Blur
  <2>3. CASE k \in B
    BY <1>1, <1>3, <2>1, <2>2, <2>3, StaysRegular DEF Story
  <2>4. CASE k \notin B
    <3>1. Pending \cap A \cap Bytes(r) = {}
      BY <2>4
    <3>2. DirtyBytes' \cap A = DirtyBytes \cap A /\ FlushedBytes' \cap A = FlushedBytes \cap A
      BY <1>2, <3>1 DEF Pending
    <3>3. Pending' \cap A = Pending \cap A
      BY <1>1, <3>2 DEF Pending
    <3>4. OneState(k) => OneState(k)'
      BY <1>1, <3>2 DEF OneState
    <3> QED
      BY <1>1, <1>3, <2>2, <2>4, <3>3, <3>4, StaysRegular
  <2> QED
    BY <2>3, <2>4
<1> QED
  BY <1>1, <1>3

\* NEW_STRAND leaves aside what is not persistent.
LEMMA StrandTimes ==
  ASSUME TimesInv, NEW_STRAND
  PROVE  \A k \in DOMAIN orders' : Regular(k)'
<1>1. /\ GranularInv /\ OrdersInv /\ \A k \in DOMAIN orders : Regular(k)
      /\ UNCHANGED <<orders, global_time_stamp, story>> /\ lost' = Pending
  BY DEF TimesInv, NEW_STRAND
<1>2. DirtyBytes' = {} /\ FlushedBytes' = {}
  BY <1>1, StrandGranular
<1>3. Pending' = Pending
  BY <1>1, <1>2 DEF Pending
<1>4. \A k : OneState(k)'
  BY <1>2 DEF OneState
<1> QED
  BY <1>1, <1>3, <1>4, StaysRegular

\* A new order is not stored to yet.
LEMMA GuaranteeTimes ==
  ASSUME TimesInv, NEW p \in OrderPairs, ORDER_GUARANTEE(p[1], p[2])
  PROVE  \A k \in DOMAIN orders' : Regular(k)'
<1> DEFINE new == [a |-> NewRecord(p[1]), b |-> NewRecord(p[2])]
<1>1. /\ OrdersInv /\ \A k \in DOMAIN orders : Regular(k)
      /\ UNCHANGED <<array, snippets, tree, box, global_time_stamp, lost>>
      /\ orders' = Append(orders, new) /\ story' = Append(story, NewStory)
  BY DEF TimesInv, ORDER_GUARANTEE
<1>2. DirtyBytes' = DirtyBytes /\ FlushedBytes' = FlushedBytes
  BY <1>1, SameEntries
<1>3. Pending' = Pending
  BY <1>1, <1>2 DEF Pending
<1> HIDE DEF new
<1>4. PICK n \in Nat :
        /\ n = Len(orders) /\ DOMAIN orders = 1 .. n /\ DOMAIN story = 1 .. n
        /\ orders \in Seq(OrderRecord) /\ story \in Seq(Story) /\ Len(story) = n
  BY <1>1, OrderElements DEF OrdersInv, OrdersTypeOK, OrderRecord, Story
<1>5. /\ DOMAIN orders' = 1 .. n + 1 /\ orders'[n + 1] = new /\ story'[n + 1] = NewStory
      /\ \A k \in 1 .. n : orders'[k] = orders[k] /\ story'[k] = story[k]
  BY <1>1, <1>4
<1>6. ASSUME NEW k \in 1 .. n
      PROVE  Regular(k)'
  <2>1. OneState(k) => OneState(k)'
    BY <1>1, <1>2, <1>5 DEF OneState
  <2> QED
    BY <1>1, <1>3, <1>4, <1>5, <2>1, StaysRegular
<1>7. Regular(n + 1)'
  <2>1. p[1].size \in Nat \ {0} /\ global_time_stamp' \in Nat
    BY <1>1, OrdersAssumption DEF OrdersInv, OrdersTypeOK
  <2>2. orders'[n + 1].a.size > 0 /\ orders'[n + 1].b.timestamp_begin <= global_time_stamp'
    BY <1>5, <2>1 DEF new, NewRecord
  <2>3. ~story'[n + 1].stored
    BY <1>5 DEF NewStory
  <2> QED
    BY <2>2, <2>3 DEF Regular
<1> QED
  BY <1>4, <1>5, <1>6, <1>7

\* A fence ends the time of a when it makes all that is left of it persistent;
\* when it ends that time for another reason, it blurs the order.
LEMMA FenceTimes ==
  ASSUME TimesInv, OrderFence
  PROVE  \A k \in DOMAIN orders' : Regular(k)'
<1>1. /\ GranularInv /\ OrdersInv /\ \A k \in DOMAIN orders : Regular(k)
      /\ do_fence /\ lost' = lost /\ global_time_stamp' = global_time_stamp + 1
      /\ orders' = [k \in DOMAIN orders |-> [a |-> Ended(orders[k].a), b |-> Ended(orders[k].b)]]
  BY DEF TimesInv, OrderFence
<1>2. DirtyBytes' = DirtyBytes /\ FlushedBytes' = {}
  BY <1>1, StrandBytes
<1>3. ASSUME NEW k \in DOMAIN orders
      PROVE  Regular(k)'
  <2> DEFINE a == orders[k].a
             b == orders[k].b
             A == Bytes(orders[k].a)
             now == global_time_stamp
             B == {j \in DOMAIN orders : /\ TakenAsPersistent(orders[j].a)
                                         /\ FlushedBytes \cap Bytes(orders[j].a) = {}}
  <2>1. /\ k \in DOMAIN story /\ a \in TimeRecord /\ b \in TimeRecord
        /\ a.timestamp_end \in 0 .. Never /\ b.timestamp_begin \in 0 .. MaxTime
        /\ story[k].safe \in BOOLEAN /\ story[k] \in Story
        /\ now \in 0 .. MaxTime /\ MaxTime \in Nat /\ Never = MaxTime + 1
    BY <1>1, <1>3, TimeTypes
  <2>2. story'[k] = IF k \in B THEN [story[k] EXCEPT !.blurred = TRUE] ELSE story[k]
    BY <2>1 DEF OrderFence, Blur
  <2>3. orders'[k].a = Ended(a) /\ orders'[k].b = Ended(b)
    BY <1>1
  <2>4. /\ Ended(a).addr = a.addr /\ Ended(a).size = a.size
        /\ Ended(b).timestamp_begin = b.timestamp_begin
        /\ Ended(a).timestamp_end = IF TakenAsPersistent(a) THEN now ELSE a.timestamp_end
    BY <2>1 DEF Ended, TimeRecord
  <2>5. Bytes(orders[k].a)' = A
    BY <2>3, <2>4 DEF Bytes, End
  <2>6. orders'[k].a.size > 0 /\ orders'[k].b.timestamp_begin <= global_time_stamp'
    BY <1>1, <1>3, <2>1, <2>3, <2>4 DEF Regular
  <2>7. ASSUME story'[k].stored, ~story'[k].blurred
        PROVE  OneState(k)' /\ Timely(k)'
    <3>1. k \notin B /\ story'[k] = story[k]
      BY <2>1, <2>2, <2>7 DEF Story
    <3>2. OneState(k) /\ Timely(k) /\ b.timestamp_begin <= now
      BY <1>1, <1>3, <2>7, <3>1 DEF Regular
    <3>3. TakenAsPersistent(a) <=> FlushedBytes \cap A # {}
      BY <1>1, <2>1, <3>1, FenceFinds
    <3>4. OneState(k)'
      BY <1>1, <1>2, <2>5, <3>2 DEF OneState
    <3>5. Never' = Never
      BY DEF Never
    <3>6. Pending' \cap A = IF FlushedBytes \cap A # {} THEN {} ELSE Pending \cap A
      BY <1>1, <1>2, <3>2 DEF Pending, OneState
    <3>7. CASE FlushedBytes \cap A # {}
      <4>1. orders'[k].a.timestamp_end = now /\ Pending' \cap A = {} /\ Pending \cap A # {}
        BY <2>3, <2>4, <3>3, <3>6, <3>7 DEF Pending
      <4>2. a.timestamp_end = Never /\ ~story[k].safe
        BY <2>1, <3>2, <4>1 DEF Timely
      <4> QED
        BY <1>1, <2>1, <2>3, <2>4, <2>5, <3>1, <3>2, <3>4, <3>5, <4>1, <4>2 DEF Timely
    <3>8. CASE FlushedBytes \cap A = {}
      <4>1. orders'[k].a.timestamp_end = a.timestamp_end /\ Pending' \cap A = Pending \cap A
        BY <2>3, <2>4, <3>3, <3>6, <3>8
      <4> QED
        BY <1>1, <2>1, <2>3, <2>4, <2>5, <3>1, <3>2, <3>4, <3>5, <4>1 DEF Timely
    <3> QED
      BY <3>7, <3>8
  <2> QED
    BY <2>6, <2>7 DEF Regular
<1> QED
  BY <1>1, <1>3

\* A store to a begins its time and makes it dirty in one piece; a store to b
\* begins that of b, after the end of a's if that has ended.
LEMMA StoreTimes ==
  ASSUME TimesInv, NEW r \in Stores, OrderStore(r)
  PROVE  \A k \in DOMAIN orders' : Regular(k)'
<1>1. /\ GranularInv /\ OrdersInv /\ \A k \in DOMAIN orders : Regular(k)
      /\ trace_pmem_store(r) /\ UNCHANGED <<global_time_stamp, lost>>
      /\ orders' = [k \in DOMAIN orders |->
                      [a |-> Begun(orders[k].a, r), b |-> Begun(orders[k].b, r)]]
  BY DEF TimesInv, OrderStore
<1>2. DirtyBytes' = DirtyBytes \cup Bytes(r) /\ FlushedBytes' = FlushedBytes
  BY <1>1, StrandBytes
<1>3. ASSUME NEW k \in DOMAIN orders
      PROVE  Regular(k)'
  <2> DEFINE a == orders[k].a
             b == orders[k].b
             A == Bytes(orders[k].a)
             now == global_time_stamp
             clear == Pending \cap Bytes(orders[k].a) = {}
  <2>1. /\ k \in DOMAIN story /\ a \in TimeRecord /\ b \in TimeRecord
        /\ a.timestamp_end \in 0 .. Never /\ b.timestamp_begin \in 0 .. MaxTime
        /\ story[k].stored \in BOOLEAN /\ story[k].safe \in BOOLEAN /\ story[k] \in Story
        /\ now \in 0 .. MaxTime /\ MaxTime \in Nat /\ Never = MaxTime + 1
    BY <1>1, <1>3, TimeTypes
  <2>2. /\ a.size > 0 /\ b.timestamp_begin <= now
        /\ story[k].stored /\ ~story[k].blurred => OneState(k) /\ Timely(k)
    BY <1>1, <1>3 DEF Regular
  <2>3. story'[k] = IF Overlap(r, a) THEN [stored |-> TRUE, safe |-> FALSE, blurred |-> ~clear]
                    ELSE IF Overlap(r, b) THEN [story[k] EXCEPT !.safe = story[k].stored /\ clear]
                    ELSE story[k]
    BY <2>1 DEF OrderStore, StoryOfStore
  <2>4. orders'[k].a = Begun(a, r) /\ orders'[k].b = Begun(b, r)
    BY <1>1
  <2>5. /\ Begun(a, r).addr = a.addr /\ Begun(a, r).size = a.size
        /\ Begun(a, r).timestamp_end = IF Overlap(r, a) THEN Never ELSE a.timestamp_end
        /\ Begun(b, r).timestamp_begin = IF Overlap(r, b) THEN now ELSE b.timestamp_begin
    BY <2>1 DEF Begun, TimeRecord
  <2>6. Bytes(orders[k].a)' = A /\ Never' = Never
    BY <2>4, <2>5 DEF Bytes, End, Never
  <2>7. orders'[k].a.size > 0 /\ orders'[k].b.timestamp_begin <= global_time_stamp'
    BY <1>1, <2>1, <2>2, <2>4, <2>5
  <2>8. Overlap(r, a) <=> Bytes(r) \cap A # {}
    <3>1. /\ r.addr \in Nat /\ r.size \in Nat /\ r.size > 0
          /\ a.addr \in Nat /\ a.size \in Nat
      BY <2>1, Ranges DEF IsRange, TimeRecord
    <3> QED
      BY <2>2, <3>1, Shared
  <2>9. CASE Overlap(r, a)
    <3>1. story'[k].safe = FALSE /\ story'[k].blurred = ~clear
      BY <2>3, <2>9
    <3>2. orders'[k].a.timestamp_end = Never /\ orders'[k].b.timestamp_begin \in 0 .. MaxTime
      BY <2>1, <2>4, <2>5, <2>9
    <3>3. ASSUME clear
          PROVE  OneState(k)'
      <4>1. DirtyBytes' \cap A = Bytes(r) \cap A /\ FlushedBytes' \cap A = {} /\ lost' \cap A = {}
        BY <1>1, <1>2, <3>3 DEF Pending
      <4> QED
        BY <2>6, <4>1 DEF OneState
    <3>4. Timely(k)'
      <4>1. Pending' \cap A # {}
        BY <1>2, <2>8, <2>9 DEF Pending
      <4>2. ~(Never < orders'[k].b.timestamp_begin)
        BY <2>1, <3>2
      <4> QED
        BY <2>6, <3>1, <3>2, <4>1, <4>2 DEF Timely
    <3> QED
      BY <2>7, <3>1, <3>3, <3>4 DEF Regular
  <2>10. CASE ~Overlap(r, a)
    <3>1. /\ DirtyBytes' \cap A = DirtyBytes \cap A /\ FlushedBytes' = FlushedBytes
          /\ Pending' \cap A = Pending \cap A /\ lost' = lost
      BY <1>1, <1>2, <2>8, <2>10 DEF Pending
    <3>2. story'[k].stored = story[k].stored /\ story'[k].blurred = story[k].blurred
      BY <2>1, <2>3, <2>10 DEF Story
    <3>3. orders'[k].a.timestamp_end = a.timestamp_end
      BY <2>4, <2>5, <2>10
    <3>4. ASSUME OneState(k)
          PROVE  OneState(k)'
      BY <2>6, <3>1, <3>4 DEF OneState
    <3>5. ASSUME story[k].stored, Timely(k)
          PROVE  Timely(k)'
      <4>1. CASE Overlap(r, b)
        <5>1. story'[k].safe <=> clear
          BY <2>1, <2>3, <2>10, <3>5, <4>1 DEF Story
        <5>2. orders'[k].b.timestamp_begin = now
          BY <2>4, <2>5, <4>1
        <5>3. clear <=> a.timestamp_end < now
          BY <2>1, <3>5 DEF Timely
        <5> QED
          BY <1>1, <2>6, <3>1, <3>3, <3>5, <5>1, <5>2, <5>3 DEF Timely
      <4>2. CASE ~Overlap(r, b)
        <5>1. story'[k] = story[k] /\ orders'[k].b.timestamp_begin = b.timestamp_begin
          BY <2>3, <2>4, <2>5, <2>10, <4>2
        <5> QED
          BY <1>1, <2>6, <3>1, <3>3, <3>5, <5>1 DEF Timely
      <4> QED
        BY <4>1, <4>2
    <3> QED
      BY <2>2, <2>7, <3>2, <3>4, <3>5 DEF Regular
  <2> QED
    BY <2>9, <2>10
<1> QED
  BY <1>1, <1>3

\* Every operation keeps the records regular.
LEMMA NextTimes == TimesInv /\ [OrdersNext]_allOrderVars => TimesInv'
<1> SUFFICES ASSUME TimesInv, [OrdersNext]_allOrderVars
             PROVE  TimesInv'
  OBVIOUS
<1>1. GranularInv' /\ OrdersInv'
  BY OrdersGranular, NextOrders DEF TimesInv
<1>2. CASE UNCHANGED allOrderVars
  <2>1. UNCHANGED <<array, snippets, tree, box>> /\ UNCHANGED orderVars
    BY <1>2 DEF allOrderVars, vars
  <2>2. DirtyBytes' = DirtyBytes /\ FlushedBytes' = FlushedBytes
    BY <2>1, SameEntries
  <2>3. /\ UNCHANGED <<orders, global_time_stamp, story, lost>>
        /\ OrdersInv /\ \A k \in DOMAIN orders : Regular(k)
    BY <2>1 DEF orderVars, TimesInv
  <2>4. Pending' = Pending
    BY <2>2, <2>3 DEF Pending
  <2>5. \A k : OneState(k) => OneState(k)'
    BY <2>2, <2>3 DEF OneState
  <2>6. \A k \in DOMAIN orders' : Regular(k)'
    BY <2>3, <2>4, <2>5, StaysRegular
  <2> QED
    BY <1>1, <2>6 DEF TimesInv
<1> QED
  BY <1>1, <1>2, StoreTimes, FlushTimes, FenceTimes, CleanTimes, GuaranteeTimes, StrandTimes
  DEF OrdersNext, TimesInv

\* For any number of orders, strands and fences, check_pmem_order reports
\* exactly the orders whose b was last written before a was persistent, unless
\* the records of the order were blurred.
LEMMA AlwaysOrderExactGiven == NaturalSets /\ Granular /\ OrdersSpec => []OrderExact
<1>1. NaturalSets /\ Granular /\ OrdersInit => TimesInv
  <2>1. OrdersInit => orders = << >>
    BY DEF OrdersInit
  <2> QED
    BY <2>1, InitGranular, InitOrders DEF OrdersInit, TimesInv
<1>2. TimesInv => OrderExact
  BY DEF TimesInv, OrderExact, Regular, Timely, check_pmem_order
<1> QED
  BY <1>1, <1>2, NextTimes, PTL DEF OrdersSpec
=============================================================================
