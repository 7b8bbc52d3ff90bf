---------------------------- MODULE EpochsProofs ----------------------------
(* Proofs about Epochs, for any transactions, threads, ranges and bounds,  *)
(* and about Instrument, for any programs and data.                        *)
EXTENDS Epochs, Instrument, BytesProofs

\* Zenon is quicker on most steps and SMT does arithmetic.
USE ZenonT(3), SMTT(15), ZenonT(20)

\* is_nest_trans can only hold of a transaction that runs.
LEMMA NestedRuns ==
  ASSUME NEW x, NEW c, is_nest_trans(x, c)
  PROVE  DOMAIN c # {}
  BY DEF is_nest_trans

\* Starting a transaction leaves at least that one running.
LEMMA CountedRuns ==
  ASSUME NEW x
  PROVE  DOMAIN Counted(x) # {}
  BY DEF Counted

\* The end of an inner transaction leaves the outer one running.
LEMMA NestedStaysRunning ==
  ASSUME NEW x, is_nest_trans(x, counter)
  PROVE  DOMAIN Discounted(x) # {}
  BY NestedRuns DEF Discounted

\* epoch_end leaves an epoch open only for a nested transaction, and forgets
\* the fences of one that it closes.
LEMMA EndKeepsOwner ==
  ASSUME NEW x, EpochHasOwner, epoch_end(x)
  PROVE  /\ epoch' => DOMAIN counter' # {}
         /\ ~epoch' => epoch_fence' = 0
<1>1. CASE epoch
  <2>1. epoch' = is_nest_trans(x, counter') /\ epoch_fence' = 0
    BY <1>1 DEF epoch_end
  <2> QED
    BY <2>1, NestedRuns
<1>2. CASE ~epoch
  <2>1. epoch' = epoch /\ epoch_fence' = epoch_fence
    BY <1>2 DEF epoch_end
  <2> QED
    BY <1>2, <2>1 DEF EpochHasOwner
<1> QED
  BY <1>1, <1>2

\* The operations of store tracking leave epochs alone.
LEMMA TrackingKeepsOwner ==
  ASSUME EpochHasOwner,
         UNCHANGED epoch,
         NEW p, Tracking(p)
  PROVE  EpochHasOwner'
  BY DEF Tracking, EpochHasOwner

\* EpochHasOwner is inductive as it stands: the epoch of epoch_begin and
\* epoch_end never outlives what could have opened it, and begins with no
\* fence counted, whatever the order of START_TX, END_TX, FENCE_MARK,
\* EPOCH_BEGIN and EPOCH_END from however many threads.
THEOREM AlwaysEpochHasOwner == EpochsSpec => []EpochHasOwner
<1>1. EpochsInit => EpochHasOwner
  BY DEF EpochsInit, Init, EpochHasOwner
<1>2. EpochHasOwner /\ [EpochsNext]_allEpochVars => EpochHasOwner'
  <2> SUFFICES ASSUME EpochHasOwner, [EpochsNext]_allEpochVars
               PROVE  EpochHasOwner'
    OBVIOUS
  <2>1. CASE UNCHANGED allEpochVars
    BY <2>1 DEF allEpochVars, vars, epochVars, EpochHasOwner
  <2>2. ASSUME NEW r \in Stores, EpochStore(r)
        PROVE  EpochHasOwner'
    <3>1. UNCHANGED epoch
      BY <2>2 DEF EpochStore, trace_pmem_store, StoreToArray, StoreToTree
    <3>2. PICK p : Tracking(p)
      BY <2>2 DEF EpochStore
    <3> QED
      BY <3>1, <3>2, TrackingKeepsOwner
  <2>3. ASSUME NEW q \in Flushes, EpochFlush(q)
        PROVE  EpochHasOwner'
    <3>1. UNCHANGED epoch
      BY <2>3 DEF EpochFlush, do_flush
    <3>2. PICK p : Tracking(p)
      BY <2>3 DEF EpochFlush
    <3> QED
      BY <3>1, <3>2, TrackingKeepsOwner
  <2>4. CASE EpochFence
    <3>1. UNCHANGED epoch
      BY <2>4 DEF EpochFence, do_fence
    <3>2. PICK p : Tracking(p)
      BY <2>4 DEF EpochFence
    <3> QED
      BY <3>1, <3>2, TrackingKeepsOwner
  <2>5. ASSUME NEW r \in Cleans, EpochClean(r)
        PROVE  EpochHasOwner'
    <3>1. UNCHANGED epoch
      BY <2>5 DEF EpochClean, SET_CLEAN
    <3>2. PICK p : Tracking(p)
      BY <2>5 DEF EpochClean
    <3> QED
      BY <3>1, <3>2, TrackingKeepsOwner
  <2>6. CASE EpochStats
    <3>1. UNCHANGED epoch
      BY <2>6 DEF EpochStats, print_store_stats
    <3>2. PICK p : Tracking(p)
      BY <2>6 DEF EpochStats
    <3> QED
      BY <3>1, <3>2, TrackingKeepsOwner
  <2>7. ASSUME NEW x \in TxIds, START_TX(x)
        PROVE  EpochHasOwner'
    <3>1. counter' = Counted(x) /\ epoch_fence' = epoch_fence
      BY <2>7 DEF START_TX
    <3>2. epoch' \/ epoch' = epoch
      BY <2>7 DEF START_TX, epoch_begin
    <3> QED
      BY <3>1, <3>2, CountedRuns DEF EpochHasOwner
  <2>8. ASSUME NEW x \in TxIds, END_TX(x)
        PROVE  EpochHasOwner'
    <3>1. CASE is_nest_trans(x, counter)
      <4>1. counter' = Discounted(x) /\ epoch' = epoch /\ epoch_fence' = epoch_fence
        BY <2>8, <3>1 DEF END_TX
      <4> QED
        BY <3>1, <4>1, NestedStaysRunning DEF EpochHasOwner
    <3>2. CASE ~is_nest_trans(x, counter)
      <4>1. epoch_end(x)
        BY <2>8, <3>2 DEF END_TX
      <4> QED
        BY <4>1, EndKeepsOwner DEF EpochHasOwner
    <3> QED
      BY <3>1, <3>2
  <2>9. CASE FENCE_MARK
    <3>1. /\ epoch' = epoch /\ counter' = counter /\ explicit' = explicit
          /\ ~epoch => epoch_fence' = epoch_fence
      BY <2>9 DEF FENCE_MARK
    <3> QED
      BY <3>1 DEF EpochHasOwner
  <2>10. CASE EPOCH_BEGIN
    BY <2>10 DEF EPOCH_BEGIN, epoch_begin, EpochHasOwner
  <2>11. ASSUME NEW t \in Threads, EPOCH_END(t)
         PROVE  EpochHasOwner'
    <3>1. epoch_end(t)
      BY <2>11 DEF EPOCH_END
    <3> QED
      BY <3>1, EndKeepsOwner DEF EpochHasOwner
  <2> QED
    BY <2>1, <2>2, <2>3, <2>4, <2>5, <2>6, <2>7, <2>8, <2>9, <2>10, <2>11 DEF EpochsNext
<1> QED
  BY <1>1, <1>2, PTL DEF EpochsSpec
----------------------------------------------------------------------------
(* Type correctness.                                                       *)

EpochsInv == Layout /\ EpochsTypeOK

\* The model's bounds.
LEMMA EpochBounds ==
  MaxNesting \in Nat \ {0} /\ MaxFences \in Nat /\ MaxFenceEvents \in Nat
  BY EpochsAssumption

\* register_new_tx counts within the bound on nesting.
LEMMA CountedType ==
  ASSUME EpochsTypeOK, NEW x \in TxIds, x \in DOMAIN counter => counter[x] < MaxNesting
  PROVE  /\ DOMAIN Counted(x) \subseteq TxIds
         /\ \A y \in DOMAIN Counted(x) : Counted(x)[y] \in 1 .. MaxNesting
  BY EpochBounds DEF EpochsTypeOK, Counted

\* remove_tx never leaves a transaction with a count of zero.
LEMMA DiscountedType ==
  ASSUME EpochsTypeOK, NEW x \in TxIds
  PROVE  /\ DOMAIN Discounted(x) \subseteq TxIds
         /\ \A y \in DOMAIN Discounted(x) : Discounted(x)[y] \in 1 .. MaxNesting
<1>1. CASE is_nest_trans(x, counter)
  <2>1. Discounted(x) = [counter EXCEPT ![x] = @ - 1] /\ x \in DOMAIN counter /\ counter[x] > 1
    BY <1>1 DEF Discounted, is_nest_trans
  <2> QED
    BY <2>1, EpochBounds DEF EpochsTypeOK
<1>2. CASE ~is_nest_trans(x, counter)
  <2>1. Discounted(x) = [y \in DOMAIN counter \ {x} |-> counter[y]]
    BY <1>2 DEF Discounted, Restrict
  <2> QED
    BY <2>1 DEF EpochsTypeOK
<1> QED
  BY <1>1, <1>2

\* Clearing its flag changes nothing else of a store.
LEMMA UnflagType ==
  ASSUME NEW e \in Store
  PROVE  /\ Unflag(e) \in Store /\ Unflag(e).addr = e.addr /\ Unflag(e).size = e.size
         /\ Unflag(e).state = e.state /\ Unflag(e).is_delete = e.is_delete
         /\ Unflag(e).inEpoch = FALSE
<1>1. e \in [addr : Nat, size : Nat, state : State, is_delete : BOOLEAN, inEpoch : BOOLEAN]
      /\ End(e) < NoAddr
  BY DEF Store
<1>2. /\ Unflag(e) \in [addr : Nat, size : Nat, state : State, is_delete : BOOLEAN, inEpoch : BOOLEAN]
      /\ Unflag(e).addr = e.addr /\ Unflag(e).size = e.size
      /\ Unflag(e).state = e.state /\ Unflag(e).is_delete = e.is_delete
      /\ Unflag(e).inEpoch = FALSE
  BY <1>1 DEF Unflag
<1> QED
  BY <1>1, <1>2 DEF Store, End

\* epoch_end changes nothing but flags in the array and the tree.
LEMMA EndUnflags ==
  ASSUME Layout, epoch, NEW x, epoch_end(x), UNCHANGED <<snippets, box>>, out' = Quiet
  PROVE  /\ Layout' /\ LiveSlots' = LiveSlots
         /\ \A i \in LiveSlots : /\ array'[i].addr = array[i].addr /\ array'[i].size = array[i].size
                                 /\ array'[i].state = array[i].state
                                 /\ array'[i].is_delete = array[i].is_delete
         /\ Covered /\ Recorded => Covered' /\ Recorded'
<1>1. /\ array' = [i \in DOMAIN array |-> IF i \in Flagged THEN Unflag(array[i]) ELSE array[i]]
      /\ tree' = {Unflag(e) : e \in tree} /\ epoch' = is_nest_trans(x, counter')
  BY DEF epoch_end
<1>2. array \in [0 .. MAX_ARRAY_NUM - 1 -> Store] /\ \A e \in tree : e \in Store
  BY DEF Layout, TypeOK
<1>3. /\ Last' = Last /\ Current' = Current /\ LiveSlots' = LiveSlots /\ snippets' = snippets
      /\ box' = box
  BY DEF Last, Current, LiveSlots
<1>4. \A i \in 0 .. MAX_ARRAY_NUM - 1 :
        /\ array'[i] \in Store
        /\ array'[i].addr = array[i].addr /\ array'[i].size = array[i].size
        /\ array'[i].state = array[i].state /\ array'[i].is_delete = array[i].is_delete
  BY <1>1, <1>2, UnflagType
<1>5. ASSUME NEW d \in tree'
      PROVE  /\ d \in Store
             /\ \E e \in tree : /\ d.addr = e.addr /\ d.size = e.size /\ d.state = e.state
                                /\ d.is_delete = e.is_delete
  <2>1. PICK e \in tree : d = Unflag(e)
    BY <1>1
  <2> QED
    BY <1>2, <2>1, UnflagType
<1>6. Layout'
  <2>1. array' \in [0 .. MAX_ARRAY_NUM - 1 -> Store]
    BY <1>1, <1>2, <1>4
  <2>2. epoch' \in BOOLEAN
    BY <1>1 DEF is_nest_trans
  <2>3. TypeOK'
    BY <1>3, <1>5, <2>1, <2>2, QuietType DEF Layout, TypeOK
  <2> QED
    BY <1>3, <2>3 DEF Layout, SnippetsPartition, Slots
<1>7. \A i \in LiveSlots : i \in 0 .. MAX_ARRAY_NUM - 1
  BY <1>2, LiveInDomain
<1>8. ASSUME Covered, Recorded
      PROVE  Covered'
  <2>1. \A k \in 1 .. Last : \A i \in Slots(snippets[k]) : InBox(array'[i], snippets[k])
    <3>1. ASSUME NEW k \in 1 .. Last, NEW i \in Slots(snippets[k])
          PROVE  InBox(array'[i], snippets[k])
      <4>1. i \in LiveSlots /\ InBox(array[i], snippets[k])
        BY <1>8, <3>1, SlotsLive DEF Covered
      <4> QED
        BY <1>4, <1>7, <4>1 DEF InBox, End
    <3> QED
      BY <3>1
  <2>2. \A d \in tree' : InBox(d, box)
    <3>1. ASSUME NEW d \in tree'
          PROVE  InBox(d, box)
      <4>1. PICK e \in tree : d.addr = e.addr /\ d.size = e.size
        BY <1>5
      <4>2. InBox(e, box)
        BY <1>8 DEF Covered
      <4> QED
        BY <4>1, <4>2 DEF InBox, End
    <3> QED
      BY <3>1
  <2> QED
    BY <1>3, <2>1, <2>2 DEF Covered, Slots
<1>9. ASSUME Covered, Recorded
      PROVE  Recorded'
  <2>1. \A i \in LiveSlots : IsStored(array'[i]) /\ array'[i].state # "CLEAN"
    BY <1>4, <1>7, <1>9 DEF Recorded, IsStored
  <2>2. \A d \in tree' : IsStored(d) /\ d.state # "CLEAN" /\ ~d.is_delete
    <3>1. ASSUME NEW d \in tree'
          PROVE  IsStored(d) /\ d.state # "CLEAN" /\ ~d.is_delete
      <4>1. PICK e \in tree : /\ d.addr = e.addr /\ d.size = e.size /\ d.state = e.state
                              /\ d.is_delete = e.is_delete
        BY <1>5
      <4> QED
        BY <1>9, <4>1 DEF Recorded, IsStored
    <3> QED
      BY <3>1
  <2>3. \A i \in Slots(Current) : array'[i].is_delete \/ array'[i].state = "DIRTY"
    <3>1. \A i \in Slots(Current) : i \in LiveSlots
      BY CurrentSnippet, SlotsLive DEF Current
    <3> QED
      BY <1>4, <1>7, <1>9, <3>1 DEF Recorded
  <2> QED
    BY <1>3, <1>9, <2>1, <2>2, <2>3 DEF Recorded, Slots
<1> QED
  BY <1>3, <1>4, <1>6, <1>7, <1>8, <1>9

\* The bytes of a range, or of a store that is tracked, are addresses.
LEMMA ByteAddresses ==
  /\ \A r : IsRange(r) => Bytes(r) \subseteq 0 .. NoAddr
  /\ \A e \in Store : Bytes(e) \subseteq 0 .. NoAddr
<1>1. \A r : r.addr \in Nat /\ r.size \in Nat /\ End(r) < NoAddr => Bytes(r) \subseteq 0 .. NoAddr
  BY Ranges DEF Bytes, End
<1>2. \A r : IsRange(r) => r.addr \in Nat /\ r.size \in Nat /\ End(r) < NoAddr
  BY DEF IsRange
<1>3. \A e \in Store : e.addr \in Nat /\ e.size \in Nat /\ End(e) < NoAddr
  BY DEF Store
<1> QED
  BY <1>1, <1>2, <1>3

\* mark_epoch_fence counts within the bound of the model.
LEMMA MarkType ==
  ASSUME EpochsTypeOK, mark_epoch_fence
  PROVE  redundant_fence_reg' \in 0 .. MaxFenceEvents
<1>1. redundant_fence_reg \in 0 .. MaxFenceEvents
  BY DEF EpochsTypeOK
<1>2. CASE epoch
  <2>1. /\ redundant_fence_reg' = redundant_fence_reg + (IF RedundantFence(epoch_fence + 1) THEN 1 ELSE 0)
        /\ redundant_fence_reg' <= MaxFenceEvents
    BY <1>2 DEF mark_epoch_fence
  <2> QED
    BY <1>1, <2>1, EpochBounds
<1>3. CASE ~epoch
  BY <1>1, <1>3 DEF mark_epoch_fence
<1> QED
  BY <1>2, <1>3

\* The operations of store tracking keep the types of what they remember.
LEMMA TrackingType ==
  ASSUME EpochsTypeOK, epoch' \in BOOLEAN, NEW p, Tracking(p),
         p \in [dirty : SUBSET (0 .. NoAddr), flushed : SUBSET (0 .. NoAddr)]
  PROVE  EpochsTypeOK'
  BY DEF EpochsTypeOK, Tracking

\* epoch_end reports addresses of the stores that are tracked.
LEMMA EndType ==
  ASSUME Layout, EpochsTypeOK, NEW x, epoch_end(x), explicit' \in BOOLEAN,
         redundant_fence_reg' \in 0 .. MaxFenceEvents,
         DOMAIN counter' \subseteq TxIds, \A y \in DOMAIN counter' : counter'[y] \in 1 .. MaxNesting
  PROVE  EpochsTypeOK'
<1>1. CASE epoch
  <2>1. /\ epoch' = is_nest_trans(x, counter') /\ epoch_fence' = 0 /\ pending' = NonePending
        /\ ended' = BytesOf({array[i] : i \in Flagged} \cup {e \in tree : e.inEpoch})
    BY <1>1 DEF epoch_end
  <2>2. \A b \in ended' : b \in 0 .. NoAddr
    <3>1. ASSUME NEW b \in ended'
          PROVE  b \in 0 .. NoAddr
      <4>1. PICK e \in {array[i] : i \in Flagged} \cup {d \in tree : d.inEpoch} : b \in Bytes(e)
        BY <2>1, <3>1 DEF BytesOf
      <4>2. e \in Store
        BY <4>1, Sorts DEF Flagged
      <4> QED
        BY <4>1, <4>2, ByteAddresses
    <3> QED
      BY <3>1
  <2>3. epoch' \in BOOLEAN /\ epoch_fence' \in 0 .. MaxFences
    BY <2>1, EpochBounds DEF is_nest_trans
  <2>4. pending' \in [dirty : SUBSET (0 .. NoAddr), flushed : SUBSET (0 .. NoAddr)]
    BY <2>1 DEF NonePending
  <2> QED
    BY <2>2, <2>3, <2>4 DEF EpochsTypeOK
<1>2. CASE ~epoch
  <2>1. ended' = {} /\ epoch' = epoch /\ epoch_fence' = epoch_fence /\ pending' = pending
    BY <1>2 DEF epoch_end
  <2> QED
    BY <2>1 DEF EpochsTypeOK
<1> QED
  BY <1>1, <1>2

\* A step that may end an epoch keeps the layout of the tracked stores.
LEMMA EndLayout ==
  ASSUME Layout, NEW x, epoch_end(x), UNCHANGED <<snippets, box>>, out' = Quiet
  PROVE  Layout'
<1>1. CASE epoch
  BY <1>1, EndUnflags
<1>2. CASE ~epoch
  <2>1. UNCHANGED <<array, snippets, tree, box, epoch>>
    BY <1>2 DEF epoch_end
  <2>2. epoch' \in BOOLEAN
    BY <2>1 DEF Layout, TypeOK
  <2> QED
    BY <2>1, <2>2, SameEntries
<1> QED
  BY <1>1, <1>2

\* The operations of store tracking, made inside or outside an epoch.
LEMMA TrackingStep ==
  ASSUME EpochsInv,
         \/ \E r \in Stores : EpochStore(r)
         \/ \E q \in Flushes : EpochFlush(q)
         \/ EpochFence
         \/ \E r \in Cleans : EpochClean(r)
         \/ EpochStats
  PROVE  EpochsInv'
<1> DEFINE P == [dirty : SUBSET (0 .. NoAddr), flushed : SUBSET (0 .. NoAddr)]
<1>1. Next
  BY DEF EpochStore, EpochFlush, EpochFence, EpochClean, EpochStats, Next
<1>2. Layout'
  BY <1>1, NextLayout DEF EpochsInv
<1>3. epoch' \in BOOLEAN
  BY <1>2 DEF Layout, TypeOK
<1>4. /\ pending \in P /\ pending.dirty \subseteq 0 .. NoAddr /\ pending.flushed \subseteq 0 .. NoAddr
      /\ EpochsTypeOK
  BY DEF EpochsInv, EpochsTypeOK
<1>5. \E p \in P : Tracking(p)
  <2>1. ASSUME NEW r \in Stores, EpochStore(r)
        PROVE  \E p \in P : Tracking(p)
    <3>1. Bytes(r) \subseteq 0 .. NoAddr
      BY Ranges, ByteAddresses
    <3>2. (IF epoch THEN [pending EXCEPT !.dirty = @ \cup Bytes(r)] ELSE pending) \in P
      BY <1>4, <3>1
    <3> QED
      BY <2>1, <3>2 DEF EpochStore
  <2>2. ASSUME NEW q \in Flushes, EpochFlush(q)
        PROVE  \E p \in P : Tracking(p)
    <3> DEFINE hit == pending.dirty \cap Bytes(flush_info(q))
    <3>1. [dirty |-> pending.dirty \ hit, flushed |-> pending.flushed \cup hit] \in P
      BY <1>4
    <3> QED
      BY <2>2, <3>1 DEF EpochFlush
  <2>3. ASSUME EpochFence
        PROVE  \E p \in P : Tracking(p)
    <3>1. [pending EXCEPT !.flushed = {}] \in P
      BY <1>4
    <3> QED
      BY <2>3, <3>1 DEF EpochFence
  <2>4. ASSUME NEW r \in Cleans, EpochClean(r)
        PROVE  \E p \in P : Tracking(p)
    <3>1. [dirty |-> pending.dirty \ Bytes(r), flushed |-> pending.flushed \ Bytes(r)] \in P
      BY <1>4
    <3> QED
      BY <2>4, <3>1 DEF EpochClean
  <2>5. ASSUME EpochStats
        PROVE  \E p \in P : Tracking(p)
    BY <1>4, <2>5 DEF EpochStats
  <2> QED
    BY <2>1, <2>2, <2>3, <2>4, <2>5
<1> QED
  BY <1>2, <1>3, <1>4, <1>5, TrackingType DEF EpochsInv

\* The requests that begin and end transactions and epochs.
LEMMA RequestStep ==
  ASSUME EpochsInv,
         \/ \E x \in TxIds : START_TX(x) \/ END_TX(x)
         \/ FENCE_MARK
         \/ EPOCH_BEGIN
         \/ \E t \in Threads : EPOCH_END(t)
  PROVE  EpochsInv'
<1>1. Layout /\ EpochsTypeOK /\ epoch \in BOOLEAN /\ explicit \in BOOLEAN
  BY DEF EpochsInv, EpochsTypeOK
<1>2. ASSUME NEW x \in TxIds, START_TX(x)
      PROVE  EpochsInv'
  <2>1. /\ x \in DOMAIN counter => counter[x] < MaxNesting
        /\ counter' = Counted(x) /\ out' = Quiet /\ ended' = {}
        /\ epoch' = epoch \/ epoch' = TRUE
        /\ UNCHANGED <<array, snippets, tree, box>>
        /\ UNCHANGED <<epoch_fence, redundant_fence_reg, explicit, pending>>
    BY <1>2 DEF START_TX, epoch_begin
  <2>2. epoch' \in BOOLEAN
    BY <1>1, <2>1
  <2>3. Layout'
    BY <1>1, <2>1, <2>2, SameEntries
  <2>4. DOMAIN counter' \subseteq TxIds /\ \A y \in DOMAIN counter' : counter'[y] \in 1 .. MaxNesting
    BY <1>1, <2>1, CountedType
  <2>5. EpochsTypeOK'
    BY <1>1, <2>1, <2>2, <2>4 DEF EpochsTypeOK
  <2> QED
    BY <2>3, <2>5 DEF EpochsInv
<1>3. ASSUME NEW x \in TxIds, END_TX(x)
      PROVE  EpochsInv'
  <2>1. counter' = Discounted(x) /\ out' = Quiet /\ UNCHANGED <<snippets, box>> /\ explicit' = explicit
    BY <1>3 DEF END_TX
  <2>2. DOMAIN counter' \subseteq TxIds /\ \A y \in DOMAIN counter' : counter'[y] \in 1 .. MaxNesting
    BY <1>1, <2>1, DiscountedType
  <2>3. CASE is_nest_trans(x, counter)
    <3>1. /\ ended' = {} /\ UNCHANGED <<array, snippets, tree, box>> /\ epoch' = epoch
          /\ UNCHANGED <<epoch_fence, redundant_fence_reg, pending>>
      BY <1>3, <2>1, <2>3 DEF END_TX
    <3>2. epoch' \in BOOLEAN
      BY <1>1, <3>1
    <3>3. Layout'
      BY <1>1, <2>1, <3>1, <3>2, SameEntries
    <3>4. EpochsTypeOK'
      BY <1>1, <2>1, <2>2, <3>1 DEF EpochsTypeOK
    <3> QED
      BY <3>3, <3>4 DEF EpochsInv
  <2>4. CASE ~is_nest_trans(x, counter)
    <3>1. mark_epoch_fence /\ epoch_end(x)
      BY <1>3, <2>4 DEF END_TX
    <3>2. Layout'
      BY <1>1, <2>1, <3>1, EndLayout
    <3>3. redundant_fence_reg' \in 0 .. MaxFenceEvents
      BY <1>1, <3>1, MarkType
    <3>4. EpochsTypeOK'
      BY <1>1, <2>1, <2>2, <3>1, <3>3, EndType
    <3> QED
      BY <3>2, <3>4 DEF EpochsInv
  <2> QED
    BY <2>3, <2>4
<1>4. ASSUME FENCE_MARK
      PROVE  EpochsInv'
  <2>1. /\ mark_epoch_fence /\ epoch_fence' = (IF epoch THEN epoch_fence + 1 ELSE epoch_fence)
        /\ epoch_fence' <= MaxFences /\ out' = Quiet /\ ended' = {}
        /\ UNCHANGED <<array, snippets, tree, box>>
        /\ epoch' = epoch /\ counter' = counter /\ explicit' = explicit /\ pending' = pending
    BY <1>4 DEF FENCE_MARK
  <2>2. Layout'
    BY <1>1, <2>1, SameEntries
  <2>3. redundant_fence_reg' \in 0 .. MaxFenceEvents
    BY <1>1, <2>1, MarkType
  <2>4. epoch_fence \in 0 .. MaxFences
    BY <1>1 DEF EpochsTypeOK
  <2>5. epoch_fence' \in 0 .. MaxFences
    BY <2>1, <2>4, EpochBounds
  <2>6. EpochsTypeOK'
    BY <1>1, <2>1, <2>3, <2>5 DEF EpochsTypeOK
  <2> QED
    BY <2>2, <2>6 DEF EpochsInv
<1>5. ASSUME EPOCH_BEGIN
      PROVE  EpochsInv'
  <2>1. /\ epoch' = TRUE /\ explicit' = TRUE /\ out' = Quiet /\ ended' = {}
        /\ UNCHANGED <<array, snippets, tree, box>>
        /\ UNCHANGED <<counter, epoch_fence, redundant_fence_reg, pending>>
    BY <1>5 DEF EPOCH_BEGIN, epoch_begin
  <2>2. Layout'
    BY <1>1, <2>1, SameEntries
  <2>3. EpochsTypeOK'
    BY <1>1, <2>1 DEF EpochsTypeOK
  <2> QED
    BY <2>2, <2>3 DEF EpochsInv
<1>6. ASSUME NEW t \in Threads, EPOCH_END(t)
      PROVE  EpochsInv'
  <2>1. /\ epoch_end(t) /\ out' = Quiet /\ UNCHANGED <<snippets, box>> /\ explicit' = FALSE
        /\ counter' = counter /\ redundant_fence_reg' = redundant_fence_reg
    BY <1>6 DEF EPOCH_END
  <2>2. Layout'
    BY <1>1, <2>1, EndLayout
  <2>3. /\ DOMAIN counter' \subseteq TxIds /\ \A y \in DOMAIN counter' : counter'[y] \in 1 .. MaxNesting
        /\ redundant_fence_reg' \in 0 .. MaxFenceEvents
    BY <1>1, <2>1 DEF EpochsTypeOK
  <2>4. EpochsTypeOK'
    BY <1>1, <2>1, <2>3, EndType
  <2> QED
    BY <2>2, <2>4 DEF EpochsInv
<1> QED
  BY <1>2, <1>3, <1>4, <1>5, <1>6

\* Every step keeps the types and the layout.
LEMMA EpochsNextInv == EpochsInv /\ [EpochsNext]_allEpochVars => EpochsInv'
<1> SUFFICES ASSUME EpochsInv, [EpochsNext]_allEpochVars
             PROVE  EpochsInv'
  OBVIOUS
<1>1. CASE UNCHANGED allEpochVars
  <2>1. UNCHANGED vars /\ UNCHANGED epochVars
    BY <1>1 DEF allEpochVars
  <2>2. Layout'
    BY <2>1, NextLayout DEF EpochsInv
  <2>3. EpochsTypeOK'
    BY <2>1 DEF EpochsInv, EpochsTypeOK, vars, epochVars
  <2> QED
    BY <2>2, <2>3 DEF EpochsInv
<1>2. CASE EpochsNext
  BY <1>2, TrackingStep, RequestStep DEF EpochsNext
<1> QED
  BY <1>1, <1>2

\* The state is initially well-formed.
LEMMA EpochsInitInv == NaturalSets /\ EpochsInit => EpochsInv
<1>1. NaturalSets /\ EpochsInit => Layout
  BY InitLayout DEF EpochsInit
<1>2. EpochsInit => EpochsTypeOK
  <2> SUFFICES ASSUME EpochsInit
               PROVE  EpochsTypeOK
    OBVIOUS
  <2>1. DOMAIN counter = {}
    BY DEF EpochsInit
  <2>2. epoch \in BOOLEAN /\ explicit \in BOOLEAN
    BY ZenonT(60) DEF EpochsInit, Init
  <2>4. epoch_fence \in 0 .. MaxFences /\ redundant_fence_reg \in 0 .. MaxFenceEvents
    BY EpochBounds DEF EpochsInit
  <2>5. ended \in SUBSET (0 .. NoAddr)
    BY DEF EpochsInit
  <2>3. pending \in [dirty : SUBSET (0 .. NoAddr), flushed : SUBSET (0 .. NoAddr)]
    BY DEF EpochsInit, NonePending
  <2> QED
    BY <2>1, <2>2, <2>3, <2>4, <2>5, ZenonT(60) DEF EpochsTypeOK
<1> QED
  BY <1>1, <1>2 DEF EpochsInv

\* Epochs are well-typed in every order of requests and operations: a count of
\* remove_tx is never zero or negative, what epoch_end reports are addresses,
\* and so are the bytes it still has to report.
LEMMA EpochsTypeCorrectGiven == NaturalSets /\ EpochsSpec => []EpochsTypeOK
<1>1. EpochsInv => EpochsTypeOK
  BY DEF EpochsInv
<1> QED
  BY <1>1, EpochsInitInv, EpochsNextInv, PTL DEF EpochsSpec
----------------------------------------------------------------------------
(* What an epoch still has to report is flagged.                           *)

\* Byte b is in an entry with state st that epoch_end would report.
InFlagged(st, b) ==
  \/ \E i : InSlot(i, st, b) /\ array[i].inEpoch
  \/ \E e : InNode(e, st, b) /\ e.inEpoch

PendingFlagged ==
  /\ \A b \in pending.dirty : InFlagged("DIRTY", b)
  /\ \A b \in pending.flushed : InFlagged("FLUSHED", b)

\* The inductive invariant behind EndComplete.
FlagInv == GranularInv /\ EpochsTypeOK /\ PendingFlagged

\* InFlagged after a step.
LEMMA InFlaggedNext ==
  ASSUME NEW st, NEW b
  PROVE  InFlagged(st, b)' <=> \/ \E i : InSlot(i, st, b)' /\ array'[i].inEpoch
                               \/ \E e : InNode(e, st, b)' /\ e.inEpoch
  BY DEF InFlagged

\* What trace_pmem_store writes into a slot or node during an epoch.
LEMMA NewStoreFlagged ==
  ASSUME epoch, NEW r, NEW old
  PROVE  LET d == NewStore(r, old)
         IN  d.inEpoch /\ ~d.is_delete /\ d.state = "DIRTY" /\ Bytes(d) = Bytes(r)
<1>1. NewStore(r, old).inEpoch /\ ~NewStore(r, old).is_delete
  BY ZenonT(60) DEF NewStore
<1>2. NewStore(r, old).state = "DIRTY" /\ NewStore(r, old).addr = r.addr /\ NewStore(r, old).size = r.size
  BY DEF NewStore
<1>3. Bytes(NewStore(r, old)) = Bytes(r)
  BY <1>2 DEF Bytes, End
<1> QED
  BY <1>1, <1>2, <1>3

\* trace_pmem_store flags what is stored in an epoch and unflags nothing.
LEMMA StoreFlags ==
  ASSUME Layout, NEW r \in Stores, trace_pmem_store(r), NEW b
  PROVE  /\ \A st : InFlagged(st, b) => InFlagged(st, b)'
         /\ epoch /\ b \in Bytes(r) => InFlagged("DIRTY", b)'
<1>1. CASE StoreToArray(r)
  <2>1. PICK c \in Nat : c = Current.index
    BY <1>1, StoreSlots
  <2>2. /\ LiveSlots' = LiveSlots \cup {c} /\ tree' = tree
        /\ \A i \in LiveSlots : array'[i] = array[i]
        /\ array'[c] = NewStore(r, array[c])
        /\ \A i : AllFlushed(i)' <=> AllFlushed(i)
        /\ ~AllFlushed(c)
    BY <1>1, <2>1, StoreSlots DEF StoreToArray
  <2>3. ASSUME NEW st, NEW i, InSlot(i, st, b), array[i].inEpoch
        PROVE  InSlot(i, st, b)' /\ array'[i].inEpoch
    BY <2>2, <2>3 DEF InSlot, Effective
  <2>4. ASSUME NEW st, NEW e, InNode(e, st, b)
        PROVE  InNode(e, st, b)'
    BY <2>2, <2>4 DEF InNode
  <2>5. ASSUME epoch, b \in Bytes(r)
        PROVE  InSlot(c, "DIRTY", b)' /\ array'[c].inEpoch
    <3>1. /\ array'[c].inEpoch /\ ~array'[c].is_delete /\ array'[c].state = "DIRTY"
          /\ b \in Bytes(array'[c])
      BY <2>2, <2>5, NewStoreFlagged
    <3> QED
      BY <2>2, <3>1 DEF InSlot, Effective
  <2>6. \A st : InFlagged(st, b) => InFlagged(st, b)'
    BY <2>3, <2>4, InFlaggedNext DEF InFlagged
  <2> QED
    BY <2>5, <2>6, InFlaggedNext
<1>2. CASE StoreToTree(r)
  <2>1. UNCHANGED <<array, snippets>> /\ tree' = tree \cup {NewStore(r, ZeroStore)}
    BY <1>2 DEF StoreToTree
  <2>2. ASSUME NEW st, NEW i, InSlot(i, st, b), array[i].inEpoch
        PROVE  InSlot(i, st, b)' /\ array'[i].inEpoch
    BY <2>1, <2>2 DEF InSlot, Effective, LiveSlots, AllFlushed, Last, Current
  <2>3. ASSUME NEW st, NEW e, InNode(e, st, b)
        PROVE  InNode(e, st, b)'
    BY <2>1, <2>3 DEF InNode
  <2>4. ASSUME epoch, b \in Bytes(r)
        PROVE  \E e : InNode(e, "DIRTY", b)' /\ e.inEpoch
    <3>1. PICK d : d = NewStore(r, ZeroStore)
      OBVIOUS
    <3>2. d.inEpoch /\ d.state = "DIRTY" /\ b \in Bytes(d)
      BY <2>4, <3>1, NewStoreFlagged
    <3> QED
      BY <2>1, <3>1, <3>2 DEF InNode
  <2>5. \A st : InFlagged(st, b) => InFlagged(st, b)'
    BY <2>2, <2>3, InFlaggedNext DEF InFlagged
  <2> QED
    BY <2>4, <2>5, InFlaggedNext
<1> QED
  BY <1>1, <1>2 DEF trace_pmem_store

\* print_store_stats touches no flag.
LEMMA StatsFlags ==
  ASSUME Layout, print_store_stats, NEW st, NEW b, InFlagged(st, b)
  PROVE  InFlagged(st, b)'
<1>1. /\ array' = [i \in DOMAIN array |->
                     IF AllFlushed(i) THEN [array[i] EXCEPT !.state = "FLUSHED"] ELSE array[i]]
      /\ UNCHANGED <<snippets, tree>>
  BY DEF print_store_stats
<1>2. ASSUME NEW i, InSlot(i, st, b), array[i].inEpoch
      PROVE  InSlot(i, st, b)' /\ array'[i].inEpoch
  <2>1. i \in LiveSlots /\ i \in DOMAIN array /\ array[i] \in Store
    BY <1>2, LiveInDomain, Sorts DEF InSlot
  <2>2. /\ array'[i].addr = array[i].addr /\ array'[i].size = array[i].size
        /\ array'[i].is_delete = array[i].is_delete /\ array'[i].inEpoch = array[i].inEpoch
        /\ array'[i].state = IF AllFlushed(i) THEN "FLUSHED" ELSE array[i].state
    BY <1>1, <2>1 DEF Store
  <2>3. LiveSlots' = LiveSlots /\ (AllFlushed(i)' <=> AllFlushed(i))
    BY <1>1 DEF LiveSlots, AllFlushed, Last, Current
  <2> QED
    BY <1>2, <2>2, <2>3 DEF InSlot, Effective, Bytes, End
<1>3. ASSUME NEW e, InNode(e, st, b)
      PROVE  InNode(e, st, b)'
  BY <1>1, <1>3 DEF InNode
<1> QED
  BY <1>2, <1>3 DEF InFlagged

\* do_fence keeps the flags of the dirty stores, which all go to the tree.
LEMMA FenceFlags ==
  ASSUME Layout, do_fence, NEW b, InFlagged("DIRTY", b)
  PROVE  InFlagged("DIRTY", b)'
<1>1. tree' = {e \in tree : e.state # "FLUSHED"} \cup Moved
  BY DEF do_fence
<1>2. ASSUME NEW i, InSlot(i, "DIRTY", b), array[i].inEpoch
      PROVE  \E e : InNode(e, "DIRTY", b)' /\ e.inEpoch
  <2>1. i \in LiveSlots /\ ~AllFlushed(i) /\ array[i].state = "DIRTY" /\ ~array[i].is_delete
        /\ b \in Bytes(array[i])
    BY <1>2 DEF InSlot, Effective
  <2>2. PICK e : e = array[i]
    OBVIOUS
  <2>3. e \in tree'
    BY <1>1, <2>1, <2>2 DEF Moved
  <2> QED
    BY <1>2, <2>1, <2>2, <2>3 DEF InNode
<1>3. ASSUME NEW e, InNode(e, "DIRTY", b)
      PROVE  InNode(e, "DIRTY", b)'
  BY <1>1, <1>3 DEF InNode
<1> QED
  BY <1>2, <1>3 DEF InFlagged

\* do_flush keeps the flags of what it marks, as no store is split.
LEMMA FlushFlags ==
  ASSUME GranularInv, NEW q \in Flushes, do_flush(q), NEW b
  PROVE  LET f == flush_info(q)
         IN  /\ InFlagged("DIRTY", b) /\ b \in Bytes(f) => InFlagged("FLUSHED", b)'
             /\ InFlagged("DIRTY", b) /\ b \notin Bytes(f) => InFlagged("DIRTY", b)'
             /\ InFlagged("FLUSHED", b) => InFlagged("FLUSHED", b)'
<1>1. PICK f \in FlushRanges : f = flush_info(q)
  BY DEF FlushRanges
<1>2. /\ array' = FlushArray(f) /\ snippets' = FlushSnippets(f) /\ tree' = FlushTree(f)
      /\ Layout /\ Granular /\ Covered /\ Recorded
  BY <1>1 DEF do_flush, GranularInv
<1>3. IsRange(f) /\ f.addr \in Nat /\ f.size \in Nat
  BY Ranges DEF IsRange
<1>4. ASSUME NEW e \in Store, IsStored(e), b \in Bytes(e)
      PROVE  b \in Bytes(f) <=> Overlap(f, e)
  <2>1. Overlap(f, e) => Within(e, f)
    BY <1>2, <1>4, GranularWithin
  <2>2. e.addr \in Nat /\ e.size \in Nat
    BY DEF Store
  <2>3. b \in Bytes(f) => Overlap(f, e)
    BY <1>3, <1>4, <2>2, Shared
  <2>4. Within(e, f) => b \in Bytes(f)
    BY <1>3, <1>4, <2>2 DEF Within, Bytes, End
  <2> QED
    BY <2>1, <2>3, <2>4
<1> DEFINE st2(st) == IF st = "DIRTY" /\ b \in Bytes(f) THEN "FLUSHED" ELSE st
<1>5. ASSUME NEW st \in {"DIRTY", "FLUSHED"}, NEW i, InSlot(i, st, b), array[i].inEpoch
      PROVE  InFlagged(st2(st), b)'
  <2>1. /\ i \in LiveSlots /\ ~array[i].is_delete /\ Effective(i) = st /\ b \in Bytes(array[i])
        /\ array[i] \in Store /\ IsStored(array[i])
    BY <1>2, <1>5, Sorts DEF InSlot, Recorded
  <2>2. /\ i \in LiveSlots' /\ array'[i].addr = array[i].addr /\ array'[i].size = array[i].size
        /\ array'[i].is_delete = array[i].is_delete /\ array'[i].inEpoch = array[i].inEpoch
    BY <2>1, FlushRecorded
  <2>3. PICK k \in 1 .. Last : i \in Slots(snippets[k])
    BY <1>2, <2>1, SnippetOf
  <2>4. InBox(array[i], snippets[k])
    BY <1>2, <2>3 DEF Covered
  <2>5. /\ Whole(snippets[k], f) => b \in Bytes(f)
        /\ b \in Bytes(f) /\ st = "DIRTY" /\ ~Whole(snippets[k], f) => i \in FreshSlots(f)
    BY <1>2, <1>3, <2>1, <2>3, <2>4, FlushMisses
  <2>6. /\ i \in FreshSlots(f) => array'[i] = FlushedPart(array[i], f)
        /\ i \notin FreshSlots(f) => array'[i] = array[i]
        /\ AllFlushed(i)' <=> AllFlushed(i) \/ Whole(snippets[k], f)
    BY <1>2, <1>3, <2>1, <2>3, FlushSlots
  <2>7. i \in FreshSlots(f) => /\ st = "DIRTY" /\ Overlap(f, array[i])
                               /\ array'[i].state = "FLUSHED"
    <3>1. SUFFICES ASSUME i \in FreshSlots(f)
                   PROVE  st = "DIRTY" /\ Overlap(f, array[i]) /\ array'[i].state = "FLUSHED"
      OBVIOUS
    <3>2. Effective(i) = "DIRTY" /\ Overlap(f, array[i])
      BY <1>2, <1>3, <3>1, FreshFacts
    <3>3. FlushedPart(array[i], f).state = "FLUSHED"
      BY <1>3, <2>1, <3>2, FlushedPartFacts
    <3> QED
      BY <2>1, <2>6, <3>1, <3>2, <3>3
  <2>8. i \in FreshSlots(f) => b \in Bytes(f)
    BY <1>4, <2>1, <2>7
  <2>9. Effective(i)' = st2(st)
    <3>1. CASE i \in FreshSlots(f)
      BY <2>7, <2>8, <3>1 DEF Effective
    <3>2. CASE i \notin FreshSlots(f)
      <4>1. array'[i] = array[i]
        BY <2>6, <3>2
      <4>2. CASE Whole(snippets[k], f)
        BY <1>5, <2>5, <2>6, <4>2 DEF Effective
      <4>3. CASE ~Whole(snippets[k], f)
        BY <1>5, <2>1, <2>5, <2>6, <3>2, <4>1, <4>3 DEF Effective
      <4> QED
        BY <4>2, <4>3
    <3> QED
      BY <3>1, <3>2
  <2>10. PICK s : s = st2(st)
    OBVIOUS
  <2>11. InSlot(i, s, b)' /\ array'[i].inEpoch
    BY <1>5, <2>1, <2>2, <2>9, <2>10 DEF InSlot, Bytes, End
  <2> HIDE DEF st2
  <2>12. InFlagged(s, b)'
    BY <2>11, InFlaggedNext
  <2> QED
    BY <2>10, <2>12
<1>6. ASSUME NEW st \in {"DIRTY", "FLUSHED"}, NEW e, InNode(e, st, b), e.inEpoch
      PROVE  InFlagged(st2(st), b)'
  <2>1. e \in tree /\ e.state = st /\ b \in Bytes(e) /\ e \in Store /\ IsStored(e) /\ InBox(e, box)
    BY <1>2, <1>6, Sorts DEF InNode, Recorded, Covered
  <2>2. \A d : d \in tree' <=> \/ \E p \in Remainders(f) :
                                    SlotOf(Remainders(f), p) >= MAX_ARRAY_NUM /\ d = Remainder(p, f)
                               \/ \E n \in tree : IF Touches(box, f) THEN d \in FlushNode(n, f) ELSE d = n
    BY <1>2, <1>3, FlushNodes
  <2>3. CASE st = "DIRTY" /\ b \in Bytes(f)
    <3>1. Overlap(f, e) /\ Touches(box, f)
      BY <1>2, <1>3, <1>4, <2>1, <2>3, Shared, Sorts
    <3>2. PICK d : d = FlushedPart(e, f)
      OBVIOUS
    <3>3. d \in tree'
      <4>1. d \in FlushNode(e, f)
        BY <2>1, <2>3, <3>1, <3>2 DEF FlushNode
      <4> QED
        BY <2>1, <2>2, <3>1, <4>1
    <3>4. d.state = "FLUSHED" /\ d.inEpoch = e.inEpoch
      BY <1>3, <2>1, <3>1, <3>2, FlushedPartFacts
    <3>5. b \in Bytes(d)
      BY <1>3, <2>1, <2>3, <3>1, <3>2, PartsBytes
    <3>6. InNode(d, "FLUSHED", b)' /\ d.inEpoch
      BY <1>6, <3>3, <3>4, <3>5 DEF InNode
    <3>7. InFlagged("FLUSHED", b)'
      BY <3>6, InFlaggedNext
    <3> QED
      BY <2>3, <3>7
  <2>4. CASE ~(st = "DIRTY" /\ b \in Bytes(f))
    <3>1. e \in FlushNode(e, f)
      BY <1>4, <2>1, <2>4 DEF FlushNode
    <3>2. e \in tree'
      BY <2>1, <2>2, <3>1
    <3>3. InNode(e, st, b)'
      BY <2>1, <3>2 DEF InNode
    <3>4. InFlagged(st, b)'
      BY <1>6, <3>3, InFlaggedNext
    <3> QED
      BY <2>4, <3>4
  <2> QED
    BY <2>3, <2>4
<1>7. \A st \in {"DIRTY", "FLUSHED"} : InFlagged(st, b) => InFlagged(st2(st), b)'
  BY <1>5, <1>6 DEF InFlagged
<1>8. st2("FLUSHED") = "FLUSHED" /\ st2("DIRTY") = IF b \in Bytes(f) THEN "FLUSHED" ELSE "DIRTY"
  OBVIOUS
<1> HIDE DEF st2
<1> QED
  BY <1>1, <1>7, <1>8

\* SET_CLEAN keeps the flags of what it leaves.
LEMMA CleanFlags ==
  ASSUME GranularInv, NEW r \in Cleans, SET_CLEAN(r), NEW st, NEW b, InFlagged(st, b), b \notin Bytes(r)
  PROVE  InFlagged(st, b)'
<1>1. Layout /\ Recorded /\ Granular
  BY DEF GranularInv
<1>2. ASSUME NEW i, InSlot(i, st, b), array[i].inEpoch
      PROVE  InSlot(i, st, b)' /\ array'[i].inEpoch
  <2>1. /\ i \in LiveSlots /\ ~array[i].is_delete /\ Effective(i) = st /\ b \in Bytes(array[i])
        /\ array[i] \in Store
    BY <1>1, <1>2, Sorts DEF InSlot
  <2>2. /\ i \in LiveSlots' /\ array'[i].addr = array[i].addr /\ array'[i].size = array[i].size
        /\ array'[i].state = array[i].state /\ array'[i].inEpoch = array[i].inEpoch
        /\ array'[i].is_delete <=> array[i].is_delete \/ i \in CleanSlots(r)
    BY <2>1, CleanRecorded
  <2>3. i \notin CleanSlots(r)
    <3>1. i \in CleanSlots(r) => Within(array[i], r)
      BY GranularDeletes
    <3>2. Within(array[i], r) => b \in Bytes(r)
      BY <2>1, Ranges DEF Within, Bytes, End, Store, IsRange
    <3> QED
      BY <3>1, <3>2
  <2>4. AllFlushed(i)' <=> AllFlushed(i)
    BY <1>1, CleanSlotsNodes
  <2> QED
    BY <1>2, <2>1, <2>2, <2>3, <2>4 DEF InSlot, Effective, Bytes, End
<1>3. ASSUME NEW e, InNode(e, st, b)
      PROVE  InNode(e, st, b)'
  <2>1. e \in tree /\ e.state = st /\ b \in Bytes(e) /\ e \in Store /\ IsStored(e)
    BY <1>1, <1>3, Sorts DEF InNode, Recorded
  <2>2. ~Overlap(e, r)
    <3>1. SUFFICES ASSUME Overlap(e, r)
                   PROVE  FALSE
      OBVIOUS
    <3>2. Overlap(r, e)
      BY <3>1 DEF Overlap
    <3>3. Within(e, r)
      BY <1>1, <2>1, <3>2, GranularWithin
    <3> QED
      BY <2>1, <3>3, Ranges DEF Within, Bytes, End, Store, IsRange
  <2>3. e \in tree'
    BY <2>1, <2>2, CleanRecorded
  <2> QED
    BY <2>1, <2>3 DEF InNode
<1> QED
  BY <1>2, <1>3, InFlaggedNext DEF InFlagged

\* A step that leaves the entries alone leaves their flags alone.
LEMMA SameFlags ==
  ASSUME UNCHANGED <<array, snippets, tree>>, NEW st, NEW b
  PROVE  InFlagged(st, b)' <=> InFlagged(st, b)
<1>1. \A i : InSlot(i, st, b)' <=> InSlot(i, st, b)
  BY DEF InSlot, Effective, LiveSlots, AllFlushed, Last, Current
<1>2. \A e : InNode(e, st, b)' <=> InNode(e, st, b)
  BY DEF InNode
<1> QED
  BY <1>1, <1>2, InFlaggedNext DEF InFlagged

\* The operations of store tracking keep what is pending flagged.
LEMMA TrackingFlags ==
  ASSUME FlagInv,
         \/ \E r \in Stores : EpochStore(r)
         \/ \E q \in Flushes : EpochFlush(q)
         \/ EpochFence
         \/ \E r \in Cleans : EpochClean(r)
         \/ EpochStats
  PROVE  GranularInv' /\ PendingFlagged'
<1>1. GranularInv /\ Layout /\ PendingFlagged
  BY DEF FlagInv, GranularInv
<1>2. pending \in [dirty : SUBSET (0 .. NoAddr), flushed : SUBSET (0 .. NoAddr)]
  BY DEF FlagInv, EpochsTypeOK
<1>3. Next
  BY DEF EpochStore, EpochFlush, EpochFence, EpochClean, EpochStats, Next
<1>4. GranularInv'
  BY <1>1, <1>3, NextGranular
<1>5. /\ \A b \in pending.dirty : InFlagged("DIRTY", b)
      /\ \A b \in pending.flushed : InFlagged("FLUSHED", b)
  BY <1>1 DEF PendingFlagged
<1>6. SUFFICES /\ \A b \in pending'.dirty : InFlagged("DIRTY", b)'
               /\ \A b \in pending'.flushed : InFlagged("FLUSHED", b)'
  BY <1>4 DEF PendingFlagged
<1>7. ASSUME NEW r \in Stores, EpochStore(r)
      PROVE  /\ \A b \in pending'.dirty : InFlagged("DIRTY", b)'
             /\ \A b \in pending'.flushed : InFlagged("FLUSHED", b)'
  <2>1. trace_pmem_store(r)
    BY <1>7 DEF EpochStore
  <2>2. pending' = IF epoch THEN [pending EXCEPT !.dirty = @ \cup Bytes(r)] ELSE pending
    BY <1>7 DEF EpochStore, Tracking
  <2>3. /\ \A b \in pending'.dirty : b \in pending.dirty \/ (epoch /\ b \in Bytes(r))
        /\ pending'.flushed = pending.flushed
    BY <1>2, <2>2
  <2> QED
    BY <1>1, <1>5, <2>1, <2>3, StoreFlags
<1>8. ASSUME NEW q \in Flushes, EpochFlush(q)
      PROVE  /\ \A b \in pending'.dirty : InFlagged("DIRTY", b)'
             /\ \A b \in pending'.flushed : InFlagged("FLUSHED", b)'
  <2>1. do_flush(q)
    BY <1>8 DEF EpochFlush
  <2>2. PICK f : f = flush_info(q)
    OBVIOUS
  <2>3. /\ pending'.dirty = pending.dirty \ (pending.dirty \cap Bytes(f))
        /\ pending'.flushed = pending.flushed \cup (pending.dirty \cap Bytes(f))
    BY <1>8, <2>2 DEF EpochFlush, Tracking
  <2>4. \A b : /\ InFlagged("DIRTY", b) /\ b \in Bytes(f) => InFlagged("FLUSHED", b)'
               /\ InFlagged("DIRTY", b) /\ b \notin Bytes(f) => InFlagged("DIRTY", b)'
               /\ InFlagged("FLUSHED", b) => InFlagged("FLUSHED", b)'
    BY <1>1, <2>1, <2>2, FlushFlags
  <2> QED
    BY <1>5, <2>3, <2>4
<1>9. ASSUME EpochFence
      PROVE  /\ \A b \in pending'.dirty : InFlagged("DIRTY", b)'
             /\ \A b \in pending'.flushed : InFlagged("FLUSHED", b)'
  <2>1. do_fence /\ pending' = [pending EXCEPT !.flushed = {}]
    BY <1>9 DEF EpochFence, Tracking
  <2>2. pending'.dirty = pending.dirty /\ pending'.flushed = {}
    BY <1>2, <2>1
  <2> QED
    BY <1>1, <1>5, <2>1, <2>2, FenceFlags
<1>10. ASSUME NEW r \in Cleans, EpochClean(r)
       PROVE  /\ \A b \in pending'.dirty : InFlagged("DIRTY", b)'
              /\ \A b \in pending'.flushed : InFlagged("FLUSHED", b)'
  <2>1. SET_CLEAN(r)
    BY <1>10 DEF EpochClean
  <2>2. pending'.dirty = pending.dirty \ Bytes(r) /\ pending'.flushed = pending.flushed \ Bytes(r)
    BY <1>10 DEF EpochClean, Tracking
  <2> QED
    BY <1>1, <1>5, <2>1, <2>2, CleanFlags
<1>11. ASSUME EpochStats
       PROVE  /\ \A b \in pending'.dirty : InFlagged("DIRTY", b)'
              /\ \A b \in pending'.flushed : InFlagged("FLUSHED", b)'
  <2>1. print_store_stats /\ pending' = pending
    BY <1>11 DEF EpochStats, Tracking
  <2> QED
    BY <1>1, <1>5, <2>1, StatsFlags
<1> QED
  BY <1>7, <1>8, <1>9, <1>10, <1>11

\* The requests leave nothing pending that is not flagged.
LEMMA RequestFlags ==
  ASSUME FlagInv,
         \/ \E x \in TxIds : START_TX(x) \/ END_TX(x)
         \/ FENCE_MARK
         \/ EPOCH_BEGIN
         \/ \E t \in Threads : EPOCH_END(t)
  PROVE  /\ Covered' /\ Recorded' /\ PendingFlagged'
         /\ snippets' = snippets
<1>1. Layout /\ Covered /\ Recorded /\ PendingFlagged
  BY DEF FlagInv, GranularInv
<1>2. ASSUME UNCHANGED <<array, snippets, tree, box>>, pending' = pending
      PROVE  /\ Covered' /\ Recorded' /\ PendingFlagged'
             /\ snippets' = snippets
  <2>1. Covered' /\ Recorded'
    BY <1>1, <1>2, SameEntries
  <2>2. \A st, b : InFlagged(st, b)' <=> InFlagged(st, b)
    BY <1>2, SameFlags
  <2> QED
    BY <1>1, <1>2, <2>1, <2>2 DEF PendingFlagged
<1>3. ASSUME NEW x, epoch_end(x), UNCHANGED <<snippets, box>>, out' = Quiet
      PROVE  /\ Covered' /\ Recorded' /\ PendingFlagged'
             /\ snippets' = snippets
  <2>1. CASE epoch
    <3>1. Covered' /\ Recorded'
      BY <1>1, <1>3, <2>1, EndUnflags
    <3>2. pending' = NonePending
      BY <1>3, <2>1 DEF epoch_end
    <3> QED
      BY <1>3, <3>1, <3>2 DEF PendingFlagged, NonePending
  <2>2. CASE ~epoch
    <3>1. UNCHANGED <<array, tree>> /\ pending' = pending
      BY <1>3, <2>2 DEF epoch_end
    <3> QED
      BY <1>2, <1>3, <3>1
  <2> QED
    BY <2>1, <2>2
<1>4. ASSUME NEW x \in TxIds, START_TX(x)
      PROVE  UNCHANGED <<array, snippets, tree, box>> /\ pending' = pending
  BY <1>4 DEF START_TX
<1>5. ASSUME NEW x \in TxIds, END_TX(x)
      PROVE  \/ UNCHANGED <<array, snippets, tree, box>> /\ pending' = pending
             \/ epoch_end(x) /\ UNCHANGED <<snippets, box>> /\ out' = Quiet
  BY <1>5 DEF END_TX
<1>6. ASSUME FENCE_MARK \/ EPOCH_BEGIN
      PROVE  UNCHANGED <<array, snippets, tree, box>> /\ pending' = pending
  BY <1>6 DEF FENCE_MARK, EPOCH_BEGIN
<1>7. ASSUME NEW t \in Threads, EPOCH_END(t)
      PROVE  epoch_end(t) /\ UNCHANGED <<snippets, box>> /\ out' = Quiet
  BY <1>7 DEF EPOCH_END
<1> QED
  BY <1>2, <1>3, <1>4, <1>5, <1>6, <1>7

\* Every step keeps what is pending flagged.
LEMMA NextFlags == FlagInv /\ [EpochsNext]_allEpochVars => FlagInv'
<1> SUFFICES ASSUME FlagInv, [EpochsNext]_allEpochVars
             PROVE  FlagInv'
  OBVIOUS
<1>1. GranularInv /\ EpochsTypeOK /\ PendingFlagged /\ Granular /\ Layout
  BY DEF FlagInv, GranularInv
<1>2. Layout' /\ EpochsTypeOK'
  BY <1>1, EpochsNextInv DEF EpochsInv
<1>3. GranularInv' /\ PendingFlagged'
  <2>1. CASE UNCHANGED allEpochVars
    <3>1. UNCHANGED vars /\ UNCHANGED <<array, snippets, tree>> /\ pending' = pending
      BY <2>1 DEF allEpochVars, vars, epochVars
    <3>2. GranularInv'
      BY <1>1, <3>1, NextGranular
    <3>3. \A st, b : InFlagged(st, b)' <=> InFlagged(st, b)
      BY <3>1, SameFlags
    <3> QED
      BY <1>1, <3>1, <3>2, <3>3 DEF PendingFlagged
  <2>2. CASE \/ \E x \in TxIds : START_TX(x) \/ END_TX(x)
             \/ FENCE_MARK
             \/ EPOCH_BEGIN
             \/ \E t \in Threads : EPOCH_END(t)
    <3>1. Covered' /\ Recorded' /\ PendingFlagged'
      BY <2>2, RequestFlags
    <3> QED
      BY <1>1, <1>2, <3>1 DEF GranularInv, Granular, FlushRanges
  <2>3. CASE \/ \E r \in Stores : EpochStore(r)
             \/ \E q \in Flushes : EpochFlush(q)
             \/ EpochFence
             \/ \E r \in Cleans : EpochClean(r)
             \/ EpochStats
    BY <2>3, TrackingFlags
  <2> QED
    BY <2>1, <2>2, <2>3 DEF EpochsNext
<1> QED
  BY <1>2, <1>3 DEF FlagInv

\* In a step that epoch_end describes no slot is taken into use.
LEMMA EndTakesNoSlot ==
  ASSUME FlagInv, [EpochsNext]_allEpochVars, epoch, NEW x, epoch_end(x)
  PROVE  LiveSlots' \subseteq LiveSlots
<1>1. GranularInv /\ Layout
  BY DEF FlagInv, GranularInv
<1>2. snippets' = snippets => LiveSlots' = LiveSlots
  BY DEF LiveSlots, Current, Last
<1>3. ASSUME NEW r \in Stores, EpochStore(r)
      PROVE  LiveSlots' \subseteq LiveSlots
  <2>1. pending' = [pending EXCEPT !.dirty = @ \cup Bytes(r)] /\ pending' = NonePending
    BY <1>3 DEF EpochStore, Tracking, epoch_end
  <2>2. pending \in [dirty : SUBSET (0 .. NoAddr), flushed : SUBSET (0 .. NoAddr)]
    BY DEF FlagInv, EpochsTypeOK
  <2>3. r.addr \in Bytes(r)
    BY Ranges DEF Bytes, End, IsRange
  <2>4. r.addr \in pending'.dirty
    BY <2>1, <2>2, <2>3
  <2> QED
    BY <2>1, <2>4 DEF NonePending
<1>4. ASSUME NEW q \in Flushes, EpochFlush(q)
      PROVE  LiveSlots' \subseteq LiveSlots
  BY <1>1, <1>4, FlushRecorded DEF EpochFlush
<1>5. ASSUME EpochFence
      PROVE  LiveSlots' \subseteq LiveSlots
  BY <1>1, <1>5, FenceBytes DEF EpochFence
<1>6. ASSUME NEW r \in Cleans, EpochClean(r)
      PROVE  LiveSlots' \subseteq LiveSlots
  BY <1>1, <1>6, CleanRecorded DEF EpochClean
<1>7. ASSUME EpochStats
      PROVE  LiveSlots' \subseteq LiveSlots
  BY <1>2, <1>7 DEF EpochStats, print_store_stats
<1>8. CASE \/ \E y \in TxIds : START_TX(y) \/ END_TX(y)
           \/ FENCE_MARK
           \/ EPOCH_BEGIN
           \/ \E t \in Threads : EPOCH_END(t)
  BY <1>2, <1>8, RequestFlags
<1>9. CASE UNCHANGED allEpochVars
  BY <1>2, <1>9 DEF allEpochVars, vars
<1> QED
  BY <1>3, <1>4, <1>5, <1>6, <1>7, <1>8, <1>9 DEF EpochsNext

\* What epoch_end reports and unflags.
LEMMA EndReports ==
  ASSUME FlagInv, epoch, NEW x, epoch_end(x), LiveSlots' \subseteq LiveSlots
  PROVE  /\ pending.dirty \cup pending.flushed \subseteq ended'
         /\ ended' \subseteq DirtyBytes \cup FlushedBytes
         /\ \A i \in LiveSlots' : array'[i].inEpoch => array'[i].is_delete
         /\ \A e \in tree' : ~e.inEpoch
<1>1. /\ tree' = {Unflag(e) : e \in tree}
      /\ array' = [i \in DOMAIN array |-> IF i \in Flagged THEN Unflag(array[i]) ELSE array[i]]
      /\ ended' = BytesOf({array[i] : i \in Flagged} \cup {e \in tree : e.inEpoch})
  BY DEF epoch_end
<1>2. GranularInv /\ Layout /\ PendingFlagged
  BY DEF FlagInv, GranularInv
<1>3. \A b : b \in ended' <=> \/ \E i \in Flagged : b \in Bytes(array[i])
                              \/ \E e \in tree : e.inEpoch /\ b \in Bytes(e)
  BY <1>1 DEF BytesOf
<1>4. ASSUME NEW st, NEW b, InFlagged(st, b)
      PROVE  b \in ended'
  BY <1>3, <1>4 DEF InFlagged, InSlot, InNode, Flagged
<1>5. \A b \in pending.dirty \cup pending.flushed : b \in ended'
  BY <1>2, <1>4 DEF PendingFlagged
<1>6. ASSUME NEW b \in ended'
      PROVE  b \in DirtyBytes \cup FlushedBytes
  <2>1. ASSUME NEW i \in Flagged, b \in Bytes(array[i])
        PROVE  \E st \in {"DIRTY", "FLUSHED"} : InSlot(i, st, b)
    <3>1. i \in LiveSlots /\ ~array[i].is_delete
      BY DEF Flagged
    <3>2. Effective(i) \in {"DIRTY", "FLUSHED"}
      BY <1>2, <3>1, Stateful
    <3> QED
      BY <2>1, <3>1, <3>2 DEF InSlot
  <2>2. ASSUME NEW e \in tree, b \in Bytes(e)
        PROVE  \E st \in {"DIRTY", "FLUSHED"} : InNode(e, st, b)
    <3>1. e.state \in {"DIRTY", "FLUSHED"}
      BY <1>2, Stateful
    <3> QED
      BY <2>2, <3>1 DEF InNode
  <2>3. \E st \in {"DIRTY", "FLUSHED"} : b \in BytesIn(st)
    BY <1>3, <1>6, <2>1, <2>2, InBytes
  <2> QED
    BY <2>3 DEF DirtyBytes, FlushedBytes
<1>7. ASSUME NEW i \in LiveSlots', array'[i].inEpoch
      PROVE  array'[i].is_delete
  <2>1. i \in LiveSlots /\ i \in DOMAIN array /\ array[i] \in Store
    BY <1>2, <1>7, LiveInDomain, Sorts
  <2>2. CASE i \in Flagged
    <3>1. array'[i] = Unflag(array[i])
      BY <1>1, <2>1, <2>2
    <3>2. Unflag(array[i]).inEpoch = FALSE
      BY <2>1, UnflagType
    <3> QED
      BY <1>7, <3>1, <3>2, ZenonT(60)
  <2>3. CASE i \notin Flagged
    <3>1. array'[i] = array[i]
      BY <1>1, <2>1, <2>3
    <3> QED
      BY <1>7, <2>1, <2>3, <3>1 DEF Flagged
  <2> QED
    BY <2>2, <2>3
<1>8. ASSUME NEW d \in tree'
      PROVE  ~d.inEpoch
  <2>1. PICK e \in tree : d = Unflag(e)
    BY <1>1
  <2>2. Unflag(e).inEpoch = FALSE
    BY <1>2, Sorts, UnflagType
  <2> QED
    BY <2>1, <2>2, ZenonT(60)
<1> QED
  BY <1>5, <1>6, <1>7, <1>8

\* README.md, epoch_durability: when ranges are Granular, the end of an epoch
\* reports every byte that was stored in it, or since it was last reported,
\* and is not persistent, wherever do_fence and the overflow of the array have
\* put its store; nothing persistent; and no store a second time.
LEMMA AlwaysEndCompleteGiven == NaturalSets /\ Granular /\ EpochsSpec => EndComplete
<1>1. NaturalSets /\ Granular /\ EpochsInit => FlagInv
  <2> SUFFICES ASSUME NaturalSets, Granular, EpochsInit
               PROVE  FlagInv
    OBVIOUS
  <2>1. GranularInv
    BY InitGranular DEF EpochsInit
  <2>2. EpochsTypeOK
    BY EpochsInitInv DEF EpochsInv
  <2>3. PendingFlagged
    BY DEF EpochsInit, NonePending, PendingFlagged
  <2> QED
    BY <2>1, <2>2, <2>3 DEF FlagInv
<1>2. FlagInv /\ [EpochsNext]_allEpochVars => [EndCompleteStep]_allEpochVars
  <2> SUFFICES ASSUME FlagInv, [EpochsNext]_allEpochVars
               PROVE  EndCompleteStep
    OBVIOUS
  <2> SUFFICES ASSUME NEW x \in TxIds \cup Threads, epoch_end(x), epoch
               PROVE  /\ pending.dirty \cup pending.flushed \subseteq ended'
                      /\ ended' \subseteq DirtyBytes \cup FlushedBytes
                      /\ \A i \in LiveSlots' : array'[i].inEpoch => array'[i].is_delete
                      /\ \A e \in tree' : ~e.inEpoch
    BY DEF EndCompleteStep
  <2> QED
    BY EndTakesNoSlot, EndReports
<1> QED
  BY <1>1, <1>2, NextFlags, PTL DEF EpochsSpec, EndComplete
----------------------------------------------------------------------------
(* pmc_instrument: the calls added behind the statements give the tracker  *)
(* the bytes that the statements meant.  The inductive invariant says what *)
(* is still owed for the current statement.                                *)

Helper == {"trace_pmem_store", "trace_pmem_flush", "do_fence"}

CallType == [helper : Helper, at : [addr : Int, size : Int]]

\* A call of trace_pmem_store, for a region that the tracker knows if it is
\* persistent.
IsStoreCall(c) ==
  /\ c.helper = "trace_pmem_store"
  /\ Contains(Mapped, c.at) => c.at \in Stores

\* The bytes that the calls cs will store to.
Owed(cs) ==
  UNION {Bytes(cs[i].at) : i \in {j \in DOMAIN cs : Contains(Mapped, cs[j].at)}}

\* Only stores are owed: the bytes made dirty so far and those of the calls
\* still to be made are the bytes that the statements meant.
OwesStores ==
  /\ \A i \in DOMAIN calls : IsStoreCall(calls[i])
  /\ IF isa.automatic_isa_rec
     THEN /\ (DirtyBytes \cup Owed(calls)) \ blurred = meant.written \ blurred
          /\ FlushedBytes \ blurred = meant.written_back \ blurred
     ELSE /\ FlushedBytes = {}
          /\ (meant.written \cup meant.written_back) \ blurred
               \subseteq DirtyBytes \cup Owed(calls)

\* A write-back is owed, and perhaps the fence that a CLFLUSH also is.
OwesFlush ==
  /\ isa.automatic_isa_rec
  /\ \E a \in Nat :
       /\ FlushCall(a).at \in Flushes
       /\ meant.written \ blurred = (DirtyBytes \ Bytes(Line(a))) \ blurred
       /\ \/ /\ calls = <<FlushCall(a)>>
             /\ meant.written_back \ blurred
                  = (FlushedBytes \cup (DirtyBytes \cap Bytes(Line(a)))) \ blurred
          \/ calls = <<FlushCall(a), FenceCall>> /\ meant.written_back = {}

\* A fence is owed.
OwesFence ==
  /\ isa.automatic_isa_rec
  /\ calls = <<FenceCall>>
  /\ meant.written \ blurred = DirtyBytes \ blurred
  /\ meant.written_back = {}

InstrumentInv ==
  /\ GranularInv
  /\ calls \in Seq(CallType)
  /\ meant = [written |-> meant.written, written_back |-> meant.written_back]
  /\ OwesStores \/ OwesFlush \/ OwesFence
----------------------------------------------------------------------------
(* The words of a vector, and the line of a write-back.                    *)

\* Division with remainder by a positive number.
LEMMA Division ==
  ASSUME NEW d \in Nat, NEW w \in Nat \ {0}
  PROVE  \E q \in Nat : q * w <= d /\ d < q * w + w
<1> DEFINE q == d \div w
<1>1. q \in Nat /\ d = (w * q) + (d % w) /\ d % w \in 0 .. w - 1
  BY SMT
<1>2. ASSUME NEW p \in Nat, NEW m \in 0 .. w - 1, d = (w * p) + m
      PROVE  p * w <= d /\ d < p * w + w
  BY <1>2, SMT
<1> HIDE DEF q
<1>3. q * w <= d /\ d < q * w + w
  BY <1>1, <1>2
<1> QED
  BY <1>1, <1>3

\* More words are at least as many bytes.
LEMMA MoreWords ==
  ASSUME NEW x \in Nat, NEW y \in Nat, NEW w \in Nat, x <= y
  PROVE  x * w \in Nat /\ y * w \in Nat /\ x * w <= y * w
<1>1. PICK z \in Nat : y = x + z
  BY SMT
<1>2. x * w \in Nat /\ z * w \in Nat /\ y * w = x * w + z * w
  BY <1>1, SMT
<1> QED
  BY <1>2, SMT

\* add_event_dw: n words of w bytes one behind the other are the whole vector.
LEMMA WordsCover ==
  ASSUME NEW a \in Nat, NEW n \in Nat, NEW w \in Nat \ {0}
  PROVE  UNION {Bytes(Region(a + (i - 1) * w, w)) : i \in 1 .. n} = Bytes(Region(a, n * w))
<1>1. ASSUME NEW i \in 1 .. n
      PROVE  /\ (i - 1) * w \in Nat /\ n * w \in Nat
             /\ (i - 1) * w + w <= n * w
  <2>1. i \in Nat /\ i - 1 \in Nat /\ i <= n /\ i * w = (i - 1) * w + w
    BY SMT
  <2> QED
    BY <2>1, MoreWords, SMT
<1>2. ASSUME NEW i \in 1 .. n, NEW b \in Bytes(Region(a + (i - 1) * w, w))
      PROVE  b \in Bytes(Region(a, n * w))
  BY <1>1, SMT DEF Bytes, End, Region
<1>3. ASSUME NEW b \in Bytes(Region(a, n * w))
      PROVE  \E i \in 1 .. n : b \in Bytes(Region(a + (i - 1) * w, w))
  <2>1. n * w \in Nat /\ b \in Int /\ a <= b /\ b < a + n * w
    BY SMT DEF Bytes, End, Region
  <2>2. PICK q \in Nat : q * w <= b - a /\ b - a < q * w + w
    <3>1. b - a \in Nat
      BY <2>1, SMT
    <3> QED
      BY <3>1, Division
  <2>3. q < n
    <3>1. SUFFICES ASSUME n <= q PROVE FALSE
      BY SMT
    <3> QED
      BY <2>1, <2>2, <3>1, MoreWords, SMT
  <2>4. q + 1 \in 1 .. n /\ (q + 1) - 1 = q /\ q * w \in Nat
    BY <2>3, SMT
  <2>5. b \in Bytes(Region(a + q * w, w))
    BY <2>1, <2>2, <2>4, SMT DEF Bytes, End, Region
  <2> QED
    BY <2>4, <2>5
<1> QED
  BY <1>2, <1>3

\* flush_info of the range in the call behind a write-back is the line of its
\* address.
LEMMA LineOfFlush ==
  ASSUME NEW a \in Nat
  PROVE  flush_info(FlushCall(a).at) = Line(a)
<1> DEFINE L == flush_align_size
<1>1. force_flush_align /\ L \in Nat \ {0}
  BY InstrumentAssumption
<1>2. (L + L - 1) \div L = 1
  <2>1. ASSUME NEW l \in Nat \ {0} PROVE (l + l - 1) \div l = 1
    BY SMT
  <2> QED
    BY <1>1, <2>1
<1>3. 1 * L = L
  BY <1>1, SMT
<1> QED
  BY <1>1, <1>2, <1>3 DEF flush_info, FlushCall, Line, Region
----------------------------------------------------------------------------
(* The calls.                                                              *)

\* The calls behind a store are calls of trace_pmem_store for its words: they
\* store to its bytes only and, where the statement and its calls agree on what
\* it stores, to all of them.
LEMMA CallsOfStore ==
  ASSUME NEW st \in Statements, IsStore(st)
  PROVE  LET cs == StoreCalls(st)
         IN  /\ cs \in Seq(CallType)
             /\ \A i \in DOMAIN cs : IsStoreCall(cs[i])
             /\ Owed(cs) \subseteq Bytes(Target(st))
             /\ Exact(st) =>
                  Owed(cs) = IF st.stores /\ Contains(Mapped, Target(st))
                                THEN Bytes(Target(st)) ELSE {}
<1> DEFINE n == Parts[st.type]
           w == st.size \div n
           word(i) == Region(st.addr + (i - 1) * w, w)
           words == add_event_dw(st)
<1>1. /\ st.addr \in Nat /\ st.size \in Nat \ {0} /\ n \in Nat
      /\ n > 0 => st.size = n * w
      /\ st.stores \in BOOLEAN /\ (st.tag = "Store" => st.stores)
  BY InstrumentAssumption
<1>2. \A i \in 1 .. n : /\ Contains(Mapped, words[i].at) <=> Contains(Mapped, Target(st))
                        /\ Contains(Mapped, words[i].at) => words[i].at \in Stores
  BY InstrumentAssumption
<1>3. n > 0 => w \in Nat \ {0}
  <2>1. ASSUME NEW m \in Nat \ {0} PROVE st.size \div m \in Nat
    BY <1>1, SMT
  <2>2. ASSUME n > 0 PROVE w # 0
    <3>1. SUFFICES ASSUME w = 0 PROVE FALSE
      OBVIOUS
    <3>2. n * 0 = 0
      BY <1>1, SMT
    <3> QED
      BY <1>1, <2>2, <3>1, <3>2
  <2> QED
    BY <1>1, <2>1, <2>2
<1>4. words = [i \in 1 .. n |-> StoreCall(word(i))]
  BY DEF add_event_dw
<1>5. \A i \in 1 .. n : /\ words[i] \in CallType
                        /\ words[i].helper = "trace_pmem_store"
                        /\ words[i].at = word(i)
  <2> SUFFICES ASSUME NEW i \in 1 .. n
               PROVE  /\ StoreCall(word(i)) \in CallType
                      /\ StoreCall(word(i)).helper = "trace_pmem_store"
                      /\ StoreCall(word(i)).at = word(i)
    BY <1>4
  <2>1. w \in Int /\ st.addr + (i - 1) * w \in Int
    BY <1>1, <1>3, SMT
  <2> QED
    BY <2>1 DEF CallType, StoreCall, Helper, Region
<1>6. words \in Seq(CallType) /\ DOMAIN words = 1 .. n
  <2>1. ASSUME NEW S, NEW m \in Nat, NEW g, g = [i \in 1 .. m |-> g[i]], \A i \in 1 .. m : g[i] \in S
        PROVE  g \in Seq(S) /\ DOMAIN g = 1 .. m
    BY <2>1, SMT
  <2>2. words = [i \in 1 .. n |-> words[i]] /\ n \in Nat /\ \A i \in 1 .. n : words[i] \in CallType
    BY <1>1, <1>4, <1>5
  <2> HIDE DEF words, n
  <2> QED
    BY <2>1, <2>2
<1> HIDE DEF words, word, w, n
<1>7. \A i \in DOMAIN words : IsStoreCall(words[i])
  BY <1>2, <1>5, <1>6 DEF IsStoreCall
<1>8. Owed(words) = IF n > 0 /\ Contains(Mapped, Target(st)) THEN Bytes(Target(st)) ELSE {}
  <2>1. CASE n > 0 /\ Contains(Mapped, Target(st))
    <3>1. Owed(words) = UNION {Bytes(word(i)) : i \in 1 .. n}
      BY <1>2, <1>5, <1>6, <2>1 DEF Owed
    <3>2. UNION {Bytes(word(i)) : i \in 1 .. n} = Bytes(Region(st.addr, n * w))
      BY <1>1, <1>3, <2>1, WordsCover DEF word
    <3> QED
      BY <1>1, <2>1, <3>1, <3>2 DEF Target
  <2>2. CASE ~(n > 0 /\ Contains(Mapped, Target(st)))
    <3>1. \A i \in 1 .. n : ~Contains(Mapped, words[i].at)
      BY <1>1, <1>2, <2>2, SMT
    <3> QED
      BY <1>6, <2>2, <3>1 DEF Owed
  <2> QED
    BY <2>1, <2>2
<1>9. << >> \in Seq(CallType) /\ DOMAIN << >> = {} /\ Owed(<< >>) = {}
  <2>1. << >> \in Seq(CallType) /\ DOMAIN << >> = {}
    OBVIOUS
  <2> QED
    BY <2>1 DEF Owed
<1>10. StoreCalls(st) = words \/ StoreCalls(st) = << >>
  BY DEF StoreCalls, IsStore, words
<1>11. ASSUME Exact(st)
       PROVE  /\ n > 0
              /\ st.stores => StoreCalls(st) = words
              /\ ~st.stores => StoreCalls(st) = << >>
  BY <1>1, <1>11 DEF Exact, StoreCalls, IsStore, words, n
<1> QED
  BY <1>6, <1>7, <1>8, <1>9, <1>10, <1>11

\* What is owed for some calls is owed for the first and for the others.
LEMMA OwedTail ==
  ASSUME NEW cs \in Seq(CallType), cs # << >>
  PROVE  /\ 1 \in DOMAIN cs /\ Head(cs) = cs[1] /\ Tail(cs) \in Seq(CallType)
         /\ \A i \in DOMAIN Tail(cs) : \E j \in DOMAIN cs : Tail(cs)[i] = cs[j]
         /\ Owed(cs) = Owed(Tail(cs)) \cup
              (IF Contains(Mapped, cs[1].at) THEN Bytes(cs[1].at) ELSE {})
<1>1. 1 \in DOMAIN cs /\ Head(cs) = cs[1] /\ Tail(cs) \in Seq(CallType)
  BY SMT
<1>2. \A i \in DOMAIN Tail(cs) : i + 1 \in DOMAIN cs /\ Tail(cs)[i] = cs[i + 1]
  BY SMT
<1>3. \A j \in DOMAIN cs : j = 1 \/ (j - 1 \in DOMAIN Tail(cs) /\ Tail(cs)[j - 1] = cs[j])
  BY SMT
<1>4. ASSUME NEW b
      PROVE  /\ b \in Owed(cs) <=>
                  \E j \in DOMAIN cs : Contains(Mapped, cs[j].at) /\ b \in Bytes(cs[j].at)
             /\ b \in Owed(Tail(cs)) <=>
                  \E j \in DOMAIN Tail(cs) :
                    Contains(Mapped, Tail(cs)[j].at) /\ b \in Bytes(Tail(cs)[j].at)
  BY DEF Owed
<1>5. ASSUME NEW b
      PROVE  b \in Owed(cs) <=>
               b \in Owed(Tail(cs)) \/ (Contains(Mapped, cs[1].at) /\ b \in Bytes(cs[1].at))
  BY <1>1, <1>2, <1>3, <1>4
<1>6. \A i \in DOMAIN Tail(cs) : \E j \in DOMAIN cs : Tail(cs)[i] = cs[j]
  BY <1>2
<1> QED
  BY <1>1, <1>5, <1>6

\* A call of trace_pmem_store makes the bytes of the region dirty.
LEMMA StoreCallBytes ==
  ASSUME GranularInv, NEW r \in Stores, trace_pmem_store(r)
  PROVE  GranularInv' /\ DirtyBytes' = DirtyBytes \cup Bytes(r) /\ FlushedBytes' = FlushedBytes
<1>1. Bytewise!Store(r)
  BY StoreRefines
<1>2. Next
  BY DEF Next
<1> QED
  BY <1>1, <1>2, NextGranular, SameBytes DEF Bytewise!Store

\* A call of do_flush behind a write-back flushes the dirty bytes of the line.
LEMMA FlushCallBytes ==
  ASSUME GranularInv, NEW a \in Nat, FlushCall(a).at \in Flushes, do_flush(FlushCall(a).at)
  PROVE  /\ GranularInv'
         /\ DirtyBytes' = DirtyBytes \ Bytes(Line(a))
         /\ FlushedBytes' = FlushedBytes \cup (DirtyBytes \cap Bytes(Line(a)))
<1>1. Bytewise!Flush(Line(a))
  BY FlushRefines, LineOfFlush
<1>2. Next
  BY DEF Next
<1> QED
  BY <1>1, <1>2, NextGranular, SameBytes DEF Bytewise!Flush

\* A call of do_fence forgets the flushed bytes.
LEMMA FenceCallBytes ==
  ASSUME GranularInv, do_fence
  PROVE  GranularInv' /\ DirtyBytes' = DirtyBytes /\ FlushedBytes' = {}
<1>1. Bytewise!Fence
  BY FenceRefines
<1>2. Next
  BY DEF Next
<1> QED
  BY <1>1, <1>2, NextGranular DEF Bytewise!Fence

\* A step that leaves the tracker alone leaves its bytes alone.
LEMMA NoCallBytes ==
  ASSUME GranularInv, UNCHANGED vars
  PROVE  GranularInv' /\ DirtyBytes' = DirtyBytes /\ FlushedBytes' = FlushedBytes
<1>1. UNCHANGED <<array, snippets, tree, box>>
  BY DEF vars
<1> QED
  BY <1>1, SameEntries, NextGranular
----------------------------------------------------------------------------
(* One lemma per action.                                                   *)

\* Nothing is owed when all calls have been made.
LEMMA Settled ==
  ASSUME InstrumentInv, calls = << >>
  PROVE  TraceExact /\ OwesStores
<1>1. Owed(calls) = {}
  BY DEF Owed
<1>2. calls # <<FenceCall>> /\ \A a : calls # <<FlushCall(a)>> /\ calls # <<FlushCall(a), FenceCall>>
  BY SMT
<1>3. OwesStores
  BY <1>2 DEF InstrumentInv, OwesFlush, OwesFence
<1> QED
  BY <1>1, <1>3 DEF OwesStores, TraceExact

\* A store owes the calls for its words.
LEMMA ExecuteStoreKeeps ==
  ASSUME InstrumentInv, calls = << >>, NEW st \in Statements, ExecuteStore(st),
         UNCHANGED <<vars, isa>>
  PROVE  InstrumentInv'
<1> DEFINE T == Bytes(Target(st))
           stored == st.stores /\ Contains(Mapped, Target(st))
<1>1. GranularInv' /\ DirtyBytes' = DirtyBytes /\ FlushedBytes' = FlushedBytes /\ isa' = isa
  BY NoCallBytes DEF InstrumentInv
<1>2. /\ calls' \in Seq(CallType) /\ \A i \in DOMAIN calls' : IsStoreCall(calls'[i])
      /\ Owed(calls') \subseteq T
      /\ Exact(st) => Owed(calls') = IF stored THEN T ELSE {}
  BY CallsOfStore DEF ExecuteStore
<1>3. /\ meant' = [written |-> meant'.written, written_back |-> meant'.written_back]
      /\ meant'.written = IF stored THEN meant.written \cup T ELSE meant.written
      /\ meant'.written_back = meant.written_back
  BY DEF ExecuteStore, InstrumentInv
<1>4. blurred' = IF Exact(st) THEN blurred ELSE blurred \cup T
  BY DEF ExecuteStore
<1>5. TraceExact
  BY Settled
<1> HIDE DEF T, stored
<1>6. isa.automatic_isa_rec =>
        /\ (DirtyBytes \cup Owed(calls')) \ blurred' = meant'.written \ blurred'
        /\ FlushedBytes \ blurred' = meant'.written_back \ blurred'
  <2> HAVE isa.automatic_isa_rec
  <2>1. DirtyBytes \ blurred = meant.written \ blurred
        /\ FlushedBytes \ blurred = meant.written_back \ blurred
    BY <1>5 DEF TraceExact
  <2>2. CASE Exact(st)
    <3>1. blurred' = blurred /\ Owed(calls') = IF stored THEN T ELSE {}
      BY <1>2, <1>4, <2>2
    <3> QED
      BY <1>3, <2>1, <3>1
  <2>3. CASE ~Exact(st)
    <3>1. blurred' = blurred \cup T
      BY <1>4, <2>3
    <3> QED
      BY <1>2, <1>3, <2>1, <3>1
  <2> QED
    BY <2>2, <2>3
<1>7. ~isa.automatic_isa_rec =>
        /\ FlushedBytes = {}
        /\ (meant'.written \cup meant'.written_back) \ blurred' \subseteq DirtyBytes \cup Owed(calls')
  <2> HAVE ~isa.automatic_isa_rec
  <2>1. FlushedBytes = {} /\ (meant.written \cup meant.written_back) \ blurred \subseteq DirtyBytes
    BY <1>5 DEF TraceExact
  <2>2. CASE Exact(st)
    <3>1. blurred' = blurred /\ Owed(calls') = IF stored THEN T ELSE {}
      BY <1>2, <1>4, <2>2
    <3> QED
      BY <1>3, <2>1, <3>1
  <2>3. CASE ~Exact(st)
    <3>1. blurred' = blurred \cup T
      BY <1>4, <2>3
    <3> QED
      BY <1>3, <2>1, <3>1
  <2> QED
    BY <2>2, <2>3
<1>8. OwesStores'
  BY <1>1, <1>2, <1>6, <1>7 DEF OwesStores
<1> QED
  BY <1>1, <1>2, <1>3, <1>8 DEF InstrumentInv

\* A write-back owes a call of do_flush for its line, and a CLFLUSH one of
\* do_fence unless weak_clflush is set; without --isa-rec it owes nothing.
LEMMA ExecuteFlushKeeps ==
  ASSUME InstrumentInv, calls = << >>, NEW st \in Statements, ExecuteFlush(st),
         UNCHANGED <<vars, isa>>
  PROVE  InstrumentInv'
<1> DEFINE a == st.addr
           f == Bytes(Line(a))
           fence == st.kind = "Ifk_flush" /\ ~isa.weak_clflush
<1>1. GranularInv' /\ DirtyBytes' = DirtyBytes /\ FlushedBytes' = FlushedBytes /\ isa' = isa
  BY NoCallBytes DEF InstrumentInv
<1>2. a \in Nat /\ FlushCall(a).at \in Flushes
  BY InstrumentAssumption DEF ExecuteFlush
<1>3. /\ meant' = [written |-> meant'.written, written_back |-> meant'.written_back]
      /\ meant'.written = meant.written \ f
      /\ meant'.written_back =
           IF fence THEN {} ELSE meant.written_back \cup (meant.written \cap f)
  BY DEF ExecuteFlush, Fenced, WrittenBack, InstrumentInv
<1>4. blurred' = blurred
  BY DEF ExecuteFlush
<1>5. TraceExact
  BY Settled
<1>6. CASE isa.automatic_isa_rec
  <2>1. FlushCalls(st) = IF fence THEN <<FlushCall(a), FenceCall>> ELSE <<FlushCall(a)>>
    BY DEF FlushCalls
  <2>2. calls' = IF fence THEN <<FlushCall(a), FenceCall>> ELSE <<FlushCall(a)>>
    BY <1>6, <2>1 DEF ExecuteFlush
  <2>3. FlushCall(a) \in CallType /\ FenceCall \in CallType
    <3>1. a \in Int /\ flush_align_size \in Int /\ 0 \in Int
      BY <1>2, InstrumentAssumption, SMT
    <3> QED
      BY <3>1 DEF CallType, FlushCall, FenceCall, Helper, Region
  <2>4. calls' \in Seq(CallType)
    <3>1. ASSUME NEW S, NEW c \in S, NEW d \in S PROVE <<c>> \in Seq(S) /\ <<c, d>> \in Seq(S)
      BY SMT
    <3> HIDE DEF a, fence
    <3> QED
      BY <2>2, <2>3, <3>1
  <2>5. DirtyBytes \ blurred = meant.written \ blurred
        /\ FlushedBytes \ blurred = meant.written_back \ blurred
    BY <1>5, <1>6 DEF TraceExact
  <2> HIDE DEF a, f, fence
  <2>6. meant'.written \ blurred = (DirtyBytes \ f) \ blurred
    BY <1>3, <2>5
  <2>7. ~fence => meant'.written_back \ blurred = (FlushedBytes \cup (DirtyBytes \cap f)) \ blurred
    BY <1>3, <2>5
  <2>8. OwesFlush'
    BY <1>1, <1>2, <1>3, <1>4, <1>6, <2>2, <2>6, <2>7 DEF OwesFlush, f
  <2> QED
    BY <1>1, <1>3, <2>4, <2>8 DEF InstrumentInv
<1>7. CASE ~isa.automatic_isa_rec
  <2>1. calls' = << >>
    BY <1>7 DEF ExecuteFlush
  <2>2. FlushedBytes = {} /\ (meant.written \cup meant.written_back) \ blurred \subseteq DirtyBytes
    BY <1>5, <1>7 DEF TraceExact
  <2> HIDE DEF a, f, fence
  <2>3. (meant'.written \cup meant'.written_back) \ blurred \subseteq DirtyBytes
    BY <1>3, <2>2
  <2>4. calls' \in Seq(CallType) /\ DOMAIN calls' = {}
    BY <2>1
  <2>5. OwesStores'
    BY <1>1, <1>4, <1>7, <2>2, <2>3, <2>4 DEF OwesStores
  <2> QED
    BY <1>1, <1>3, <2>4, <2>5 DEF InstrumentInv
<1> QED
  BY <1>6, <1>7

\* A barrier owes a call of do_fence if it is a fence; without --isa-rec it
\* owes nothing.
LEMMA ExecuteBarrierKeeps ==
  ASSUME InstrumentInv, calls = << >>, NEW st \in Statements, ExecuteBarrier(st),
         UNCHANGED <<vars, isa>>
  PROVE  InstrumentInv'
<1> DEFINE fence == st.event \in {"Imbe_Fence", "Imbe_SFence"}
<1>1. GranularInv' /\ DirtyBytes' = DirtyBytes /\ FlushedBytes' = FlushedBytes /\ isa' = isa
  BY NoCallBytes DEF InstrumentInv
<1>2. /\ meant' = [written |-> meant'.written, written_back |-> meant'.written_back]
      /\ meant'.written = meant.written
      /\ meant'.written_back = IF fence THEN {} ELSE meant.written_back
  BY DEF ExecuteBarrier, Fenced, InstrumentInv
<1>3. blurred' = blurred
  BY DEF ExecuteBarrier
<1>4. TraceExact
  BY Settled
<1>5. calls' = IF isa.automatic_isa_rec /\ fence THEN <<FenceCall>> ELSE << >>
  BY DEF ExecuteBarrier, BarrierCalls
<1> HIDE DEF fence
<1>6. CASE isa.automatic_isa_rec /\ fence
  <2>1. calls' = <<FenceCall>> /\ meant'.written_back = {}
    BY <1>2, <1>5, <1>6
  <2>2. FenceCall \in CallType
    <3>1. 0 \in Int
      OBVIOUS
    <3> QED
      BY <3>1 DEF CallType, FenceCall, Helper, Region
  <2>3. calls' \in Seq(CallType)
    <3>1. ASSUME NEW S, NEW c \in S PROVE <<c>> \in Seq(S)
      BY SMT
    <3> QED
      BY <2>1, <2>2, <3>1
  <2>4. DirtyBytes \ blurred = meant.written \ blurred
    BY <1>4, <1>6 DEF TraceExact
  <2>5. OwesFence'
    BY <1>1, <1>2, <1>3, <1>6, <2>1, <2>4 DEF OwesFence
  <2> QED
    BY <1>1, <1>2, <2>3, <2>5 DEF InstrumentInv
<1>7. CASE ~(isa.automatic_isa_rec /\ fence)
  <2>1. calls' = << >>
    BY <1>5, <1>7
  <2>2. calls' \in Seq(CallType) /\ DOMAIN calls' = {}
    BY <2>1
  <2>3. Owed(calls') = {}
    BY <2>2 DEF Owed
  <2>4. isa.automatic_isa_rec =>
          /\ DirtyBytes \ blurred = meant'.written \ blurred
          /\ FlushedBytes \ blurred = meant'.written_back \ blurred
    BY <1>2, <1>4, <1>7 DEF TraceExact
  <2>5. ~isa.automatic_isa_rec =>
          /\ FlushedBytes = {}
          /\ (meant'.written \cup meant'.written_back) \ blurred \subseteq DirtyBytes
    BY <1>2, <1>4 DEF TraceExact
  <2>6. OwesStores'
    BY <1>1, <1>3, <2>2, <2>3, <2>4, <2>5 DEF OwesStores
  <2> QED
    BY <1>1, <1>2, <2>2, <2>6 DEF InstrumentInv
<1> QED
  BY <1>6, <1>7

\* A call pays what is owed for it.
LEMMA CallKeeps ==
  ASSUME InstrumentInv, Call
  PROVE  InstrumentInv'
<1>1. calls # << >> /\ calls \in Seq(CallType) /\ calls' = Tail(calls) /\ GranularInv
  BY DEF Call, InstrumentInv
<1>2. isa' = isa /\ meant' = meant /\ blurred' = blurred
  BY DEF Call
<1>3. /\ 1 \in DOMAIN calls /\ Head(calls) = calls[1] /\ calls' \in Seq(CallType)
      /\ \A i \in DOMAIN calls' : \E j \in DOMAIN calls : calls'[i] = calls[j]
      /\ Owed(calls) = Owed(calls') \cup
           (IF Contains(Mapped, calls[1].at) THEN Bytes(calls[1].at) ELSE {})
  BY <1>1, OwedTail
<1>4. meant' = [written |-> meant'.written, written_back |-> meant'.written_back]
  BY <1>2 DEF InstrumentInv
<1>5. /\ calls[1].helper = "trace_pmem_store" =>
           IF Contains(Mapped, calls[1].at) THEN trace_pmem_store(calls[1].at) ELSE UNCHANGED vars
      /\ calls[1].helper = "trace_pmem_flush" => do_flush(calls[1].at)
      /\ calls[1].helper = "do_fence" => do_fence
  BY <1>3 DEF Call
<1>6. CASE OwesStores
  <2>1. IsStoreCall(calls[1])
    BY <1>3, <1>6 DEF OwesStores
  <2>2. /\ GranularInv' /\ FlushedBytes' = FlushedBytes
        /\ DirtyBytes' = DirtyBytes \cup
             (IF Contains(Mapped, calls[1].at) THEN Bytes(calls[1].at) ELSE {})
    <3>1. CASE Contains(Mapped, calls[1].at)
      BY <1>1, <1>5, <2>1, <3>1, StoreCallBytes DEF IsStoreCall
    <3>2. CASE ~Contains(Mapped, calls[1].at)
      BY <1>1, <1>5, <2>1, <3>2, NoCallBytes DEF IsStoreCall
    <3> QED
      BY <3>1, <3>2
  <2>3. DirtyBytes' \cup Owed(calls') = DirtyBytes \cup Owed(calls)
    BY <1>3, <2>2
  <2>4. \A i \in DOMAIN calls' : IsStoreCall(calls'[i])
    BY <1>3, <1>6 DEF OwesStores
  <2>5. OwesStores'
    BY <1>2, <1>6, <2>2, <2>3, <2>4 DEF OwesStores
  <2> QED
    BY <1>3, <1>4, <2>2, <2>5 DEF InstrumentInv
<1>7. CASE OwesFlush
  <2>1. PICK a \in Nat :
          /\ FlushCall(a).at \in Flushes
          /\ meant.written \ blurred = (DirtyBytes \ Bytes(Line(a))) \ blurred
          /\ \/ /\ calls = <<FlushCall(a)>>
                /\ meant.written_back \ blurred
                     = (FlushedBytes \cup (DirtyBytes \cap Bytes(Line(a)))) \ blurred
             \/ calls = <<FlushCall(a), FenceCall>> /\ meant.written_back = {}
    BY <1>7 DEF OwesFlush
  <2>2. ASSUME NEW c, NEW d
        PROVE  /\ <<c>>[1] = c /\ <<c, d>>[1] = c
               /\ Tail(<<c>>) = << >> /\ Tail(<<c, d>>) = <<d>>
    BY SMT
  <2>3. calls[1] = FlushCall(a)
    BY <2>1, <2>2
  <2>4. do_flush(FlushCall(a).at)
    BY <1>5, <2>3 DEF FlushCall
  <2>5. /\ GranularInv'
        /\ DirtyBytes' = DirtyBytes \ Bytes(Line(a))
        /\ FlushedBytes' = FlushedBytes \cup (DirtyBytes \cap Bytes(Line(a)))
    BY <1>1, <2>1, <2>4, FlushCallBytes
  <2>6. isa.automatic_isa_rec
    BY <1>7 DEF OwesFlush
  <2>7. CASE calls = <<FlushCall(a)>> /\ meant.written_back \ blurred
               = (FlushedBytes \cup (DirtyBytes \cap Bytes(Line(a)))) \ blurred
    <3>1. calls' = << >>
      BY <1>1, <2>2, <2>7
    <3>2. DOMAIN calls' = {} /\ Owed(calls') = {}
      BY <3>1 DEF Owed
    <3>3. OwesStores'
      BY <1>2, <2>1, <2>5, <2>6, <2>7, <3>2 DEF OwesStores
    <3> QED
      BY <1>3, <1>4, <2>5, <3>3 DEF InstrumentInv
  <2>8. CASE calls = <<FlushCall(a), FenceCall>> /\ meant.written_back = {}
    <3>1. calls' = <<FenceCall>>
      BY <1>1, <2>2, <2>8
    <3>2. OwesFence'
      BY <1>2, <2>1, <2>5, <2>6, <2>8, <3>1 DEF OwesFence
    <3> QED
      BY <1>3, <1>4, <2>5, <3>2 DEF InstrumentInv
  <2> QED
    BY <2>1, <2>7, <2>8
<1>8. CASE OwesFence
  <2>1. calls[1] = FenceCall /\ calls' = << >>
    <3>1. ASSUME NEW c PROVE <<c>>[1] = c /\ Tail(<<c>>) = << >>
      BY SMT
    <3> QED
      BY <1>1, <1>8, <3>1 DEF OwesFence
  <2>2. do_fence
    BY <1>5, <2>1 DEF FenceCall
  <2>3. GranularInv' /\ DirtyBytes' = DirtyBytes /\ FlushedBytes' = {}
    BY <1>1, <2>2, FenceCallBytes
  <2>4. DOMAIN calls' = {} /\ Owed(calls') = {}
    BY <2>1 DEF Owed
  <2>5. OwesStores'
    BY <1>2, <1>8, <2>3, <2>4 DEF OwesStores, OwesFence
  <2> QED
    BY <1>3, <1>4, <2>3, <2>5 DEF InstrumentInv
<1> QED
  BY <1>6, <1>7, <1>8 DEF InstrumentInv
----------------------------------------------------------------------------
\* Nothing is owed in the beginning.
LEMMA InitInstrument == NaturalSets /\ Granular /\ InstrumentInit => InstrumentInv
<1> SUFFICES ASSUME NaturalSets, Granular, InstrumentInit PROVE InstrumentInv
  OBVIOUS
<1>1. GranularInv /\ Init
  BY InitGranular DEF InstrumentInit
<1>2. DirtyBytes = {} /\ FlushedBytes = {}
  BY <1>1, InitRefines DEF Bytewise!Init
<1>3. calls \in Seq(CallType) /\ DOMAIN calls = {} /\ Owed(calls) = {}
  BY DEF InstrumentInit, Owed
<1>4. meant = [written |-> {}, written_back |-> {}]
  BY DEF InstrumentInit
<1>5. meant.written = {} /\ meant.written_back = {}
  BY <1>4
<1>6. OwesStores
  BY <1>2, <1>3, <1>5 DEF OwesStores
<1> QED
  BY <1>1, <1>3, <1>4, <1>5, <1>6 DEF InstrumentInv

\* Every statement and every call keeps the account.
LEMMA NextInstrument == InstrumentInv /\ [InstrumentNext]_allInstrVars => InstrumentInv'
<1> SUFFICES ASSUME InstrumentInv, [InstrumentNext]_allInstrVars PROVE InstrumentInv'
  OBVIOUS
<1>1. CASE Call
  BY <1>1, CallKeeps
<1>2. ASSUME NEW st \in Statements, Execute(st) PROVE InstrumentInv'
  BY <1>2, ExecuteStoreKeeps, ExecuteFlushKeeps, ExecuteBarrierKeeps DEF Execute
<1>3. CASE UNCHANGED allInstrVars
  <2>1. UNCHANGED vars /\ isa' = isa /\ calls' = calls /\ meant' = meant /\ blurred' = blurred
    BY <1>3 DEF allInstrVars, instrVars
  <2>2. GranularInv' /\ DirtyBytes' = DirtyBytes /\ FlushedBytes' = FlushedBytes
    BY <2>1, NoCallBytes DEF InstrumentInv
  <2> QED
    BY <2>1, <2>2 DEF InstrumentInv, OwesStores, OwesFlush, OwesFence
<1> QED
  BY <1>1, <1>2, <1>3 DEF InstrumentNext

\* The calls that pmc_instrument adds give the tracker, once they are made, the
\* bytes that the statements meant.
LEMMA AlwaysTraceExactGiven == NaturalSets /\ Granular /\ InstrumentSpec => []TraceExact
<1>1. NaturalSets /\ Granular /\ InstrumentInit => InstrumentInv
  BY InitInstrument
<1>2. InstrumentInv /\ [InstrumentNext]_allInstrVars => InstrumentInv'
  BY NextInstrument
<1>3. InstrumentInv => TraceExact
  BY Settled DEF TraceExact
<1> QED
  BY <1>1, <1>2, <1>3, PTL DEF InstrumentSpec
=============================================================================
