------------------------------- MODULE Orders -------------------------------
(***************************************************************************)
(* Order guarantees and strands (--order-guarantee,                        *)
(* --lack-ordering-in-strand): the requests ORDER_GUARANTEE and            *)
(* NEW_STRAND, the time records kept by trace_pmem_store and do_fence, the *)
(* check of do_flush across strands and check_pmem_order, which runs when  *)
(* the program ends, on top of store tracking.                             *)
(*                                                                         *)
(* ORDER_GUARANTEE names two regions, a to be persistent before b is       *)
(* written.  Each has a time record: when it was last stored to, and the   *)
(* last fence taken to have made it persistent.  Time counts fences.  A    *)
(* new strand gets an empty array and tree; the old ones are left aside    *)
(* for good.  Time and order records are shared by all strands.  The       *)
(* statistics, which look at neither, are left to StoreTracker.            *)
(***************************************************************************)
EXTENDS StoreTracker

CONSTANTS
  OrderPairs,           \* pairs <<a, b>> of regions that are asked for
  MaxOrders,            \* bound of the model on the requests
  MaxTime,              \* bound of the model on global_time_stamp
  MaxStrands,           \* bound of the model on strand_id
  lack_ordering_trand   \* --lack-ordering-in-strand

ASSUME OrdersAssumption ==
  /\ MaxOrders \in Nat /\ MaxTime \in Nat /\ MaxStrands \in Nat
  /\ lack_ordering_trand \in BOOLEAN
  /\ \A p \in OrderPairs : \A i \in 1 .. 2 : p[i].addr \in Nat /\ p[i].size \in Nat \ {0}

VARIABLES
  orders,             \* pmem_order_records with their time records, in order
  global_time_stamp,
  strand_id,          \* of the current strand
  lacking,            \* events across strands that the last flush registered
  lost,               \* history: bytes not persistent in strands left aside
  story               \* history: for each order, what became of its region a

orderVars == <<orders, global_time_stamp, strand_id, lacking, lost, story>>

allOrderVars == <<vars, orderVars>>

\* The UWord -1: later than any fence.
Never == MaxTime + 1

\* A node of pmem_time_records is zeroed when it is allocated.
NewRecord(r) ==
  [addr |-> r.addr, size |-> r.size, timestamp_begin |-> 0, timestamp_end |-> 0]

OrdersInit ==
  /\ Init
  /\ orders = << >> /\ story = << >>
  /\ global_time_stamp = 0
  /\ strand_id = 0
  /\ lacking = 0
  /\ lost = {}
----------------------------------------------------------------------------
(* History.  stored: a was stored to since the request.  safe: when b was  *)
(* last stored to, a had been and was persistent, and it was not stored to *)
(* again.  blurred: since a was last stored to the records of the tool can *)
(* differ from that, because a was stored to while an older store to it    *)
(* was not persistent, was set clean, or was near flushed stores.          *)

NewStory == [stored |-> FALSE, safe |-> FALSE, blurred |-> FALSE]

Pending == DirtyBytes \cup FlushedBytes \cup lost

StoryOfStore(r) ==
  [k \in DOMAIN story |->
     LET a == orders[k].a
         b == orders[k].b
     IN  IF Overlap(r, a)
         THEN [stored |-> TRUE, safe |-> FALSE, blurred |-> Pending \cap Bytes(a) # {}]
         ELSE IF Overlap(r, b)
         THEN [story[k] EXCEPT !.safe = story[k].stored /\ Pending \cap Bytes(a) = {}]
         ELSE story[k]]

\* The orders S are blurred.
Blur(S) == [k \in DOMAIN story |-> IF k \in S THEN [story[k] EXCEPT !.blurred = TRUE] ELSE story[k]]
----------------------------------------------------------------------------
\* Mutant of Begun: the time of the next fence is taken.
BegunLate(rec, r) ==
  IF Overlap(r, rec)
  THEN [rec EXCEPT !.timestamp_begin = global_time_stamp + 1, !.timestamp_end = Never]
  ELSE rec

\* trace_pmem_store begins the time of every record that the store overlaps.
Begun(rec, r) ==
  IF Overlap(r, rec)
  THEN [rec EXCEPT !.timestamp_begin = global_time_stamp, !.timestamp_end = Never]
  ELSE rec

OrderStore(r) ==
  /\ trace_pmem_store(r)
  /\ orders' = [k \in DOMAIN orders |->
                  [a |-> Begun(orders[k].a, r), b |-> Begun(orders[k].b, r)]]
  /\ story' = StoryOfStore(r)
  /\ lacking' = 0
  /\ UNCHANGED <<global_time_stamp, strand_id, lost>>

\* do_flush, in any strand but the first.
OrderFlush(q) ==
  /\ do_flush(q)
  /\ lacking' = IF lack_ordering_trand /\ strand_id > 0
                THEN Cardinality({k \in DOMAIN orders : Overlap(flush_info(q), orders[k].b)})
                ELSE 0
  /\ UNCHANGED <<orders, global_time_stamp, strand_id, lost, story>>

\* Mutant of TakenAsPersistent: snippets flushed in part are not searched.
TakenAsPersistentWhole(rec) ==
  \/ \E k \in 1 .. Last :
       snippets[k].flushed_num = "ALL_FLUSHED" /\ Touches(snippets[k], rec)
  \/ \E e \in tree : Overlap(e, rec) /\ e.state = "FLUSHED"

\* do_fence takes a record for persistent by the bounding box of a snippet
\* flushed as a whole, by a flushed slot of a snippet flushed in part (ends
\* compared inclusively) and by a flushed node of the tree.
TakenAsPersistent(rec) ==
  \/ \E k \in 1 .. Last :
       LET s == snippets[k]
       IN  /\ Touches(s, rec)
           /\ \/ s.flushed_num = "ALL_FLUSHED"
              \/ /\ s.flushed_num = "PART_FLUSHED"
                 /\ \E i \in Slots(s) : /\ array[i].state = "FLUSHED"
                                        /\ rec.addr <= End(array[i])
                                        /\ End(rec) >= array[i].addr
  \/ \E e \in tree : Overlap(e, rec) /\ e.state = "FLUSHED"

Ended(rec) ==
  IF TakenAsPersistent(rec) THEN [rec EXCEPT !.timestamp_end = global_time_stamp] ELSE rec

\* Mutant of OrderFence: time does not pass.
OrderFenceTimeless ==
  /\ do_fence
  /\ orders' = [k \in DOMAIN orders |-> [a |-> Ended(orders[k].a), b |-> Ended(orders[k].b)]]
  /\ story' = Blur({k \in DOMAIN orders : /\ TakenAsPersistent(orders[k].a)
                                          /\ FlushedBytes \cap Bytes(orders[k].a) = {}})
  /\ lacking' = 0
  /\ UNCHANGED <<strand_id, lost, global_time_stamp>>

OrderFence ==
  /\ do_fence
  /\ orders' = [k \in DOMAIN orders |-> [a |-> Ended(orders[k].a), b |-> Ended(orders[k].b)]]
  /\ global_time_stamp' = global_time_stamp + 1
  /\ global_time_stamp' <= MaxTime
  /\ story' = Blur({k \in DOMAIN orders : /\ TakenAsPersistent(orders[k].a)
                                          /\ FlushedBytes \cap Bytes(orders[k].a) = {}})
  /\ lacking' = 0
  /\ UNCHANGED <<strand_id, lost>>

OrderClean(r) ==
  /\ SET_CLEAN(r)
  /\ story' = Blur({k \in DOMAIN orders : Pending \cap Bytes(orders[k].a) \cap Bytes(r) # {}})
  /\ lacking' = 0
  /\ UNCHANGED <<orders, global_time_stamp, strand_id, lost>>

----------------------------------------------------------------------------
ORDER_GUARANTEE(a, b) ==
  /\ Len(orders) < MaxOrders
  /\ orders' = Append(orders, [a |-> NewRecord(a), b |-> NewRecord(b)])
  /\ story' = Append(story, NewStory)
  /\ out' = Quiet /\ lacking' = 0
  /\ UNCHANGED <<array, snippets, tree, box, epoch, global_time_stamp, strand_id, lost>>

\* Mutants of NEW_STRAND: the id is incremented too late; the tree is shared
\* but its box begins anew.
NEW_STRANDSameId ==
  /\ array' = [i \in DOMAIN array |-> ZeroStore]
  /\ snippets' = <<init_snippet_info(0)>>
  /\ tree' = {}
  /\ epoch' = FALSE
  /\ lost' = Pending
  /\ out' = Quiet /\ lacking' = 0
  /\ UNCHANGED <<box, orders, global_time_stamp, story, strand_id>>

NEW_STRANDSharedTree ==
  /\ strand_id < MaxStrands
  /\ strand_id' = strand_id + 1
  /\ array' = [i \in DOMAIN array |-> ZeroStore]
  /\ snippets' = <<init_snippet_info(0)>>
  /\ box' = EmptyBox
  /\ epoch' = FALSE
  /\ lost' = Pending
  /\ out' = Quiet /\ lacking' = 0
  /\ UNCHANGED <<tree, orders, global_time_stamp, story>>

\* The new tree inherits the bounding box of the old one.
NEW_STRAND ==
  /\ strand_id < MaxStrands
  /\ strand_id' = strand_id + 1
  /\ array' = [i \in DOMAIN array |-> ZeroStore]
  /\ snippets' = <<init_snippet_info(0)>>
  /\ tree' = {}
  /\ epoch' = FALSE
  /\ lost' = Pending
  /\ out' = Quiet /\ lacking' = 0
  /\ UNCHANGED <<box, orders, global_time_stamp, story>>

\* check_pmem_order: the orders reported if the program ends now.
check_pmem_order ==
  {k \in DOMAIN orders : ~(orders[k].a.timestamp_end < orders[k].b.timestamp_begin)}

OrdersNext ==
  \/ \E r \in Stores : OrderStore(r)
  \/ \E q \in Flushes : OrderFlush(q)
  \/ OrderFence
  \/ \E r \in Cleans : OrderClean(r)
  \/ \E p \in OrderPairs : ORDER_GUARANTEE(p[1], p[2])
  \/ NEW_STRAND

OrdersSpec == OrdersInit /\ [][OrdersNext]_allOrderVars
----------------------------------------------------------------------------
(* Properties.                                                             *)

TimeRecord ==
  [addr : Nat, size : Nat, timestamp_begin : 0 .. MaxTime, timestamp_end : 0 .. Never]

\* Type invariant of order and time records.
OrdersTypeOK ==
  /\ orders \in Seq([a : TimeRecord, b : TimeRecord]) /\ Len(orders) <= MaxOrders
  /\ story \in Seq([stored : BOOLEAN, safe : BOOLEAN, blurred : BOOLEAN])
  /\ Len(story) = Len(orders)
  /\ global_time_stamp \in 0 .. MaxTime
  /\ strand_id \in 0 .. MaxStrands
  /\ lacking \in 0 .. MaxOrders
  /\ lost \subseteq 0 .. NoAddr

\* check_pmem_order compares two time stamps at the end of the program; unless
\* the records were blurred it reports exactly the orders of which b was last
\* written before a, once stored to, was persistent, over whatever stores,
\* flushes, fences and strands came in between.  It holds for ranges that are
\* Granular.
OrderExact ==
  \A k \in DOMAIN orders :
    story[k].stored /\ ~story[k].blurred => (k \in check_pmem_order <=> ~story[k].safe)

\* However records are blurred, a fence that makes a byte of a region
\* persistent ends the time of that region: it errs only by seeing too much.
FenceEndsRecords ==
  [][OrderFence =>
       \A k \in DOMAIN orders :
         /\ FlushedBytes \cap Bytes(orders[k].a) # {} =>
              orders'[k].a.timestamp_end = global_time_stamp
         /\ FlushedBytes \cap Bytes(orders[k].b) # {} =>
              orders'[k].b.timestamp_end = global_time_stamp]_allOrderVars

\* The bounding boxes cover the stores of the current strand, though a new
\* strand begins with the box of the old one: the pre-filters of do_flush and
\* SET_CLEAN can be trusted in it.
StrandCovered == Covered

\* The step that CrossStrandReported allows.
CrossStrandStep ==
  \A q \in Flushes :
    lack_ordering_trand /\ lost # {} /\ OrderFlush(q) =>
      Cardinality({k \in DOMAIN orders :
                     /\ DirtyBytes \cap Bytes(flush_info(q)) \cap Bytes(orders[k].b) # {}
                     /\ lost \cap Bytes(orders[k].a) # {}}) <= lacking'

\* README.md, lack_ordering_in_strand: "persisting memory locations across
\* strands can violate the order guarantee".  A flush of dirty bytes of b,
\* while bytes of a stored in an earlier strand are not persistent, is
\* registered, for every order concerned.
CrossStrandReported == [][CrossStrandStep]_allOrderVars
----------------------------------------------------------------------------
(* What the list of bug types says and the code does not keep.             *)

\* README.md, no_order_guarantee: "the program cannot guarantee the order in
\* which writes become persistent".  An order that is not reported was kept.
OrderSound ==
  \A k \in DOMAIN orders : story[k].stored /\ k \notin check_pmem_order => story[k].safe
============================================================================
