---------------------------- MODULE StoreOptions ----------------------------
(***************************************************************************)
(* Store tracking under --mult-stores, --tree-reorganization and           *)
(* --print-debug-detail: handle_with_mult_stores, split_stores,            *)
(* add_and_merge_store, print_store_stats_detail and what they change in   *)
(* trace_pmem_store, do_flush, do_fence and SET_CLEAN.                     *)
(*                                                                         *)
(* With --mult-stores a new store trims the older ones that it overlaps    *)
(* and registers an event for each.  A reorganised tree is ordered by      *)
(* address: it holds disjoint stores, merged with adjacent ones of the     *)
(* same state and context.  The detailed listing is built the same way.    *)
(* --flush-check is off, and --indiff 0, their defaults.                   *)
(***************************************************************************)
EXTENDS StoreTracker

CONSTANTS
  OptionSets,           \* sets of options the tool is started with
  Contexts,             \* calling contexts of stores
  MAX_MULT_OVERWRITES,
  MaxListings           \* detailed listings, each of which changes the stores

ASSUME StoreOptionsAssumption ==
  ~check_flush /\ Contexts \subseteq Nat \ {0} /\ MAX_MULT_OVERWRITES \in Nat /\ MaxListings \in Nat

VARIABLES
  options,
  multiple_stores_reg,  \* overwrite events registered
  overwrites,           \* those of the last operation: how many, which bytes
  exited,               \* the tool has stopped the program, the register being full
  listings              \* number of detailed listings so far

optionVars == <<options, multiple_stores_reg, overwrites, exited, listings>>

allVars == <<vars, optionVars>>

NoEvents == [number |-> 0, bytes |-> {}]

OptionsInit ==
  /\ Init
  /\ options \in OptionSets
  /\ multiple_stores_reg = 0 /\ overwrites = NoEvents
  /\ exited = FALSE
  /\ listings = 0

track_multiple_stores == "mult-stores" \in options

tree_reorganization == "tree-reorganization" \in options

print_bug_detail == "print-debug-detail" \in options
----------------------------------------------------------------------------
NULL == 0

\* The calling context of a store, which a zeroed node does not have.
Context(e) == IF "context" \in DOMAIN e THEN e.context ELSE NULL

WithContext(e, c) ==
  IF tree_reorganization \/ print_bug_detail
  THEN [k \in DOMAIN e \cup {"context"} |-> IF k = "context" THEN c ELSE e[k]] ELSE e

is_store_mergeable(e, f) ==
  e.state = f.state /\ Context(e) # NULL /\ Context(e) = Context(f)

\* split_stores, in a tree: what is left of store e beside a new one.
SplitOff(e, new) ==
  IF ~Overlap(e, new) THEN {e}
  ELSE (IF e.addr < new.addr THEN {LeftPart(e, new)} ELSE {})
       \cup (IF End(e) > End(new) THEN {RightPart(e, new)} ELSE {})

\* add_and_merge_store and db_add_and_merge_store: the new store as it is after
\* the merge with its neighbours in S, and S with it.
Neighbours(new, S) ==
  {e \in UNION {SplitOff(old, new) : old \in S} :
     (End(e) = new.addr \/ e.addr = End(new)) /\ is_store_mergeable(new, e)}

\* Mutant of Merged: the size grows on a merge to the left, the address stays.
MergedInPlace(new, S) ==
  LET all == {new} \cup Neighbours(new, S)
  IN  [new EXCEPT !.size = Max({End(e) : e \in all}) - Min({e.addr : e \in all})]

Merged(new, S) ==
  LET all == {new} \cup Neighbours(new, S)
      lo  == Min({e.addr : e \in all})
  IN  [new EXCEPT !.addr = lo, !.size = Max({End(e) : e \in all}) - lo]

add_and_merge_store(new, S) ==
  ((UNION {SplitOff(old, new) : old \in S}) \ Neighbours(new, S)) \cup {Merged(new, S)}

\* Mutant of Insert: a reorganised tree takes stores like the other one.
InsertAlways(new, S) == S \cup {new}

Insert(new, S) == IF tree_reorganization THEN add_and_merge_store(new, S) ELSE S \cup {new}

\* The stores of a sequence inserted one after the other.
InsertAll(news, S) ==
  LET after[n \in 0 .. Len(news)] == IF n = 0 THEN S ELSE Insert(news[n], after[n - 1])
  IN  after[Len(news)]

\* The elements of a set of naturals in ascending order, mapped by f.
InOrder(P, f) ==
  [n \in 1 .. Cardinality(P) |->
     f[CHOOSE p \in P : Cardinality({q \in P : q <= p}) = n]]
----------------------------------------------------------------------------
\* handle_with_mult_stores.  The stores that a new one overlaps, in the array
\* and in the tree, each behind the pre-filter of a box.
Hit(new) ==
  {i \in LiveSlots : /\ \E k \in 1 .. Last : Touches(snippets[k], new) /\ i \in Slots(snippets[k])
                     /\ ~array[i].is_delete
                     /\ Overlap(array[i], new)}

HitNodes(new) == IF Touches(box, new) THEN {e \in tree : Overlap(e, new)} ELSE {}

\* The overlapping part that is passed to the callback.  A node that is
\* removed from the tree is freed first: the event is allocated in its place,
\* zeroed.
OverlapPart(e, new) == Bytes(e) \cap Bytes(new)

Overwrites(new) ==
  [number |-> Cardinality(Hit(new)) + Cardinality(HitNodes(new)),
   bytes  |-> UNION ({OverlapPart(array[i], new) : i \in Hit(new)}
                     \cup {OverlapPart(e, new) : e \in {n \in HitNodes(new) : ~Within(n, new)}})]

\* Mutant of Trimmed: a store that the new one covers is not deleted.
TrimmedKeeps(e, new) ==
  IF e.addr < new.addr THEN LeftPart(e, new)
  ELSE IF End(e) > End(new) THEN RightPart(e, new)
  ELSE e

\* split_stores, in the array.  A right part beside a left one goes to the
\* tree, with the state of the slot, and does not widen the box.
Trimmed(e, new) ==
  IF e.addr < new.addr THEN LeftPart(e, new)
  ELSE IF End(e) > End(new) THEN RightPart(e, new)
  ELSE [e EXCEPT !.is_delete = TRUE]

After(new) ==
  {RightPart(array[i], new) :
     i \in {j \in Hit(new) : array[j].addr < new.addr /\ End(array[j]) > End(new)}}

Overwritten(r) ==
  IF ~track_multiple_stores
  THEN [array |-> array, tree |-> tree, events |-> NoEvents]
  ELSE [array  |-> [i \in DOMAIN array |->
                      IF i \in Hit(r) THEN Trimmed(array[i], r) ELSE array[i]],
        tree   |-> (tree \ HitNodes(r)) \cup After(r)
                   \cup UNION {SplitOff(e, r) : e \in HitNodes(r)},
        events |-> Overwrites(r)]
----------------------------------------------------------------------------
\* trace_pmem_store.
OptStoreToArray(r, c) ==
  LET i == Current.index
      old == Overwritten(r)
  IN  /\ i < MAX_ARRAY_NUM
      /\ UNCHANGED box
      /\ snippets' = [snippets EXCEPT ![Last] = Widen([Current EXCEPT !.index = i + 1], r)]
      /\ array' = [old.array EXCEPT ![i] = WithContext(NewStore(r, array[i]), c)]
      /\ tree' = old.tree

OptStoreToTree(r, c) ==
  LET old == Overwritten(r)
      new == WithContext(NewStore(r, ZeroStore), c)
  IN  /\ Current.index >= MAX_ARRAY_NUM
      /\ UNCHANGED snippets
      /\ array' = old.array
      /\ tree' = Insert(new, old.tree)
      /\ box' = Widen(box, IF tree_reorganization THEN Merged(new, old.tree) ELSE new)

\* Mutant of EventsFit: the limit is tested once for all events of the store.
EventsFitOnce(events) == events.number = 0 \/ multiple_stores_reg < MAX_MULT_OVERWRITES

\* The register has room for all events.  If not, they fill it one by one, and
\* at the first that does not fit the tool prints it and exits, the trimming of
\* older stores not being finished; nothing looks at those any more.
EventsFit(events) == multiple_stores_reg + events.number <= MAX_MULT_OVERWRITES

OptStore(r, c) ==
  LET events == Overwritten(r).events
  IN  /\ IF EventsFit(events)
         THEN /\ OptStoreToArray(r, c) \/ OptStoreToTree(r, c)
              /\ multiple_stores_reg' = multiple_stores_reg + events.number
              /\ overwrites' = events
              /\ UNCHANGED exited
         ELSE /\ exited' = TRUE
              /\ multiple_stores_reg' = MAX_MULT_OVERWRITES
              /\ overwrites' = NoEvents
              /\ UNCHANGED <<array, snippets, tree, box>>
      /\ out' = Quiet
      /\ UNCHANGED <<epoch, options, listings>>

Quietly ==
  overwrites' = NoEvents /\ UNCHANGED <<options, multiple_stores_reg, exited, listings>>

\* do_flush.  The right remainder of a node is a new one with only address,
\* size and state filled in.
OptFlushNode(e, f) ==
  IF e.state = "DIRTY" /\ Overlap(f, e)
  THEN {FlushedPart(e, f)}
       \cup (IF e.addr < f.addr THEN {LeftPart(e, f)} ELSE {})
       \cup (IF End(e) > End(f)
             THEN {[ZeroStore EXCEPT !.addr = End(f), !.size = End(e) - End(f), !.state = "DIRTY"]}
             ELSE {})
  ELSE {e}

OptFlush(q) ==
  LET f == flush_info(q)
      P == Remainders(f)
      beyond == {p \in P : SlotOf(P, p) >= MAX_ARRAY_NUM}
      full == InsertAll(InOrder(beyond, [p \in beyond |-> Remainder(p, f)]), tree)
  IN  /\ UNCHANGED <<box, epoch>>
      /\ snippets' = FlushSnippets(f)
      /\ array' = FlushArray(f)
      /\ tree' = IF Touches(box, f) THEN UNION {OptFlushNode(e, f) : e \in full} ELSE full
      /\ out' = Quiet
      /\ Quietly

\* do_fence.
OptFence ==
  LET slots == {j \in LiveSlots : /\ ~AllFlushed(j)
                                  /\ array[j].state # "FLUSHED"
                                  /\ ~array[j].is_delete}
  IN  /\ snippets' = <<init_snippet_info(0)>>
      /\ tree' = InsertAll(InOrder(slots, array), {e \in tree : e.state # "FLUSHED"})
      /\ box' = BoxOf(tree' \cup {e \in tree : e.state # "FLUSHED"} \cup {array[j] : j \in slots})
      /\ out' = Quiet
      /\ Quietly
      /\ UNCHANGED <<array, epoch>>

\* SET_CLEAN.
OptClean(r) ==
  LET P == Pierced(r)
      beyond == {p \in P : SlotOf(P, p) >= MAX_ARRAY_NUM}
      full == InsertAll(InOrder(beyond, [p \in beyond |-> BeyondIn(ZeroStore, array[p], r)]), tree)
  IN  /\ array' = [i \in DOMAIN array |->
                     IF i \in CleanSlots(r) THEN Cut(array[i], r)
                     ELSE IF \E p \in P : SlotOf(P, p) = i
                     THEN BeyondIn(array[i], array[CHOOSE p \in P : SlotOf(P, p) = i], r)
                     ELSE array[i]]
      /\ snippets' = [snippets EXCEPT ![Last].index = IndexAfter(P)]
      /\ tree' = UNION {CleanNode(e, r) : e \in full}
      /\ out' = Quiet
      /\ Quietly
      /\ UNCHANGED <<box, epoch>>
----------------------------------------------------------------------------
\* print_store_stats_detail merges the stores of the array and of the tree, in
\* this order, into the set debug_memory_merge, which it then prints.  What a
\* store is merged with is added to the tracked store itself.
Listed(stores) ==
  LET step[n \in 0 .. Len(stores)] ==
        IF n = 0 THEN [debug_memory_merge |-> {}, stores |-> << >>]
        ELSE LET done == step[n - 1]
             IN  [debug_memory_merge |-> add_and_merge_store(stores[n], done.debug_memory_merge),
                  stores |-> Append(done.stores, Merged(stores[n], done.debug_memory_merge))]
  IN  step[Len(stores)]

\* The nodes of the tree in some order: that of their creation is not known
\* here, that of a reorganised tree is by address.
Orders(S) ==
  {s \in [1 .. Cardinality(S) -> S] :
     \A i, j \in DOMAIN s :
       i < j => s[i] # s[j] /\ (tree_reorganization => s[i].addr <= s[j].addr)}

print_store_stats_detail ==
  LET marked == [i \in DOMAIN array |->
                   IF AllFlushed(i) /\ ~array[i].is_delete
                   THEN [array[i] EXCEPT !.state = "FLUSHED"] ELSE array[i]]
      slots == {i \in LiveSlots : ~array[i].is_delete}
      n == Cardinality(slots)
  IN  \E nodes \in Orders(tree) :
        LET list == Listed(InOrder(slots, marked) \o nodes)
        IN  /\ array' = [i \in DOMAIN array |->
                           IF i \in slots
                           THEN list.stores[Cardinality({j \in slots : j <= i})] ELSE array[i]]
            /\ tree' = {list.stores[n + m] : m \in DOMAIN nodes}
            /\ out' = [Quiet EXCEPT !.reported = BytesOf(list.debug_memory_merge)]
            /\ UNCHANGED <<snippets, box, epoch>>

print_pmem_stats ==
  /\ \/ ~print_bug_detail /\ print_store_stats /\ UNCHANGED listings
     \/ /\ print_bug_detail /\ listings < MaxListings
        /\ print_store_stats_detail
        /\ listings' = listings + 1
  /\ overwrites' = NoEvents
  /\ UNCHANGED <<options, multiple_stores_reg, exited>>
----------------------------------------------------------------------------
OptionsNext ==
  /\ ~exited
  /\ \/ \E r \in Stores, c \in Contexts : OptStore(r, c)
     \/ \E q \in Flushes : OptFlush(q)
     \/ OptFence
     \/ \E r \in Cleans : OptClean(r)
     \/ print_pmem_stats

OptionsSpec == OptionsInit /\ [][OptionsNext]_allVars
----------------------------------------------------------------------------
(* Properties.                                                             *)

InTree == MAX_ARRAY_NUM

\* The tracked stores, each with its place: a slot of the array, or the tree.
Tracked ==
  {<<i, array[i]>> : i \in {j \in LiveSlots : ~array[j].is_delete}}
  \cup {<<InTree, e>> : e \in tree}

\* No store falls strictly inside another (whose right part goes to the tree
\* without widening its box).
NoneInside == \A r, s \in Stores : ~(s.addr < r.addr /\ End(r) < End(s))

\* Type invariant of the state of the options.
OptionsTypeOK ==
  /\ options \in OptionSets
  /\ multiple_stores_reg \in 0 .. MAX_MULT_OVERWRITES
  /\ overwrites \in [number : Nat, bytes : SUBSET (0 .. NoAddr)]
  /\ exited \in BOOLEAN
  /\ listings \in 0 .. MaxListings

\* With --mult-stores every byte belongs to one tracked store, the last one
\* that wrote it, wherever flushes, fences and overflows have put the older
\* ones.  A reorganised tree is a set of disjoint stores, without which
\* OSetGen_Insert would find duplicates and stop the tool.  It holds when
\* ranges to flush and clean are Granular and stores are NoneInside another.
OneStorePerByte ==
  \A s, t \in Tracked :
    /\ s # t /\ listings = 0
    /\ \/ track_multiple_stores
       \/ tree_reorganization /\ s[1] = InTree /\ t[1] = InTree
    => ~Overlap(s[2], t[2])

\* The events of a store: one for each tracked store it overwrites, in part or
\* entirely, and the overwritten bytes but for those of nodes that were freed.
EventsExact(r) ==
  LET over == {s \in Tracked : Overlap(s[2], r)}
      kept == {s \in over : s[1] = InTree => ~Within(s[2], r)}
  IN  overwrites' = [number |-> Cardinality(over),
                     bytes  |-> Bytes(r) \cap BytesOf({s[2] : s \in kept})]

\* The step that OptionsExact allows.
OptionsExactStep ==
  LET stored(r) ==
        /\ DirtyBytes' = DirtyBytes \cup Bytes(r)
        /\ FlushedBytes \ Bytes(r) \subseteq FlushedBytes' /\ FlushedBytes' \subseteq FlushedBytes
        /\ track_multiple_stores => FlushedBytes' = FlushedBytes \ Bytes(r) /\ EventsExact(r)
      flushed(f) ==
        /\ DirtyBytes' = DirtyBytes \ Bytes(f)
        /\ FlushedBytes \cup (DirtyBytes \cap Bytes(f)) \subseteq FlushedBytes'
        /\ FlushedBytes' \subseteq
             FlushedBytes \cup ((DirtyBytes \cup StatelessBytes) \cap Bytes(f))
  IN  /\ \A r \in Stores, c \in Contexts : Covered /\ OptStore(r, c) /\ ~exited' => stored(r)
      /\ \A q \in Flushes :
           Covered /\ SplitsCurrentOnly(flush_info(q)) /\ OptFlush(q) => flushed(flush_info(q))
      /\ OptFence => DirtyBytes' = DirtyBytes /\ FlushedBytes' = {} /\ Covered'

\* Whatever the options trim, split and merge, the operations change the bytes
\* as they should: a store makes its bytes dirty and with --mult-stores no
\* longer flushed, with one event for each store overwritten behind the
\* pre-filters; a flush takes its dirty bytes to flushed; a fence drops the
\* flushed ones and leaves every box covering its stores.
OptionsExact == [][OptionsExactStep]_allVars

\* The detailed listing names every byte that is not persistent and no other,
\* though it merges stores into each other and into the tracked ones; which
\* bytes are dirty and which flushed does not change.
ListingExact ==
  [][print_bug_detail /\ print_pmem_stats =>
       /\ out'.reported = DirtyBytes \cup FlushedBytes
       /\ DirtyBytes' = DirtyBytes /\ FlushedBytes' = FlushedBytes]_allVars
============================================================================
