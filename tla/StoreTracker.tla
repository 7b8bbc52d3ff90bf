---------------------------- MODULE StoreTracker ----------------------------
(***************************************************************************)
(* The bookkeeping of stores to persistent memory: trace_pmem_store,       *)
(* do_flush, do_fence, SET_CLEAN and print_store_stats of pmc_main.c.      *)
(*                                                                         *)
(* Stores made since the last fence are in a fixed array of slots.  The    *)
(* used slots are cut into snippets, one per run of stores between         *)
(* flushes; a snippet has a bounding box and is flushed as a whole when a  *)
(* flush covers the box.  A fence moves what is not flushed to a tree.     *)
(* The options --mult-stores, --tree-reorganization, --order-guarantee and *)
(* --print-debug-detail are off, their defaults.                           *)
(*                                                                         *)
(* The default tree is ordered by a creation index, which no operation     *)
(* here depends on: it is modelled as a set of stores.  Slots keep what    *)
(* was last written to them, also when they are not in use.                *)
(***************************************************************************)
EXTENDS Regions, Sequences

CONSTANTS
  Stores,             \* regions the program stores to (all of them mapped)
  Flushes,            \* ranges it asks to flush
  Cleans,             \* ranges it sets clean
  MAX_ARRAY_NUM,      \* slots in the array
  check_flush,        \* --flush-check
  force_flush_align,  \* --flush-align
  flush_align_size    \* cache line size

\* The range that do_flush works on: the base is rounded down to a line, the
\* size up.
flush_info(q) ==
  IF force_flush_align
  THEN Region(q.addr - (q.addr % flush_align_size),
              ((q.size + flush_align_size - 1) \div flush_align_size) * flush_align_size)
  ELSE q

FlushRanges == {flush_info(q) : q \in Flushes}

ASSUME StoreTrackerAssumption ==
  /\ NoAddr \in Nat \ {0}
  /\ MAX_ARRAY_NUM \in Nat
  /\ check_flush \in BOOLEAN
  /\ \A r \in Stores \cup FlushRanges \cup Cleans :
       r.addr \in Nat /\ r.size \in Nat \ {0} /\ End(r) < NoAddr

VARIABLES
  array,     \* array.pmem_stores: the slots
  snippets,  \* array.snippet_info[0..snippet_info_index]
  tree,      \* pmem_stores, the OSet of stores older than the last fence
  box,       \* {min,max}_add_pmem_store, the bounding box of the tree
  epoch,     \* inside an epoch (never, unless --epoch-durability-fence)
  out        \* events and listing produced by the last operation

vars == <<array, snippets, tree, box, epoch, out>>

State == {"CLEAN", "DIRTY", "FLUSHED"}

FlushedNum == {"NO_FLUSHED", "PART_FLUSHED", "ALL_FLUSHED"}

\* A zeroed struct pmem_st.  OSetGen_AllocNode gives one; VG_(malloc) of the
\* array is a block of gigabytes, always a fresh anonymous mapping of zeros.
ZeroStore ==
  [addr |-> 0, size |-> 0, state |-> "CLEAN", is_delete |-> FALSE, inEpoch |-> FALSE]

\* A new snippet begins at slot i.
init_snippet_info(i) ==
  [start_index |-> i, index |-> i, min_add |-> NoAddr, max_add |-> NoAddr,
   flushed_num |-> "NO_FLUSHED"]

Quiet == [redundant |-> FALSE, superfluous |-> FALSE, reported |-> {}]

Init ==
  /\ array = [i \in 0 .. MAX_ARRAY_NUM - 1 |-> ZeroStore]
  /\ snippets = <<init_snippet_info(0)>>
  /\ tree = {}
  /\ box = EmptyBox
  /\ epoch = FALSE
  /\ out = Quiet
----------------------------------------------------------------------------
Last == Len(snippets)

Current == snippets[Last]

Slots(s) == s.start_index .. s.index - 1

LiveSlots == 0 .. Current.index - 1

\* Slot i belongs to a snippet that was flushed as a whole.
AllFlushed(i) ==
  \E k \in 1 .. Last :
    i \in Slots(snippets[k]) /\ snippets[k].flushed_num = "ALL_FLUSHED"

\* Several operations append remainders of stores to the current snippet.
\* P is a set of naturals in the order in which they are appended: the slot
\* that p gets, if it is a slot, and the next free one after all of P.
SlotOf(P, p) == Current.index + Cardinality({q \in P : q < p})

\* Mutant of IndexAfter: the end of the array is not tested.
IndexAfterUnbounded(P) == Current.index + Cardinality(P)

IndexAfter(P) ==
  LET n == Current.index + Cardinality(P)
  IN  IF n < MAX_ARRAY_NUM THEN n ELSE MAX_ARRAY_NUM
----------------------------------------------------------------------------
\* trace_pmem_store.  inEpoch is set inside an epoch and not reset outside.
NewStore(r, old) ==
  [addr |-> r.addr, size |-> r.size, state |-> "DIRTY", is_delete |-> FALSE,
   inEpoch |-> epoch \/ old.inEpoch]

\* Mutant of StoreToArray: the test for a free slot is off by one.
StoreToArrayOffByOne(r) ==
  LET i == Current.index
  IN  /\ i <= MAX_ARRAY_NUM
      /\ array' = [array EXCEPT ![i] = NewStore(r, ZeroStore)]
      /\ snippets' = [snippets EXCEPT ![Last] = Widen([Current EXCEPT !.index = i + 1], r)]
      /\ out' = Quiet
      /\ UNCHANGED <<tree, box, epoch>>

StoreToArray(r) ==
  LET i == Current.index
  IN  /\ i < MAX_ARRAY_NUM
      /\ array' = [array EXCEPT ![i] = NewStore(r, array[i])]
      /\ snippets' = [snippets EXCEPT ![Last] = Widen([Current EXCEPT !.index = i + 1], r)]
      /\ out' = Quiet
      /\ UNCHANGED <<tree, box, epoch>>

StoreToTree(r) ==
  /\ Current.index >= MAX_ARRAY_NUM
  /\ tree' = tree \cup {NewStore(r, ZeroStore)}
  /\ box' = Widen(box, r)
  /\ out' = Quiet
  /\ UNCHANGED <<array, snippets, epoch>>

trace_pmem_store(r) == StoreToArray(r) \/ StoreToTree(r)
----------------------------------------------------------------------------
\* Mutant of Whole: the lower end of the box is not compared.
WholeUpperOnly(s, f) == End(f) >= s.max_add /\ s.flushed_num = "NO_FLUSHED"

\* do_flush.  A snippet is marked as a whole, scanned slot by slot, or skipped.
Whole(s, f) ==
  /\ End(f) >= s.max_add /\ s.min_add >= f.addr
  /\ s.flushed_num = "NO_FLUSHED"

Scanned(s, f) == ~Whole(s, f) /\ Touches(s, f)

\* In a scanned snippet, the stores the flush meets and those it flushes;
\* the others it meets are redundant flushes.
Met(s, f) ==
  {i \in Slots(s) : ~array[i].is_delete /\ Overlap(f, array[i])}

Fresh(s, f) ==
  {i \in Met(s, f) : s.flushed_num # "ALL_FLUSHED" /\ array[i].state = "DIRTY"}

FreshSlots(f) ==
  UNION {Fresh(snippets[k], f) : k \in {j \in 1 .. Last : Scanned(snippets[j], f)}}

\* The part of store e inside the flush, and the dirty remainders.
FlushedPart(e, f) ==
  LET lo == IF e.addr < f.addr THEN f.addr ELSE e.addr
      hi == IF End(e) > End(f) THEN End(f) ELSE End(e)
  IN  [e EXCEPT !.addr = lo, !.size = hi - lo, !.state = "FLUSHED"]

LeftPart(e, f) == [e EXCEPT !.size = f.addr - e.addr]

\* Mutant of RightPart: its size is counted from the start of the flush.
RightPartTooLong(e, f) == [e EXCEPT !.addr = End(f), !.size = End(e) - f.addr]

RightPart(e, f) == [e EXCEPT !.addr = End(f), !.size = End(e) - End(f)]

\* Mutant of Remainders: the left part of a split store is forgotten.
RemaindersRightOnly(f) ==
  {2 * i + 1 : i \in {j \in FreshSlots(f) : End(array[j]) > End(f)}}

\* Remainders in the order of their creation: 2i left and 2i+1 right of slot i.
Remainders(f) ==
  LET fresh == FreshSlots(f)
  IN  {2 * i : i \in {j \in fresh : array[j].addr < f.addr}} \cup
      {2 * i + 1 : i \in {j \in fresh : End(array[j]) > End(f)}}

Remainder(p, f) ==
  IF p % 2 = 0 THEN LeftPart(array[p \div 2], f) ELSE RightPart(array[p \div 2], f)

FlushArray(f) ==
  LET P == Remainders(f)
      fresh == FreshSlots(f)
  IN  [i \in DOMAIN array |->
         IF i \in fresh THEN FlushedPart(array[i], f)
         ELSE IF \E p \in P : SlotOf(P, p) = i
         THEN Remainder(CHOOSE p \in P : SlotOf(P, p) = i, f)
         ELSE IF /\ array[i].is_delete
                 /\ \E k \in 1 .. Last : Scanned(snippets[k], f) /\ i \in Slots(snippets[k])
         THEN [array[i] EXCEPT !.state = "FLUSHED"]
         ELSE array[i]]

\* Mutant of FlushSnippets: no new snippet is begun after a flush.
FlushSnippetsNoNew(f) ==
  [k \in 1 .. Last |->
     [snippets[k] EXCEPT
        !.flushed_num = IF Whole(snippets[k], f) THEN "ALL_FLUSHED"
                        ELSE IF Scanned(snippets[k], f) /\ Fresh(snippets[k], f) # {}
                        THEN "PART_FLUSHED" ELSE @,
        !.index = IF k = Last THEN IndexAfter(Remainders(f)) ELSE @]]

\* The snippets after the marking; a new one if the current one was flushed.
FlushSnippets(f) ==
  LET mark(k) ==
        IF Whole(snippets[k], f) THEN "ALL_FLUSHED"
        ELSE IF Scanned(snippets[k], f) /\ Fresh(snippets[k], f) # {} THEN "PART_FLUSHED"
        ELSE snippets[k].flushed_num
      n == IndexAfter(Remainders(f))
      marked == [k \in 1 .. Last |->
                   [snippets[k] EXCEPT !.flushed_num = mark(k),
                                       !.index = IF k = Last THEN n ELSE @]]
  IN  IF mark(Last) = "NO_FLUSHED" THEN marked
      ELSE Append(marked, init_snippet_info(n))

\* A dirty node of the tree that the flush meets.  Its right remainder is a
\* new node with only address, size and state filled in.
FlushNode(e, f) ==
  IF e.state = "DIRTY" /\ Overlap(f, e)
  THEN {FlushedPart(e, f)}
       \cup (IF e.addr < f.addr THEN {LeftPart(e, f)} ELSE {})
       \cup (IF End(e) > End(f) THEN {[RightPart(e, f) EXCEPT !.inEpoch = FALSE]} ELSE {})
  ELSE {e}

\* Remainders that no longer fit in the array go to the tree, unboxed.
FlushTree(f) ==
  LET P == Remainders(f)
      full == tree \cup {Remainder(p, f) : p \in {q \in P : SlotOf(P, q) >= MAX_ARRAY_NUM}}
  IN  IF Touches(box, f) THEN UNION {FlushNode(e, f) : e \in full} ELSE full

\* A node that was split is met again by the restarted iteration.
RedundantNode(e, f) ==
  Overlap(f, e) /\ (e.state # "DIRTY" \/ e.addr < f.addr \/ End(e) > End(f))

FlushEvents(f) ==
  LET scanned == {k \in 1 .. Last : Scanned(snippets[k], f)}
      redundant ==
        \/ \E k \in scanned : Met(snippets[k], f) # Fresh(snippets[k], f)
        \/ Touches(box, f) /\ \E e \in tree : RedundantNode(e, f)
      valid ==
        \/ \E k \in 1 .. Last : Whole(snippets[k], f)
        \/ \E k \in scanned : Met(snippets[k], f) # {}
        \/ Touches(box, f) /\ \E e \in tree : Overlap(f, e)
  IN  [Quiet EXCEPT !.redundant = check_flush /\ redundant,
                    !.superfluous = check_flush /\ ~valid]

do_flush(q) ==
  LET f == flush_info(q)
  IN  /\ array' = FlushArray(f)
      /\ snippets' = FlushSnippets(f)
      /\ tree' = FlushTree(f)
      /\ out' = FlushEvents(f)
      /\ UNCHANGED <<box, epoch>>
----------------------------------------------------------------------------
\* Mutant of Moved: the mark of a snippet flushed as a whole is not consulted.
MovedIgnoresMark ==
  {array[i] : i \in {j \in LiveSlots : array[j].state # "FLUSHED" /\ ~array[j].is_delete}}

\* do_fence.  Flushed stores are dropped; the others of the array move to the
\* tree, whose box is computed afresh; the array is empty again.
Moved ==
  {array[i] : i \in {j \in LiveSlots : /\ ~AllFlushed(j)
                                       /\ array[j].state # "FLUSHED"
                                       /\ ~array[j].is_delete}}

\* Mutant of do_fence: the box of the tree is not computed afresh.
do_fenceKeepsBox ==
  /\ tree' = {e \in tree : e.state # "FLUSHED"} \cup Moved
  /\ snippets' = <<init_snippet_info(0)>>
  /\ out' = Quiet
  /\ UNCHANGED <<array, box, epoch>>

do_fence ==
  /\ tree' = {e \in tree : e.state # "FLUSHED"} \cup Moved
  /\ box' = BoxOf(tree')
  /\ snippets' = <<init_snippet_info(0)>>
  /\ out' = Quiet
  /\ UNCHANGED <<array, epoch>>
----------------------------------------------------------------------------
\* SET_CLEAN.  Stores in the range are deleted, others trimmed; a store that
\* sticks out on both sides keeps its left part, and of the slot or node that
\* takes the right part only address and size are written.
CleanSlots(r) ==
  {i \in LiveSlots : /\ \E k \in 1 .. Last : Touches(snippets[k], r) /\ i \in Slots(snippets[k])
                     /\ ~array[i].is_delete
                     /\ Overlap(r, array[i])}

\* Mutant of Cut: what is left in front of the range is one byte too long.
CutTooLong(e, r) ==
  IF e.addr < r.addr THEN [e EXCEPT !.size = r.addr + 1 - e.addr]
  ELSE IF End(e) > End(r) THEN RightPart(e, r)
  ELSE [e EXCEPT !.is_delete = TRUE]

Cut(e, r) ==
  IF e.addr < r.addr THEN LeftPart(e, r)
  ELSE IF End(e) > End(r) THEN RightPart(e, r)
  ELSE [e EXCEPT !.is_delete = TRUE]

Pierced(r) ==
  {i \in CleanSlots(r) : array[i].addr < r.addr /\ End(array[i]) > End(r)}

BeyondIn(old, e, r) == [old EXCEPT !.addr = End(r), !.size = End(e) - End(r)]

CleanNode(e, r) ==
  IF ~Overlap(e, r) THEN {e}
  ELSE IF Within(e, r) THEN {}
  ELSE {Cut(e, r)} \cup
       (IF e.addr < r.addr /\ End(e) > End(r) THEN {BeyondIn(ZeroStore, e, r)} ELSE {})

SET_CLEAN(r) ==
  LET P == Pierced(r)
  IN  /\ array' = [i \in DOMAIN array |->
                     IF i \in CleanSlots(r) THEN Cut(array[i], r)
                     ELSE IF \E p \in P : SlotOf(P, p) = i
                     THEN BeyondIn(array[i], array[CHOOSE p \in P : SlotOf(P, p) = i], r)
                     ELSE array[i]]
      /\ snippets' = [snippets EXCEPT ![Last].index = IndexAfter(P)]
      /\ tree' = (UNION {CleanNode(e, r) : e \in tree}) \cup
                 {BeyondIn(ZeroStore, array[p], r) : p \in {q \in P : SlotOf(P, q) >= MAX_ARRAY_NUM}}
      /\ out' = Quiet
      /\ UNCHANGED <<box, epoch>>
----------------------------------------------------------------------------
\* print_store_stats, at exit or for WRITE_STATS: lists every store of the
\* array, deleted ones too, and of the tree; it also writes the state of
\* stores in fully flushed snippets back to their slots.
print_store_stats ==
  /\ array' = [i \in DOMAIN array |->
                 IF AllFlushed(i) THEN [array[i] EXCEPT !.state = "FLUSHED"] ELSE array[i]]
  /\ out' = [Quiet EXCEPT !.reported = BytesOf({array[i] : i \in LiveSlots} \cup tree)]
  /\ UNCHANGED <<snippets, tree, box, epoch>>
----------------------------------------------------------------------------
Next ==
  \/ \E r \in Stores : trace_pmem_store(r)
  \/ \E q \in Flushes : do_flush(q)
  \/ do_fence
  \/ \E r \in Cleans : SET_CLEAN(r)
  \/ print_store_stats

Spec == Init /\ [][Next]_vars
----------------------------------------------------------------------------
(* The bytes behind the bookkeeping.                                       *)

SlotsIn(st) ==
  {i \in LiveSlots : /\ ~array[i].is_delete
                     /\ st = IF AllFlushed(i) THEN "FLUSHED" ELSE array[i].state}

BytesIn(st) ==
  BytesOf({array[i] : i \in SlotsIn(st)} \cup {e \in tree : e.state = st})

DirtyBytes == BytesIn("DIRTY")

FlushedBytes == BytesIn("FLUSHED")

CleanedBytes == BytesOf({array[i] : i \in {j \in LiveSlots : array[j].is_delete}})

\* Bytes of stores that have no state: SET_CLEAN put them in a fresh slot or node.
StatelessBytes == BytesIn("CLEAN")

\* Store e lies inside bounding box b.
InBox(e, b) == b.min_add <= e.addr /\ End(e) <= b.max_add /\ b.max_add < NoAddr

\* The pre-filters of do_flush and SET_CLEAN can be trusted.
Covered ==
  /\ \A k \in 1 .. Last : \A i \in Slots(snippets[k]) : InBox(array[i], snippets[k])
  /\ \A e \in tree : InBox(e, box)

\* Every range to flush or to clean holds a store entirely or not at all, as
\* when objects do not straddle cache lines.
Granular ==
  \A s \in Stores : \A f \in FlushRanges \cup Cleans : Overlap(s, f) => Within(s, f)
----------------------------------------------------------------------------
(* Properties.                                                             *)

Store ==
  {e \in [addr : Nat, size : Nat, state : State, is_delete : BOOLEAN, inEpoch : BOOLEAN] :
     End(e) < NoAddr}

Snippet ==
  [start_index : 0 .. MAX_ARRAY_NUM, index : 0 .. MAX_ARRAY_NUM,
   min_add : 0 .. NoAddr, max_add : 0 .. NoAddr, flushed_num : FlushedNum]

\* Type invariant.  The bound on index is the one the tests against
\* MAX_ARRAY_NUM in front of every write to a slot are there for.
TypeOK ==
  /\ array \in [0 .. MAX_ARRAY_NUM - 1 -> Store]
  /\ snippets \in Seq(Snippet) /\ snippets # << >>
  /\ \A e \in tree : e \in Store
  /\ box \in [min_add : 0 .. NoAddr, max_add : 0 .. NoAddr]
  /\ epoch \in BOOLEAN
  /\ out \in [redundant : BOOLEAN, superfluous : BOOLEAN, reported : SUBSET (0 .. NoAddr)]

\* The snippets cut the used slots, all of them, into consecutive runs.  Only
\* the last one can be waiting for its first flush, and it always is, so that
\* a store never joins a snippet that a flush has touched (the test at the end
\* of do_flush); every other one holds a store.
SnippetsPartition ==
  /\ \A k \in 1 .. Last :
       /\ k - 1 <= snippets[k].start_index
       /\ snippets[k].start_index <= snippets[k].index
       /\ \A j \in 1 .. k - 1 : snippets[j].index <= snippets[k].start_index
       /\ snippets[k].flushed_num = "NO_FLUSHED" <=> k = Last
       /\ snippets[k].start_index = snippets[k].index =>
            k = Last /\ snippets[k].max_add = NoAddr
  /\ \A i \in LiveSlots : \E k \in 1 .. Last : i \in Slots(snippets[k])

\* The tracker does, byte for byte, what PersistBytes says.  It holds when
\* ranges to flush and clean are Granular.
Bytewise ==
  INSTANCE PersistBytes WITH dirty <- DirtyBytes, flushed <- FlushedBytes,
                             cleaned <- CleanedBytes

ImplementsPersistBytes == Bytewise!Spec

\* Each operation does to the bytes what PersistBytes says of that operation
\* and of the range it was given, and not what another one would have done.
OperationsExact ==
  [][/\ \A r \in Stores : trace_pmem_store(r) => Bytewise!Store(r)
     /\ \A q \in Flushes : do_flush(q) => Bytewise!Flush(flush_info(q))
     /\ do_fence => Bytewise!Fence
     /\ \A r \in Cleans : SET_CLEAN(r) => Bytewise!SetClean(r)
     /\ print_store_stats => Bytewise!Stats]_vars
----------------------------------------------------------------------------
(* Properties of partial flushes, which split stores.                      *)

\* No store of a snippet before the current one is split by a flush of f.
SplitsCurrentOnly(f) ==
  \A i \in FreshSlots(f) : i \in Slots(Current) \/ Within(array[i], f)

SplitsNode(f) == \E e \in tree : e.state = "DIRTY" /\ Overlap(e, f) /\ ~Within(e, f)

\* Once the boxes cover the stores, a flush takes exactly the bytes in its
\* range from dirty to flushed, however it splits stores, provided it splits
\* no store of an older snippet, whose remainder do_flush would put in the
\* current snippet without widening its box; and the boxes still cover the
\* stores, provided the array had room for the remainders, which otherwise go
\* to the tree without widening its box.  Marking a snippet as a whole takes
\* along the stores in it that have no state.  A redundant flush is registered
\* only for bytes that are tracked and not dirty and, since the loop meets the
\* node again that it has just split, for a node that sticks out of the range.
FlushExact ==
  [][\A q \in Flushes :
       LET f == flush_info(q)
       IN  Covered /\ SplitsCurrentOnly(f) /\ do_flush(q) =>
             /\ DirtyBytes' = DirtyBytes \ Bytes(f)
             /\ FlushedBytes \cup (DirtyBytes \cap Bytes(f)) \subseteq FlushedBytes'
             /\ FlushedBytes' \subseteq
                  FlushedBytes \cup ((DirtyBytes \cup StatelessBytes) \cap Bytes(f))
             /\ out'.redundant =>
                  (FlushedBytes \cup StatelessBytes) \cap Bytes(f) # {} \/ SplitsNode(f)
             /\ Current.index + Cardinality(Remainders(f)) <= MAX_ARRAY_NUM => Covered']_vars

\* Whatever was split before, a fence drops exactly the flushed bytes and
\* leaves every box covering its stores.
FenceRepairs ==
  [][do_fence => DirtyBytes' = DirtyBytes /\ FlushedBytes' = {} /\ Covered']_vars

\* The bytes behind range r of the stores that r cuts in two.
Beyond(r) ==
  BytesOf({RightPart(array[i], r) : i \in Pierced(r)}
          \cup {RightPart(e, r) : e \in {n \in tree : n.addr < r.addr /\ End(n) > End(r)}})

\* SET_CLEAN takes exactly the bytes in its range out of the dirty and of the
\* flushed ones, but for the part behind the range of a store that it cuts in
\* two: the slot or node for that part is given an address and a size only,
\* and its state is what it was before.
CleanExact ==
  [][\A r \in Cleans :
       Covered /\ SET_CLEAN(r) =>
         /\ DirtyBytes' \ Beyond(r) = (DirtyBytes \ Bytes(r)) \ Beyond(r)
         /\ FlushedBytes' \ Beyond(r) = (FlushedBytes \ Bytes(r)) \ Beyond(r)]_vars

\* Only a store makes bytes dirty, and only dirty bytes become flushed: the
\* "proper state transitions" of the comments on do_flush and do_fence.  The
\* exceptions are a SET_CLEAN that cuts a store in two, and what is behind its
\* range, which has no state and can become flushed.
StatesAdvance ==
  [][\/ \E r \in Stores : trace_pmem_store(r)
     \/ \E r \in Cleans : SET_CLEAN(r) /\ Beyond(r) # {}
     \/ /\ DirtyBytes' \subseteq DirtyBytes
        /\ FlushedBytes' \subseteq FlushedBytes \cup DirtyBytes \cup StatelessBytes]_vars
----------------------------------------------------------------------------
(* What comments and the list of bug types say and the code does not keep. *)

\* README.md, no_durability_guarantee: a location that "is not persisted" since
\* its last write is found.  For that a flush may only take bytes in its own
\* range out of the dirty ones.
FlushKeepsOthersDirty ==
  [][\A q \in Flushes :
       do_flush(q) => DirtyBytes \ Bytes(flush_info(q)) \subseteq DirtyBytes']_vars
============================================================================
