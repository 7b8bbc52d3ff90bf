# PMDebugger in TLA+

PMDebugger is a Valgrind tool that watches a program's stores to persistent
memory, its cache-line flushes and its fences, and reports crash-consistency
bugs. This directory holds TLA+ models of its bookkeeping, TLC configurations
that check them on small instances, and TLAPS proofs for all instances. All
paths below are under `src/valgrind-pmdebugger/pmdebugger/`.

## The system

| Part | Code | Module | State of the work |
|---|---|---|---|
| Regions, region sets, bounding boxes | `pmc_common.c`, `pmc_main.c` 958-997 | `Regions` | modelled, lemmas proved |
| Ordered sets: AVL tree and iterator | `../coregrind/m_oset.c` | `OSet`, `OrderedSet` | modelled as far as the tool uses them |
| Persistent mappings | `pmc_main.c` 244-254, 2631-2707 | `Mappings`, `MappedBytes` | modelled and proved |
| Store tracking: stores, flushes, fences, SET_CLEAN, listing | `pmc_main.c` 403-455, 1071-1176, 1628-1826, 1838-2126, 2753-2841 | `StoreTracker`, `PersistBytes` | modelled with default options, proved |
| The loop of `do_fence` over the tree | `pmc_main.c` 1706-1734 | `Sweep` | modelled, over `OSet` |
| Transactions | `pmc_tx.c`, `pmc_main.c` 2843-2940 | `Transactions` | modelled and proved |
| Multiple overwrites, reorganised tree, detailed listing | `pmc_main.c` 457-530, 683-956, 1004-1062 | `StoreOptions` | modelled, two invariants proved |
| Epochs (`--epoch-durability-fence`) | `pmc_main.c` 1541-1619, 2843-2888, 2941-2959 | `Epochs` | modelled and proved |
| Order guarantees and strands | `pmc_main.c` 1513-1540, 1653-1704, 1876-1901, 2965-3054 | `Orders` | modelled and proved |
| Instrumentation | `pmc_main.c` 1330-1512, 2132-2173, 2415-2614 | `Instrument` | which calls are added, proved; not the IR they are built of |
| Event registers | `pmc_common.c` 257-268, `pmc_tx.c` 346-384 | `Transactions`, `StoreOptions`, `Epochs` | partly |
| Options, printing, GDB monitor, file registration | `pmc_main.c` 2179-2395, 3090-3154, 3256-3390 | | I/O, not modelled |
| Rest of the Valgrind core, VEX, other tools, pmdk, memcached, ... | the rest of `src/` | | third-party, not modelled |

How the parts interact. The instrumented program calls `trace_pmem_store` for
each store; `is_pmem_access` filters out those outside the mappings; the store
goes to the tracker and to `handle_tx_store`. Flush and fence instructions, and
client requests, reach `do_flush` and `do_fence`; other client requests reach
the mappings and the transactions. Valgrind runs one thread at a time, and a
handler is never interrupted by another thread: each handler is one action. The
interleavings are those of whole handlers, of all threads.

## Modules

**`Regions`** has no state. A region is a record with `addr` and `size`; a
region set is an OSet under `cmp_pmem_st`, in which overlapping regions are
equal. Operators keep the names of the functions (`check_overlap`,
`is_in_mapping_set`, `add_region`, `remove_region`). The loops of `add_region`
and `remove_region` are given by what they leave. A lookup finds *some*
overlapping element, a `CHOOSE`; how the tree finds it is in `OSet`.

**`Mappings`**: `pmem_mappings` and the box `min/max_add_pmem_mappings`. One
action for each of REGISTER_ and REMOVE_PMEM_MAPPING, the latter with the three
ways the box shrinks. `MappedBytes` is the abstract specification: a set of
bytes.

**`StoreTracker`**. `array` is `array.pmem_stores`; slots keep old contents
when not in use, because SET_CLEAN reuses fields of such a slot. `snippets` is
`snippet_info[0 .. snippet_info_index]`, as a sequence, so `Last` is
`snippet_info_index + 1`. `tree` is the OSet `pmem_stores` and `box` its bounds.
`epoch` stays `FALSE` here; `Epochs` changes it. `out` is what the last
operation registered or listed. Actions: `trace_pmem_store`, `do_flush`,
`do_fence`, `SET_CLEAN`, `print_store_stats`.

* A flush visits slots in order and appends remainders of split stores. The
  model numbers remainders `2i` (left of slot `i`) and `2i + 1` (right);
  `SlotOf` gives the slot each lands in, `IndexAfter` the next free one, and
  remainders beyond the end of the array go to the tree.
* The default tree is ordered by a creation index that nothing here reads; it
  is a set. Two equal nodes are one element, which changes no byte and no
  event flag.
* Restarting the iteration at a node that was split, which makes `do_flush`
  meet it twice, is in `RedundantNode`.
* Events are flags of the last operation, not counts.
* Address -1 of an empty box is `NoAddr`, above every address in use.

`PersistBytes` is the abstract specification: sets of dirty and flushed bytes,
and the bytes of stores that are set clean but still listed until a fence.

**`Transactions`**: `transactions` (counter, merged `regions`, `cached_region`),
`threads` (ids per thread), `excludes`, the event counts, `ret` (the result of
the request) and `exited`, set when a full register makes the tool end the
program. START_TX and its `_N` form are both `register_new_tx`; the constant
`Started` says which thread starts which transaction. `remove_tx` models that
removing a thread entry ends the iteration over the entries. ADD_ and
REMOVE_THREAD_TO_TX_N call `remove_obj_from_tx`, and so does the model. An
addition registers its events one by one in the order of the ids (`Registered`),
so the exit can come with the registers filled half-way through the loop and
nothing logged.

**`Epochs`** extends `StoreTracker`: each operation of the tracker is wrapped,
and START_TX, END_TX, FENCE_MARK, EPOCH_BEGIN and EPOCH_END are added. Of the
transactions only the nesting counters are kept. `pending` and `explicit` are
history: what was stored in the epoch and is not persistent, and whether an
EPOCH_BEGIN is open.

**`Orders`** extends `StoreTracker` by time records (`orders`), the time stamp
that counts fences, and the current strand. The state of the strand that
NEW_STRAND leaves is never looked at again by the code; `lost` remembers its
bytes as history. `story` is, for each order, what really happened; `blurred`
marks the orders whose records can differ from it, and says why.

**`StoreOptions`** extends `StoreTracker` by `--mult-stores`,
`--tree-reorganization` and `--print-debug-detail`, chosen in `Init`. Stores
carry a context when the code records one. The order of iteration over the
default tree is any order, that over the reorganised one is by address. A store
whose events do not all fit fills the register and ends the program; how far the
trimming of older stores had come is left out, as nothing looks at it any more.

**`OSet`** is the AVL tree: `heap` (left, right, balance of every node, a node
being named by its key), `root`, `nElems` and the iterator's `stack`. Left and
right cases are written once, for a side. `OrderedSet` is what it promises: a
set, and the rest of an iteration. **`Sweep`** is the loop of `do_fence` over
it, one call a step, with any use of the set between two sweeps.

**`Instrument`** extends `StoreTracker`. A step executes one statement, or makes
the next of the calls that `pmc_instrument` has added behind it. `meant` is the
effect of the statements on the cache, external; `blurred` the bytes that were
stored to in ways the tool does not see.

`MC...` modules give the constants; each `.cfg` begins with what it is for.

## Runs

| Run (`cfg`) | What it shows |
|---|---|
| `mappings` (`MCMappings`) | the bounding box spans all mappings; the filter and CHECK_IS_PMEM_MAPPING are exact by byte; the region set implements `MappedBytes`, request by request |
| `whole_flushes` (`MCStoreTracker`) | if flushes and SET_CLEANs hold stores entirely or not at all, the tracker implements `PersistBytes`, operation by operation, redundant and superfluous flushes included; snippets partition the used slots |
| `partial_flushes` (`MCPartialFlush`) | if flushes split stores: a flush is exact when the boxes cover the stores and no store of an older snippet is split; a SET_CLEAN inside a store is exact but for what lies behind it; a fence repairs all boxes; bytes only advance from dirty to flushed, apart from the stateless bytes that such a SET_CLEAN makes |
| `transactions` (`MCTransactions`) | two threads share a transaction and one has another, nested: out-of-transaction stores are decided exactly; a transaction's bytes change only by its own requests, with the right number of cross-transaction events; a running transaction keeps a member; no stale ids for the one that is not shared; the program is ended only over a register full to its capacity, also half-way through an addition |
| `epochs` (`MCEpochs`) | the epoch, which is global, never outlives all that could have opened it; its end reports all that was stored in it and is not persistent, nothing that is, and nothing twice |
| `orders` (`MCOrders`) | the order check is exact where records are not blurred; a fence never misses a region it makes persistent; a new strand's boxes cover its stores; flushes across strands are registered |
| `store_options` (`MCStoreOptions`) | with multiple-store tracking every byte has one store, a reorganised tree is disjoint; operations and events are exact; the detailed listing names just the outstanding bytes |
| `sweep` (`MCSweep`) | the tree stays balanced and its balance factors right; the iterator's stack suffices; tree and iterator implement `OrderedSet`; the sweep sees every node once, removes the flushed ones, and ends |
| `instrument` (`MCInstrument`) | after the calls behind a statement the tracker has the bytes dirty and flushed that the program's statements mean |

Three runs show where the code departs from what the repository's documentation
says; each is a finding in `PROJECT.json`.

| Run (`cfg`) | The code ... | ... although `src/README.md` |
|---|---|---|
| `lost_dirty` (`MCLostDirty`) | loses the dirty remainder of a split store when a later flush covers the box of the snippet it was put in | says that a location not persisted is reported |
| `stale_epoch` (`MCStaleEpoch`) | reports, at the end of an epoch, a store made before it, into a slot that an earlier epoch had used | speaks of stores in the epoch |
| `order_missed` (`MCOrderMissed`) | takes a region for persistent that was stored to again after the flush, and reports no order | says that an order not guaranteed is reported |

Further departures were met while modelling. The models contain them, as the
code does; they have no run of their own, and where a property would fail for
them it says so.

* The first flush of part of a store in the tree is reported as redundant,
  because the iteration restarts at the node that was split (`SplitsNode` in
  `FlushExact`).
* Stores set clean are listed until the next fence: `print_store_stats` does not
  skip them. `PersistBytes` has them as a set of its own and lists them, so
  `OperationsExact` does not object. A SET_CLEAN in the middle of a store in the
  array leaves the right part with the state of an earlier use of its slot
  (`Beyond` in `CleanExact`).
* `remove_tx` leaves ids of ended transactions in the entries of threads that
  shared them (`Unshared` in `NoStaleIds`); the other properties of
  `transactions` hold in spite of them. `remove_obj_from_tx` leaves a region
  logged in some cases where it is also cached. ADD_ and
  REMOVE_THREAD_..._TX_N call `remove_obj_from_tx`.
* With `--flush-align` the base of a range is rounded down and its size rounded
  up by itself, so a request that crosses a line is not covered to its end.
* A remainder outside the box of its snippet, flushed by itself, is reported as
  a flush of nothing (the condition `Covered` in `FlushExact`).
* `init_snippet_info` tests no bound. One flush after each of `MAX_ARRAY_NUM`
  stores begins one snippet more than the `MAX_ARRAY_NUM` elements allocated for
  `snippet_info`, which `pmc_fini` warns of at exit. The models have a sequence
  without a bound. As every snippet but the last owns a slot
  (`SnippetsPartition`), it is never more than that one.
* `mark_epoch_fence` compares the fences of one epoch with the capacity of a
  register that is indexed by those of all epochs.
* With `--mult-stores` the right part of a store with a new one inside goes to
  the tree without widening its box, so `OneStorePerByte` is checked with stores
  of which none lies inside another. The event of a node that is overwritten
  entirely is empty, as `EventsExact` says: the node is freed before the event is
  allocated in its place.
* The detailed listing adds to a tracked store what it was merged with, so that
  stores overlap after it: `OneStorePerByte` speaks of the time before the first
  listing.
* A comment says that the iterator's stack of 32 allows for 2^32 entries. An AVL
  tree of 9,227,464 nodes can be 33 levels deep. `StackFits` is checked for the
  deepest tree of seven nodes with a stack of that depth.

**Bounds.** Addresses are below 10 or 15. Regions are chosen for their
relations (overlapping, adjacent, containing, contained), which is all the code
compares. Two or three slots (four in `lost_dirty`) are enough for two snippets,
a split of both kinds and an overflow into the tree; lines of two or four bytes
stand for lines of 64. In `whole_flushes` SET_CLEAN is asked for the first line
only. `partial_flushes` has a store across three lines, flushes of the middle one
and of all three, a SET_CLEAN in the middle of the store and an array of two
slots: a store that is split into three overflows it at once, and what a
SET_CLEAN leaves without a state is flushed later. Two threads and two transactions give every order of
nesting and of ends; `MaxNesting` caps the counter. Registers of size 1 or 2
fill up. `epochs` has one object, as epochs do not tell objects apart.
`MaxFences`, `MaxFenceEvents`, `MaxOrders`, `MaxTime`, `MaxStrands` and
`MaxListings` cap what grows without end; one order, three instants and two
strands suffice for each way in which an order can be kept or broken. Stores in
`store_options` have one context, so that all of one state can merge; with two
the instance is too large for a complete search, and a search of its first
520,000 states, which was not finished, met no violation. Seven keys
make AVL trees of four levels with every kind of rotation. Deadlock is checked,
except in `transactions` and `store_options`, where a full register ends the
program.

**Fairness.** Only `Sweep` has any: weak fairness of the loop's next call, since
the loop is sequential code that nothing interrupts. With it the loop is shown
to end (`SweepEnds`). Elsewhere the tool reacts to what the program does and
promises nothing to happen eventually.

## Proofs

The proofs hold for every array size, every set of ranges and all sequences of
operations. The assumptions are those named in the modules (`MappingsAssumption`,
`StoreTrackerAssumption`, `TransactionsAssumption`, `EpochsAssumption`,
`OrdersAssumption`, `StoreOptionsAssumption`, `InstrumentAssumption`): constants
have their types, sizes are positive and regions end below `NoAddr`; for the
instrumentation, flushes are aligned to lines, and what a statement stores to is,
if it is persistent at all, among the ranges that the tracker is given.

The modules build on each other: `FlushProofs` on `StoreTrackerProofs`,
`BytesProofs` on `FlushProofs`, `OrdersProofs` and `EpochsProofs` on `BytesProofs`.
`RegionsProofs` and `OptionsProofs` stand alone. What these proofs use of finite
sets (least and greatest elements, ranks, cardinalities, unions) is written down as
two formulas without variables, `NaturalSets` and `FiniteRules`, in `TrackerRules`,
and each is a conjunct of the inductive invariants. The provers then work with a
handful of facts in place of the library of theorems. Results are first proved in
the form `NaturalSets /\ Spec => ...` (names ending in `Given`); `Theorems` proves
`NaturalSets` and `FiniteRules` from the library and states all results without
them. What hypotheses remain there, `Granular` and `NoneInside`, are about the
ranges that the program uses, and are discussed below.

* `RegionsProofs`, first part: lemmas. `AddRegion` and `RemoveRegion` say that the
  operation keeps a set of disjoint, non-adjacent regions and adds or removes
  exactly the named bytes; `IsInMappingSet` that on such sets one lookup
  decides; `WidenSpans` and `BoxOfSpans` are about boxes.
  Second part, `Mappings`: the inductive invariant is `BoxSpans`. It says more than
  the filter needs, because REMOVE_PMEM_MAPPING shrinks the box only when a removal
  starts or ends at it, and to a box computed from what is left. From it:
  `MappingsTypeCorrect`, `FilterIsExact`, `CheckIsExact`, `RequestsAreExact`, and the
  refinement `MappingsImplementMappedBytes`.
  Third part, `Transactions`: the inductive invariant `TypeInv` is `TypeOK` and that
  finitely many transactions run (or the events of an addition could not be
  counted). Lemmas say what the cache does: `FlushCache` merges without changing
  the logged bytes, `AddsRegion` and `RemovesRegion` what the ways of replacing
  and removing the cached region do to them. From these and `IsInMappingSet`
  follow `AlwaysStoreExact` and `AlwaysTrackedExact`. `AlwaysHasMember` and
  `AlwaysNoStaleIds` are about the loop of `remove_tx` that ends early. The first
  needs only that no entry with another id is removed; the second adds to the
  invariant that threads contribute to what they started (`OwnIds`), so that
  without sharing there is one entry to visit and the loop reaches it.
  `AlwaysExitsFull` rests on `RegisteredEvents`: the events registered before the
  first that does not fit, which is the one of the smallest such id, fill its
  register exactly.
* `StoreTrackerProofs`: `TypeOK` is not inductive by itself, as the bound on the
  number of snippets and on slot indices comes from how the snippets are laid
  out. The inductive invariant `Layout` is `TypeOK /\ SnippetsPartition`. The
  central argument is that a flush marks only snippets that hold a store: an
  empty snippet has the empty box, which no flush covers or touches
  (`MarkedNotEmpty`). So at the end of `do_flush` a new snippet is begun exactly
  when the current one is not empty, and each snippet but the last owns a slot.
  Theorems: `TypeCorrect`, `AlwaysPartition`. They hold for flushes that split stores
  and for SET_CLEAN as well. The second half of the module is about single
  bytes: `InBytes` says of one byte which slot or node gives it its state, and
  `StoreBytes`, `FenceBytes` and `StatsBytes` what the simpler operations do to
  it. `Appended` shows, from the ranks in `NaturalSets`, that the remainders of split stores, numbered
  in the order of their creation, fill consecutive slots without a gap and
  without meeting, and that those beyond the end of the array are the ones that
  go to the tree.
* `FlushProofs`: `do_flush` by bytes. `FlushSlots` and `FlushNodes` give the
  contents of every slot and node after a flush, `FlushMisses` that a box that
  covers its stores makes neither the whole-snippet test nor the pre-filter err,
  `FlushAdds` and `FlushKeeps` the bytes that result, `FlushCovers` that the
  boxes still cover the stores, `RedundantMeets` what a redundant flush met.
* `BytesProofs`: SET_CLEAN by bytes (`CleanBytes`) and the theorems on bytes.
  `AlwaysFlushExact`, `AlwaysFenceRepairs`, `AlwaysCleanExact` and
  `AlwaysStatesAdvance` are action properties and hold for all ranges, whatever
  they split. Their invariant `ByteInv` adds to `Layout` that no entry is empty;
  without it a flush could meet an entry that has no byte in its range, and
  register a redundant flush for no reason.
  The refinement of `PersistBytes` needs `Granular` and a stronger invariant,
  `GranularInv`: the boxes cover the stores (`Covered`); every entry is a store
  of the program, with a state, so that nothing is ever split (`Recorded`); no
  slot of the current snippet is marked as flushed; and boxes are empty or proper.
  `GranularNoSplit` and `GranularDeletes` draw the consequence that flushes make
  no remainders and SET_CLEANs cut nothing. Theorems: `AlwaysCovered`,
  `AlwaysOperationsExact`, and `RefinesPersistBytes`, step by step from
  `StoreRefines` ... `StatsRefines`. `Granular` is a hypothesis of the theorems
  and not an assumption of the module, since `lost_dirty` shows that it is
  needed.
* `EpochsProofs`: `EpochHasOwner` is inductive (`AlwaysEpochHasOwner`). The
  argument is in `NestedStaysRunning` and `EndKeepsOwner`: an end keeps the
  epoch open only if its transaction is nested in the counters *after* the
  request, and then it is still running. `EpochsTypeCorrect` needs `Layout`
  beside it, because what an end reports are bytes of entries. `AlwaysEndComplete`
  compares the flags in slots and nodes with the history of the epoch. Its
  invariant, `PendingFlagged`, says that each byte still to be reported is in a
  flagged entry of the same state, dirty or flushed; the state matters, since a
  flush by bytes changes the history and a flush by entries the flags, and since a
  fence drops the flushed entries only. Each operation of the tracker keeps it
  (`StoreFlags` ... `CleanFlags`). For `Granular` ranges; else the right part of
  a split node would lose its flag.
  The last part is about `Instrument`. `AlwaysTraceExact` speaks of the states in
  which no call is outstanding; its inductive invariant `InstrumentInv` says for the
  others what is still owed: the bytes of the stores still to be passed to
  `trace_pmem_store` (`OwesStores`), a write-back and perhaps the fence that a
  CLFLUSH is as well (`OwesFlush`), or a fence (`OwesFence`). `WordsCover` shows that
  the words into which `add_event_dw` cuts a vector are the whole vector, for any
  number and width of words, and `LineOfFlush` that the aligned range of the call
  is the line of the write-back. `GranularInv` of `BytesProofs` is a conjunct, which
  makes each call act on its own bytes only.
* `OrdersProofs`: the inductive invariant `OrdersInv` adds to `OrdersTypeOK` the
  `Layout` of the tracker, which bounds the bytes that a new strand leaves
  behind (`StrandLayout` shows that a new strand has it too), and that bytes are
  left behind only once there is a second strand. The latter gives
  `AlwaysCrossStrandReported`. For `Granular` ranges `GranularInv` survives a
  new strand as well (`StrandGranular`): this is `AlwaysStrandCovered`, and with
  it `FenceFinds` and `AlwaysFenceEndsRecords`. `AlwaysOrderExact` has the
  invariant `TimesInv`: for an order whose records are not blurred, the bytes of
  `a` have one state at a time, `a` has no end exactly while one of its bytes is
  pending, an end is an earlier instant than the next fence, and the order is
  kept exactly if `a` ended before `b` began (`Timely`). The
  part on one state is what makes a fence end `a` for a reason.
* `OptionsProofs`: entries have a context or not, so they are described by the
  fields that matter (`Piece`). `OptionsTypeCorrect` has the invariant
  `OptionsTypeInv`, which adds to `OptionsTypeOK` that the snippets are well-formed
  and the tree is finite; without the latter the number of events of a store would
  not be a number. `AlwaysOneStorePerByte` has the invariant `OneStoreInv`. Its
  main part `Kept` holds until the first detailed listing and says: every used slot
  holds a part of a store of the program; the boxes of snippets and of the tree span
  their entries; with `--mult-stores` no two entries that are not deleted overlap,
  in the array, in the tree or across; with either option the tree is disjoint.
  The boxes are in it because a store looks for older ones only behind
  them: an entry outside its box would not be trimmed. The hypotheses are `Granular`,
  as a remainder of a split store lies outside the box of its new snippet, and
  `NoneInside`, as the right part of a store with a new one inside goes to the tree
  without widening its box. `InsertAllPieces` is the part about the reorganised
  tree: whatever is inserted, one after the other, it stays disjoint (`UpTo` is an
  induction over the position in the sequence, from the least-element fact of
  `NaturalSets`).

A refinement of a specification without inputs would accept a request that does
what another request should; therefore `RequestsExact` and `OperationsExact` tie
each operation to its own abstract action.

Every property of the runs on `Mappings`, `StoreTracker`, `Transactions`,
`Epochs`, `Orders` and `Instrument` is proved, and `OptionsTypeOK` and
`OneStorePerByte` of `StoreOptions`. Only model-checked are:

* `OSetShape`, `StackFits`, `ImplementsOrderedSet` and `SweepExact`: the AVL tree
  is built, rebalanced and searched by recursion, and what a recursive definition
  computes is proved by induction over the tree, which is out of the reach of
  TLAPS; so is `SweepEnds`, as liveness.
* `OptionsExact` and `ListingExact`: bytes are exact in them although entries are
  merged and overlap after a listing, which rests on the order in which the entries
  were made and are visited. The listing itself is a recursion over that order that
  builds two results at once. A proof would be an induction over sequences of
  entries with that history, which was not attempted.
* The violation runs, of course, state what does not hold.

## Not modelled

* Instrumentation beyond the calls: widening of values and types in VEX IR, and
  compare-and-swap of two words, for which the code combines a guard from an
  operand that is `NULL`.
* Option parsing, printing, the GDB monitor and reading of system files change
  no state that the properties are about. `register_new_file` resolves a
  descriptor and writes to the log. `--indiff` is at its default, 0.
* 64-bit wrap-around of addresses is excluded by the assumption that regions end
  below `NoAddr`.
* The tool is 4,934 lines of a tree of some 886,000. The rest is the Valgrind
  core, VEX, other Valgrind tools, pmdk, memcached, memslap and test programs:
  third-party code that is shipped with it or run under it. The state of the
  tool depends on its ordered sets, which are modelled, and on its memory
  allocation, which is taken to return zeroed nodes. Measured against the whole
  tree the models cover well under one percent; against the tool, more than
  half of its lines.
