---------------------------- MODULE Transactions ----------------------------
(***************************************************************************)
(* Transactions and the regions they log: pmc_tx.c and the client requests *)
(* that reach it.                                                          *)
(*                                                                         *)
(* A transaction holds the regions added to it, merged into a region set;  *)
(* the region added last waits in a cache of one.  A thread entry holds    *)
(* the ids of the transactions the thread contributes to.  A store by a    *)
(* thread in a transaction should hit logged bytes.                        *)
(*                                                                         *)
(* Requests are handled one at a time, by the thread that runs.  START_TX, *)
(* END_TX, ADD_TO_TX and REMOVE_FROM_TX use the id of that thread as the   *)
(* id of the transaction; their ..._N forms take any id.                   *)
(* --epoch-durability-fence is off.                                        *)
(***************************************************************************)
EXTENDS Regions

CONSTANTS
  Threads,            \* thread ids, naturals
  Started,            \* pairs <<thread, tx id>>: who starts which transaction
  Objects,            \* regions added to and removed from transactions
  Stores,             \* regions stored to
  Ignored,            \* regions added to the global excludes
  MaxNesting,         \* bound of the model on the nesting of a transaction
  MAX_OOT_STORES,
  MAX_CROSS_EVS,
  transactions_only,  \* --transactions-only
  redundant_logging   \* --redundant-logging

TxIds == {p[2] : p \in Started}

ASSUME TransactionsAssumption ==
  /\ NoAddr \in Nat /\ Threads \subseteq Nat /\ MaxNesting \in Nat
  /\ Started \subseteq Threads \X Nat
  /\ MAX_OOT_STORES \in Nat /\ MAX_CROSS_EVS \in Nat
  /\ transactions_only \in BOOLEAN /\ redundant_logging \in BOOLEAN
  /\ \A r \in Objects \cup Stores \cup Ignored : ProperRegion(r, NoAddr)

VARIABLES
  transactions,  \* trans.transactions: running transactions by id
  threads,       \* trans.threads: transaction ids by thread
  excludes,      \* trans.excludes
  oot_stores_reg, cross_tx_reg, redundant_logging_tx_reg,  \* events registered
  ret,           \* result of the last request
  exited         \* the tool has stopped the program, a register being full

vars == <<transactions, threads, excludes, oot_stores_reg, cross_tx_reg,
          redundant_logging_tx_reg, ret, exited>>

NoRegion == Region(0, 0)

Init ==
  /\ transactions = << >> /\ threads = << >>
  /\ excludes = {}
  /\ oot_stores_reg = 0 /\ cross_tx_reg = 0 /\ redundant_logging_tx_reg = 0
  /\ ret = 0
  /\ exited = FALSE
----------------------------------------------------------------------------
Running == DOMAIN transactions

is_tx_in_thread(t, x) == t \in DOMAIN threads /\ x \in threads[t]

NewTx == [counter |-> 0, regions |-> {}, cached_region |-> NoRegion]

register_new_tx(t, x) ==
  LET tx == IF x \in Running THEN transactions[x] ELSE NewTx
      ids == IF t \in DOMAIN threads THEN threads[t] ELSE {}
  IN  /\ tx.counter < MaxNesting
      /\ transactions' = [y \in Running \cup {x} |->
                            IF y = x THEN [tx EXCEPT !.counter = @ + 1] ELSE transactions[y]]
      /\ threads' = [u \in DOMAIN threads \cup {t} |->
                       IF u = t THEN ids \cup {x} ELSE threads[u]]
      /\ ret' = 0
      /\ UNCHANGED <<excludes, oot_stores_reg, cross_tx_reg, redundant_logging_tx_reg, exited>>

\* Mutant of Emptied: an entry is removed without testing for other ids.
EmptiedAny(x) == {t \in DOMAIN threads : x \in threads[t]}

\* The end of transaction x takes its id from the thread entries, in the order
\* of thread ids, and removes an entry left without ids.  Removing one empties
\* the stack of the set's iterator: the loop ends there.
Emptied(x) == {t \in DOMAIN threads : threads[t] \subseteq {x}}

\* Mutant of Visited: thread entries are not visited at all.
VisitedNone(x) == {}

Visited(x) == {t \in DOMAIN threads : \A u \in Emptied(x) : t <= u}

remove_tx(x) ==
  /\ IF x \notin Running
     THEN ret' = 1 /\ UNCHANGED <<transactions, threads>>
     ELSE IF transactions[x].counter > 1
     THEN /\ transactions' = [transactions EXCEPT ![x].counter = @ - 1]
          /\ ret' = 0 /\ UNCHANGED threads
     ELSE /\ transactions' = Restrict(transactions, Running \ {x})
          /\ threads' = [t \in DOMAIN threads \ (Visited(x) \cap Emptied(x)) |->
                           IF t \in Visited(x) THEN threads[t] \ {x} ELSE threads[t]]
          /\ ret' = 0
  /\ UNCHANGED <<excludes, oot_stores_reg, cross_tx_reg, redundant_logging_tx_reg, exited>>
----------------------------------------------------------------------------
\* Mutant of flush_cache: the cached region is reset but not merged.
flush_cacheDrops(tx) == [tx EXCEPT !.cached_region = NoRegion]

flush_cache(tx) ==
  IF tx.cached_region = NoRegion THEN tx
  ELSE [tx EXCEPT !.regions = add_region(tx.cached_region, @), !.cached_region = NoRegion]

\* Transaction tx has logged part of region r, as add_obj_to_tx finds out.
Logged(tx, r) ==
  Overlap(r, tx.cached_region) \/ is_in_mapping_set(r, tx.regions) # 0

Crossing(x, r) == {y \in Running \ {x} : Logged(transactions[y], r)}

Redundant(x, r) == redundant_logging /\ Logged(transactions[x], r)

\* The cached region makes place for r: it is dropped if r contains it and
\* merged into the others if not, less r if they overlap.
WithRegion(tx, r) ==
  LET overlap == check_overlap(tx.cached_region, r)
      flushed == flush_cache(tx)
      others == IF tx.cached_region = NoRegion \/ overlap = 1 THEN tx.regions
                ELSE IF overlap = 0 THEN flushed.regions
                ELSE remove_region(r, flushed.regions)
  IN  [tx EXCEPT !.regions = others, !.cached_region = r]

\* The events of adding r to transaction x.  Each is named by the transaction
\* at which the loop over all of them, in the order of their ids, finds it:
\* another one that has logged part of r, or x itself.
Events(x, r) == Crossing(x, r) \cup (IF Redundant(x, r) THEN {x} ELSE {})

\* Mutant of EventFits: the last element of a register is not used.
EventFitsEarly(x, r, y) ==
  IF y = x THEN redundant_logging_tx_reg + 1 < MAX_CROSS_EVS
  ELSE cross_tx_reg + Cardinality({z \in Crossing(x, r) : z < y}) + 1 < MAX_CROSS_EVS

\* The register has room for the event at y, after those at smaller ids.
EventFits(x, r, y) ==
  IF y = x THEN redundant_logging_tx_reg < MAX_CROSS_EVS
  ELSE cross_tx_reg + Cardinality({z \in Crossing(x, r) : z < y}) < MAX_CROSS_EVS

\* The events that are registered.  At the first one that does not fit the
\* tool prints the register and exits, in the middle of the loop.
Registered(x, r) ==
  {y \in Events(x, r) : \A z \in Events(x, r) : z <= y => EventFits(x, r, z)}

add_obj_to_tx(t, x, r) ==
  LET done == Registered(x, r)
  IN  /\ IF x \notin Running \/ ~is_tx_in_thread(t, x)
         THEN /\ ret' = IF x \notin Running THEN 1 ELSE 2
              /\ UNCHANGED <<transactions, cross_tx_reg, redundant_logging_tx_reg, exited>>
         ELSE /\ cross_tx_reg' = cross_tx_reg + Cardinality(done \ {x})
              /\ redundant_logging_tx_reg' = redundant_logging_tx_reg + IF x \in done THEN 1 ELSE 0
              /\ IF done # Events(x, r)
                 THEN exited' = TRUE /\ UNCHANGED <<transactions, ret>>
                 ELSE /\ transactions' = [transactions EXCEPT ![x] = WithRegion(@, r)]
                      /\ ret' = 0
                      /\ UNCHANGED exited
      /\ UNCHANGED <<threads, excludes, oot_stores_reg>>

WithoutRegion(tx, r) ==
  IF tx.cached_region = r THEN [tx EXCEPT !.cached_region = NoRegion]
  ELSE IF Overlap(r, tx.cached_region)
  THEN [tx EXCEPT !.regions = remove_region(r, add_region(tx.cached_region, @))]
  ELSE [tx EXCEPT !.regions = remove_region(r, @)]

remove_obj_from_tx(t, x, r) ==
  /\ IF x \notin Running \/ ~is_tx_in_thread(t, x)
     THEN /\ ret' = IF x \notin Running THEN 1 ELSE 2
          /\ UNCHANGED transactions
     ELSE /\ transactions' = [transactions EXCEPT ![x] = WithoutRegion(@, r)]
          /\ ret' = 0
  /\ UNCHANGED <<threads, excludes, oot_stores_reg, cross_tx_reg,
                 redundant_logging_tx_reg, exited>>

\* These two requests call remove_obj_from_tx; the client macros fill the
\* address and the size with zeros.
ADD_THREAD_TO_TX_N(t, x) == remove_obj_from_tx(t, x, NoRegion)

REMOVE_THREAD_FROM_TX_N(t, x) == remove_obj_from_tx(t, x, NoRegion)

add_to_global_excludes(r) ==
  /\ excludes' = add_region(r, excludes)
  /\ ret' = 0
  /\ UNCHANGED <<transactions, threads, oot_stores_reg, cross_tx_reg,
                 redundant_logging_tx_reg, exited>>
----------------------------------------------------------------------------
\* handle_tx_store asks the transactions of the thread, in the order of their
\* ids, until one has logged the store; each one asked merges its cached
\* region unless the store is inside that.
is_store_in_tx(r, x) ==
  /\ x \in Running
  /\ \/ check_overlap(r, transactions[x].cached_region) = 1
     \/ is_in_mapping_set(r, flush_cache(transactions[x]).regions) = 1

Excluded(r) == is_in_mapping_set(r, excludes) = 1

Asked(t, r) ==
  IF Excluded(r) \/ t \notin DOMAIN threads THEN {}
  ELSE {x \in threads[t] : \A y \in threads[t] : is_store_in_tx(r, y) => x <= y}

OutOfTx(t, r) ==
  /\ ~Excluded(r)
  /\ IF t \in DOMAIN threads THEN \A x \in threads[t] : ~is_store_in_tx(r, x)
                             ELSE transactions_only

handle_tx_store(t, r) ==
  LET full == OutOfTx(t, r) /\ oot_stores_reg = MAX_OOT_STORES
  IN  /\ transactions' =
           [x \in Running |->
              IF /\ x \in Asked(t, r)
                 /\ check_overlap(r, transactions[x].cached_region) # 1
              THEN flush_cache(transactions[x])
              ELSE transactions[x]]
      /\ exited' = full
      /\ oot_stores_reg' = oot_stores_reg + IF OutOfTx(t, r) /\ ~full THEN 1 ELSE 0
      /\ ret' = 0
      /\ UNCHANGED <<threads, excludes, cross_tx_reg, redundant_logging_tx_reg>>
----------------------------------------------------------------------------
Next ==
  /\ ~exited
  /\ \/ \E p \in Started : register_new_tx(p[1], p[2])
     \/ \E x \in TxIds : remove_tx(x)
     \/ \E r \in Ignored : add_to_global_excludes(r)
     \/ \E t \in Threads :
          \/ \E r \in Stores : handle_tx_store(t, r)
          \/ \E x \in TxIds :
               \/ \E r \in Objects : add_obj_to_tx(t, x, r) \/ remove_obj_from_tx(t, x, r)
               \/ ADD_THREAD_TO_TX_N(t, x)
               \/ REMOVE_THREAD_FROM_TX_N(t, x)

Spec == Init /\ [][Next]_vars
----------------------------------------------------------------------------
(* Properties.                                                             *)

TxInfo ==
  {tx \in [counter : 1 .. MaxNesting, regions : SUBSET [addr : Nat, size : Nat],
           cached_region : [addr : Nat, size : Nat]] :
     /\ RegionSet(tx.regions, NoAddr)
     /\ tx.cached_region = NoRegion \/ ProperRegion(tx.cached_region, NoAddr)}

\* The bytes logged in a transaction.
Tracked(tx) == BytesOf(tx.regions) \cup Bytes(tx.cached_region)

\* Type invariant.  The regions of a transaction, and the excludes, are merged
\* region sets, which is what lets one lookup decide about a store; an entry
\* in threads has at least one id; events stop at the size of their register.
TypeOK ==
  /\ Running \subseteq TxIds /\ \A x \in Running : transactions[x] \in TxInfo
  /\ DOMAIN threads \subseteq Threads
  /\ \A t \in DOMAIN threads : threads[t] \subseteq TxIds /\ threads[t] # {}
  /\ RegionSet(excludes, NoAddr)
  /\ oot_stores_reg \in 0 .. MAX_OOT_STORES
  /\ cross_tx_reg \in 0 .. MAX_CROSS_EVS /\ redundant_logging_tx_reg \in 0 .. MAX_CROSS_EVS
  /\ ret \in 0 .. 2
  /\ exited \in BOOLEAN

\* What handle_tx_store decides with its cache, merged regions and single
\* lookups is exact: a store is out of transaction when no running transaction
\* of its thread has logged all its bytes, and not all are excluded.
StoreExact ==
  \A t \in Threads, r \in Stores :
    OutOfTx(t, r) <=>
      /\ ~(Bytes(r) \subseteq BytesOf(excludes))
      /\ IF t \in DOMAIN threads
         THEN \A x \in threads[t] \cap Running :
                ~(Bytes(r) \subseteq Tracked(transactions[x]))
         ELSE transactions_only

\* The step that TrackedExact allows.
TrackedStep ==
  \A x \in Running \cap Running' :
    LET old == Tracked(transactions[x])
        new == Tracked(transactions'[x])
        added(r) ==
          /\ new = old \cup Bytes(r)
          /\ cross_tx_reg' = cross_tx_reg +
               Cardinality({y \in Running \ {x} : Tracked(transactions[y]) \cap Bytes(r) # {}})
        removed(r) ==
          /\ new \subseteq old /\ old \ Bytes(r) \subseteq new
          /\ ~Overlap(r, transactions[x].cached_region) => new = old \ Bytes(r)
        own(t) ==
          \E r \in Objects : \/ add_obj_to_tx(t, x, r) /\ added(r)
                             \/ remove_obj_from_tx(t, x, r) /\ removed(r)
    IN  /\ new # old => \E t \in Threads : is_tx_in_thread(t, x) /\ own(t)
        /\ \A t \in Threads, r \in Objects :
             add_obj_to_tx(t, x, r) /\ is_tx_in_thread(t, x) /\ ~exited' =>
               Bytes(r) \subseteq new

\* What a transaction has logged changes only on its own request, whatever
\* stores merge its cached region: an addition adds the bytes of the region
\* and registers one event per other transaction that has logged one of them;
\* a removal takes no other bytes than the region's, and takes all of them if
\* the cached region is not among them.
TrackedExact == [][TrackedStep]_vars

\* The program is stopped only over a full register, also when one addition
\* makes events for several transactions and for both registers, of which the
\* first ones still fit: what is printed at the exit is as many events as can
\* be.
ExitsFull ==
  exited => \/ oot_stores_reg = MAX_OOT_STORES
            \/ cross_tx_reg = MAX_CROSS_EVS
            \/ redundant_logging_tx_reg = MAX_CROSS_EVS

\* A running transaction always has a thread that contributes to it: the loop
\* of remove_tx takes away no id but that of the transaction that ends.
HasMember ==
  \A x \in Running : \E t \in Threads : is_tx_in_thread(t, x)

\* Transaction x is never started by two threads, as with START_TX.
Unshared(x) == \A p, q \in Started : p[2] = x /\ q[2] = x => p = q

\* The end of a transaction that is not shared leaves no stale id behind,
\* although the loop of remove_tx ends at the first thread entry that it
\* removes, and whatever stale ids of shared transactions there are.
NoStaleIds ==
  \A t \in DOMAIN threads : \A x \in threads[t] : Unshared(x) => x \in Running
============================================================================
