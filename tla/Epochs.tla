------------------------------- MODULE Epochs -------------------------------
(***************************************************************************)
(* Epochs (--epoch-durability-fence): epoch_begin, epoch_end,              *)
(* mark_epoch_fence and the client requests that call them, on top of      *)
(* store tracking.                                                         *)
(*                                                                         *)
(* An epoch is opened and closed by requests of its own or by the          *)
(* outermost start and end of a transaction.  There is one epoch for all   *)
(* threads.  Stores made in it are flagged, and the flagged stores still   *)
(* tracked when it ends are reported.  Of the transactions only the        *)
(* nesting counters matter here; what they log is in Transactions.         *)
(***************************************************************************)
EXTENDS StoreTracker

CONSTANTS
  TxIds,                \* transactions that are started and ended
  Threads,              \* threads that end epochs by EPOCH_END
  MaxNesting,           \* bound of the model on the nesting of a transaction
  MaxFences,            \* bound of the model on epoch_fence
  MaxFenceEvents,       \* bound of the model on redundant_fence_reg
  MAX_REDUNDANT_FENCE

ASSUME EpochsAssumption ==
  MaxNesting \in Nat \ {0} /\ MaxFences \in Nat /\ MaxFenceEvents \in Nat
  /\ MAX_REDUNDANT_FENCE \in Nat \ {0}

VARIABLES
  counter,              \* tx_info.counter of the running transactions
  epoch_fence,          \* fences marked in this epoch
  redundant_fence_reg,  \* redundant fences registered
  ended,                \* bytes the last operation reported as not persistent
  explicit,             \* history: an EPOCH_BEGIN waits for its EPOCH_END
  pending               \* history: bytes stored since the epoch began or was
                        \* last reported, dirty and flushed, not yet persistent

epochVars == <<counter, epoch_fence, redundant_fence_reg, ended, explicit, pending>>

allEpochVars == <<vars, epochVars>>

NonePending == [dirty |-> {}, flushed |-> {}]

EpochsInit ==
  /\ Init
  /\ counter = << >>
  /\ epoch_fence = 0 /\ redundant_fence_reg = 0
  /\ ended = {}
  /\ explicit = FALSE /\ pending = NonePending
----------------------------------------------------------------------------
(* The operations of StoreTracker, none of which ends an epoch.            *)

Tracking(tracked) ==
  /\ pending' = tracked
  /\ ended' = {}
  /\ UNCHANGED <<counter, epoch_fence, redundant_fence_reg, explicit>>

EpochStore(r) ==
  /\ trace_pmem_store(r)
  /\ Tracking(IF epoch THEN [pending EXCEPT !.dirty = @ \cup Bytes(r)] ELSE pending)

EpochFlush(q) ==
  LET hit == pending.dirty \cap Bytes(flush_info(q))
  IN  /\ do_flush(q)
      /\ Tracking([dirty |-> pending.dirty \ hit, flushed |-> pending.flushed \cup hit])

EpochFence == do_fence /\ Tracking([pending EXCEPT !.flushed = {}])

EpochClean(r) ==
  /\ SET_CLEAN(r)
  /\ Tracking([dirty |-> pending.dirty \ Bytes(r), flushed |-> pending.flushed \ Bytes(r)])

EpochStats == print_store_stats /\ Tracking(pending)
----------------------------------------------------------------------------
is_nest_trans(x, counters) == x \in DOMAIN counters /\ counters[x] > 1

\* register_new_tx and remove_tx, as far as they change the counters.
Counted(x) ==
  [y \in DOMAIN counter \cup {x} |->
     IF y # x THEN counter[y] ELSE IF x \in DOMAIN counter THEN counter[x] + 1 ELSE 1]

\* Mutant of Discounted: a transaction that has ended is not removed.
DiscountedKept(x) ==
  IF x \in DOMAIN counter THEN [counter EXCEPT ![x] = @ - 1] ELSE counter

Discounted(x) ==
  IF is_nest_trans(x, counter) THEN [counter EXCEPT ![x] = @ - 1]
  ELSE Restrict(counter, DOMAIN counter \ {x})

epoch_begin == epoch' = TRUE

\* mark_epoch_fence: the fence is counted, and registered when it is not the
\* first, unless the count is past the capacity of the register.
RedundantFence(fences) == fences > 1 /\ fences <= MAX_REDUNDANT_FENCE - 1

mark_epoch_fence ==
  IF ~epoch THEN UNCHANGED redundant_fence_reg
  ELSE /\ redundant_fence_reg' =
            redundant_fence_reg + IF RedundantFence(epoch_fence + 1) THEN 1 ELSE 0
       /\ redundant_fence_reg' <= MaxFenceEvents

Unflag(e) == [e EXCEPT !.inEpoch = FALSE]

\* Mutant of Flagged: stores in snippets that are flushed as a whole are
\* skipped, as a fence does.
FlaggedUnflushed ==
  {i \in LiveSlots : array[i].inEpoch /\ ~array[i].is_delete /\ ~AllFlushed(i)}

Flagged == {i \in LiveSlots : array[i].inEpoch /\ ~array[i].is_delete}

\* Mutant of epoch_end: the fences of the epoch are not forgotten.
epoch_endKeepsFences(x) ==
  IF ~epoch
  THEN ended' = {} /\ UNCHANGED <<array, tree, epoch, epoch_fence, pending>>
  ELSE /\ epoch' = is_nest_trans(x, counter')
       /\ tree' = {Unflag(e) : e \in tree}
       /\ array' = [i \in DOMAIN array |-> IF i \in Flagged THEN Unflag(array[i]) ELSE array[i]]
       /\ ended' = BytesOf({array[i] : i \in Flagged} \cup {e \in tree : e.inEpoch})
       /\ pending' = NonePending
       /\ UNCHANGED epoch_fence

\* epoch_end, for the transactions as they are after the request.
epoch_end(x) ==
  IF ~epoch
  THEN ended' = {} /\ UNCHANGED <<array, tree, epoch, epoch_fence, pending>>
  ELSE /\ epoch' = is_nest_trans(x, counter')
       /\ epoch_fence' = 0
       /\ tree' = {Unflag(e) : e \in tree}
       /\ array' = [i \in DOMAIN array |-> IF i \in Flagged THEN Unflag(array[i]) ELSE array[i]]
       /\ ended' = BytesOf({array[i] : i \in Flagged} \cup {e \in tree : e.inEpoch})
       /\ pending' = NonePending
----------------------------------------------------------------------------
(* The client requests.                                                    *)

START_TX(x) ==
  /\ x \in DOMAIN counter => counter[x] < MaxNesting
  /\ counter' = Counted(x)
  /\ IF is_nest_trans(x, counter') THEN UNCHANGED epoch ELSE epoch_begin
  /\ out' = Quiet /\ ended' = {}
  /\ UNCHANGED <<array, snippets, tree, box, epoch_fence, redundant_fence_reg, explicit, pending>>

\* The outermost end closes the epoch, also one that something else opened;
\* so does the end of a transaction that is not running.
END_TX(x) ==
  /\ counter' = Discounted(x)
  /\ IF is_nest_trans(x, counter)
     THEN ended' = {} /\ UNCHANGED <<array, tree, epoch, epoch_fence, redundant_fence_reg, pending>>
     ELSE mark_epoch_fence /\ epoch_end(x)
  /\ out' = Quiet
  /\ UNCHANGED <<snippets, box, explicit>>

FENCE_MARK ==
  /\ mark_epoch_fence
  /\ epoch_fence' = IF epoch THEN epoch_fence + 1 ELSE epoch_fence
  /\ epoch_fence' <= MaxFences
  /\ out' = Quiet /\ ended' = {}
  /\ UNCHANGED <<array, snippets, tree, box, epoch, counter, explicit, pending>>

EPOCH_BEGIN ==
  /\ epoch_begin
  /\ explicit' = TRUE
  /\ out' = Quiet /\ ended' = {}
  /\ UNCHANGED <<array, snippets, tree, box, counter, epoch_fence, redundant_fence_reg, pending>>

EPOCH_END(t) ==
  /\ UNCHANGED counter
  /\ epoch_end(t)
  /\ explicit' = FALSE
  /\ out' = Quiet
  /\ UNCHANGED <<snippets, box, redundant_fence_reg>>

EpochsNext ==
  \/ \E r \in Stores : EpochStore(r)
  \/ \E q \in Flushes : EpochFlush(q)
  \/ EpochFence
  \/ \E r \in Cleans : EpochClean(r)
  \/ EpochStats
  \/ \E x \in TxIds : START_TX(x) \/ END_TX(x)
  \/ FENCE_MARK
  \/ EPOCH_BEGIN
  \/ \E t \in Threads : EPOCH_END(t)

EpochsSpec == EpochsInit /\ [][EpochsNext]_allEpochVars
----------------------------------------------------------------------------
(* Properties.                                                             *)

\* Type invariant of the state of epochs.
EpochsTypeOK ==
  /\ DOMAIN counter \subseteq TxIds /\ \A x \in DOMAIN counter : counter[x] \in 1 .. MaxNesting
  /\ epoch \in BOOLEAN /\ explicit \in BOOLEAN
  /\ epoch_fence \in 0 .. MaxFences /\ redundant_fence_reg \in 0 .. MaxFenceEvents
  /\ ended \in SUBSET (0 .. NoAddr)
  /\ pending \in [dirty : SUBSET (0 .. NoAddr), flushed : SUBSET (0 .. NoAddr)]

\* The epoch is global and its starts and ends do not nest, yet it never
\* outlives everything that could have opened it, in whatever order requests
\* of different threads come; and no fence of one epoch is left to be counted
\* in the next, so that the first fence of an epoch is never redundant.
EpochHasOwner ==
  /\ epoch => explicit \/ DOMAIN counter # {}
  /\ ~epoch => epoch_fence = 0

\* The step that EndComplete allows.
EndCompleteStep ==
  LET left == pending.dirty \cup pending.flushed
  IN  (\E x \in TxIds \cup Threads : epoch_end(x)) /\ epoch =>
        /\ left \subseteq ended'
        /\ ended' \subseteq DirtyBytes \cup FlushedBytes
        /\ \A i \in LiveSlots' : array'[i].inEpoch => array'[i].is_delete
        /\ \A e \in tree' : ~e.inEpoch

\* README.md, epoch_durability: "at the end of an epoch, the durability of all
\* memory locations updated by store instructions in the epoch".  The end of
\* an epoch reports every byte stored in it that is not persistent by then,
\* wherever fences and overflows have put its store, no byte that is
\* persistent, and no store a second time.  It holds for ranges that are
\* Granular: the right part of a split node of the tree loses its flag.
EndComplete == [][EndCompleteStep]_allEpochVars
----------------------------------------------------------------------------
(* What the list of bug types says and the code does not keep.             *)

\* README.md, epoch_durability, speaks of locations "updated by store
\* instructions in the epoch": no other is reported.
EndReportsOwn ==
  [][ended' \subseteq pending.dirty \cup pending.flushed]_allEpochVars
============================================================================
