----------------------------- MODULE Instrument -----------------------------
(***************************************************************************)
(* pmc_instrument: the statements of the program's intermediate code, and  *)
(* the calls of the tool that are added behind them.                       *)
(*                                                                         *)
(* A step either executes a statement of the program, with its effect on   *)
(* the memory (meant, external), or makes the next of the calls added      *)
(* behind it.  The core switches threads between superblocks only, so that *)
(* no other statement comes between them.  meant is the reference: what    *)
(* the statements do to the cache lines, where CLFLUSH writes its line     *)
(* back and acts as a fence unless weak_clflush is set.                    *)
(***************************************************************************)
EXTENDS StoreTracker

CONSTANTS
  Statements,     \* the statements of the program
  Mapped,         \* regions registered as persistent memory
  Parts           \* calls for a store, by type of its data; 0 if unsupported

VARIABLES
  isa,       \* options: automatic_isa_rec and weak_clflush
  calls,     \* calls still to be made behind the current statement
  meant,     \* bytes written, and bytes written back but not fenced
  blurred    \* history: bytes stored to in ways that are not traced exactly

instrVars == <<isa, calls, meant, blurred>>

allInstrVars == <<vars, instrVars>>

InstrumentInit ==
  /\ Init
  /\ isa \in [automatic_isa_rec : BOOLEAN, weak_clflush : BOOLEAN]
  /\ calls = << >>
  /\ meant = [written |-> {}, written_back |-> {}]
  /\ blurred = {}
----------------------------------------------------------------------------
(* Calls added behind a statement.                                         *)

StoreCall(r) == [helper |-> "trace_pmem_store", at |-> r]

FlushCall(addr) == [helper |-> "trace_pmem_flush", at |-> Region(addr, flush_align_size)]

FenceCall == [helper |-> "do_fence", at |-> Region(0, 0)]

\* Mutant of add_event_dw: the parts are all traced at the same address.
WideAtBase(st) ==
  LET n == Parts[st.type]
  IN  [i \in 1 .. n |-> StoreCall(Region(st.addr, st.size \div n))]

\* add_event_dw_guarded and handle_wide_expr: one call for a word, one for each
\* word of a vector, none for the types that it does not support.
add_event_dw(st) ==
  LET n == Parts[st.type]
      w == st.size \div n
  IN  [i \in 1 .. n |-> StoreCall(Region(st.addr + (i - 1) * w, w))]

\* The guard of a guarded store and of a compare-and-swap is evaluated with
\* the call; a store-conditional is traced whether or not it succeeds.
StoreCalls(st) ==
  CASE st.tag \in {"Store", "LLSC"}  -> add_event_dw(st)
    [] st.tag \in {"StoreG", "CAS"} -> IF st.stores THEN add_event_dw(st) ELSE << >>
    [] st.tag = "Dirty"              -> << >>

FlushCalls(st) ==
  IF st.kind = "Ifk_flush" /\ ~isa.weak_clflush
  THEN <<FlushCall(st.addr), FenceCall>> ELSE <<FlushCall(st.addr)>>

BarrierCalls(st) ==
  IF st.event \in {"Imbe_Fence", "Imbe_SFence"} THEN <<FenceCall>> ELSE << >>
----------------------------------------------------------------------------
(* Statements.                                                             *)

IsStore(st) == st.tag \in {"Store", "StoreG", "CAS", "LLSC", "Dirty"}

Target(st) == Region(st.addr, st.size)

\* The cache line of an address.
Line(addr) == Region(addr - (addr % flush_align_size), flush_align_size)

\* The statement and its calls agree on whether and what it stores.
Exact(st) == st.tag # "Dirty" /\ Parts[st.type] > 0 /\ (st.tag = "LLSC" => st.stores)

\* The statements of a program.  A vector consists of whole words, and a store
\* is to persistent memory with all of its words or with none.  Write-backs
\* work on cache lines.
ASSUME InstrumentAssumption ==
  /\ force_flush_align /\ flush_align_size \in Nat \ {0}
  /\ \A st \in Statements :
       /\ IsStore(st) =>
            /\ st.addr \in Nat /\ st.size \in Nat \ {0}
            /\ st.stores \in BOOLEAN /\ (st.tag = "Store" => st.stores)
            /\ Parts[st.type] \in Nat
            /\ Parts[st.type] > 0 => st.size = Parts[st.type] * (st.size \div Parts[st.type])
            /\ \A i \in 1 .. Parts[st.type] :
                 LET word == add_event_dw(st)[i].at
                 IN  /\ Contains(Mapped, word) <=> Contains(Mapped, Target(st))
                     /\ Contains(Mapped, word) => word \in Stores
       /\ st.tag = "Flush" => st.addr \in Nat /\ FlushCall(st.addr).at \in Flushes

ExecuteStore(st) ==
  /\ IsStore(st)
  /\ calls' = StoreCalls(st)
  /\ meant' = IF st.stores /\ Contains(Mapped, Target(st))
              THEN [meant EXCEPT !.written = @ \cup Bytes(Target(st))] ELSE meant
  /\ blurred' = IF Exact(st) THEN blurred ELSE blurred \cup Bytes(Target(st))

Fenced(m) == [m EXCEPT !.written_back = {}]

WrittenBack(m, f) ==
  [written |-> m.written \ Bytes(f),
   written_back |-> m.written_back \cup (m.written \cap Bytes(f))]

ExecuteFlush(st) ==
  /\ st.tag = "Flush"
  /\ calls' = IF isa.automatic_isa_rec THEN FlushCalls(st) ELSE << >>
  /\ meant' = LET m == WrittenBack(meant, Line(st.addr))
              IN  IF st.kind = "Ifk_flush" /\ ~isa.weak_clflush THEN Fenced(m) ELSE m
  /\ UNCHANGED blurred

ExecuteBarrier(st) ==
  /\ st.tag = "MBE"
  /\ calls' = IF isa.automatic_isa_rec THEN BarrierCalls(st) ELSE << >>
  /\ meant' = IF st.event \in {"Imbe_Fence", "Imbe_SFence"} THEN Fenced(meant) ELSE meant
  /\ UNCHANGED blurred

Execute(st) ==
  /\ calls = << >>
  /\ ExecuteStore(st) \/ ExecuteFlush(st) \/ ExecuteBarrier(st)
  /\ UNCHANGED <<vars, isa>>

\* A call: trace_pmem_store returns early for a store to other memory.
Call ==
  /\ calls # << >>
  /\ LET call == Head(calls)
     IN  \/ /\ call.helper = "trace_pmem_store"
            /\ IF Contains(Mapped, call.at) THEN trace_pmem_store(call.at) ELSE UNCHANGED vars
         \/ call.helper = "trace_pmem_flush" /\ do_flush(call.at)
         \/ call.helper = "do_fence" /\ do_fence
  /\ calls' = Tail(calls)
  /\ UNCHANGED <<isa, meant, blurred>>

InstrumentNext == Call \/ \E st \in Statements : Execute(st)

InstrumentSpec == InstrumentInit /\ [][InstrumentNext]_allInstrVars
----------------------------------------------------------------------------
(* Properties.                                                             *)

\* Once the calls behind a statement have been made, the tool has the same
\* bytes dirty and flushed as the statements of the program meant, whatever
\* mixture of plain, guarded, atomic and vector stores, write-backs and
\* barriers it executed: with --flush-align a write-back of any address takes
\* exactly its cache line.  The bytes that were stored to by a helper of the
\* core, with a type that is not supported or by a store-conditional that
\* failed are left out.  Without --isa-rec the program has to announce its
\* write-backs and barriers: the instructions alone make no byte persistent.
TraceExact ==
  calls = << >> =>
    IF isa.automatic_isa_rec
    THEN /\ DirtyBytes \ blurred = meant.written \ blurred
         /\ FlushedBytes \ blurred = meant.written_back \ blurred
    ELSE /\ FlushedBytes = {}
         /\ (meant.written \cup meant.written_back) \ blurred \subseteq DirtyBytes
============================================================================
