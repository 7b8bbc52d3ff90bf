------------------------------- MODULE Sweep --------------------------------
(***************************************************************************)
(* An OSet and the loop of do_fence that removes stores from it while it   *)
(* iterates: after each removal, which exhausts the iterator, the loop     *)
(* resets it at the key removed (so do remove_region and                   *)
(* handle_with_mult_stores).  A step is one call; between two sweeps the   *)
(* tool inserts, removes and iterates as it likes.                         *)
(***************************************************************************)
EXTENDS OSet

CONSTANT Flushed   \* the sets of keys of which the stores in the tree are flushed

VARIABLES
  at,        \* the next call of the loop: idle, next, remove, reset
  doomed,    \* the nodes in state FLUSHED
  before,    \* history: the keys when the sweep began
  visited    \* history: the keys that the sweep has seen

sweepVars == <<at, doomed, before, visited>>

allVars == <<osetVars, sweepVars>>

SweepInit ==
  OSetInit /\ at = "idle" /\ doomed = {} /\ before = {} /\ visited = {}

Use ==
  /\ at = "idle"
  /\ \/ \E k \in Keys : OSetGen_Insert(k) \/ OSetGen_Remove(k) \/ OSetGen_ResetIterAt(k)
     \/ OSetGen_Next
  /\ UNCHANGED sweepVars

Begin ==
  /\ at = "idle"
  /\ doomed' \in {S \cap Elems : S \in Flushed}
  /\ OSetGen_ResetIter
  /\ at' = "next" /\ before' = Elems /\ visited' = {}

\* Mutant of LoopNext: the iterator is reset for the stores that stay, too.
LoopNextResets ==
  /\ at = "next"
  /\ OSetGen_Next
  /\ at' = IF result' = NULL THEN "idle" ELSE IF result' \in doomed THEN "remove" ELSE "reset"
  /\ IF result' = NULL
     THEN doomed' = {} /\ before' = {} /\ visited' = {}
     ELSE visited' = visited \cup {result'} /\ UNCHANGED <<doomed, before>>

\* The head of the loop, and its body for a store that stays.
LoopNext ==
  /\ at = "next"
  /\ OSetGen_Next
  /\ at' = IF result' = NULL THEN "idle" ELSE IF result' \in doomed THEN "remove" ELSE "next"
  /\ IF result' = NULL
     THEN doomed' = {} /\ before' = {} /\ visited' = {}
     ELSE visited' = visited \cup {result'} /\ UNCHANGED <<doomed, before>>

LoopRemove ==
  /\ at = "remove"
  /\ OSetGen_Remove(result)
  /\ at' = "reset"
  /\ UNCHANGED <<doomed, before, visited>>

\* Mutant of LoopReset: the loop starts again.
LoopResetFirst ==
  /\ at = "reset"
  /\ OSetGen_ResetIter
  /\ at' = "next"
  /\ UNCHANGED <<doomed, before, visited>>

LoopReset ==
  /\ at = "reset"
  /\ OSetGen_ResetIterAt(result)
  /\ at' = "next"
  /\ UNCHANGED <<doomed, before, visited>>

LoopStep == LoopNext \/ LoopRemove \/ LoopReset

SweepNext == Use \/ Begin \/ LoopStep

\* The loop is sequential code that nothing interrupts.
SweepSpec == SweepInit /\ [][SweepNext]_allVars /\ WF_allVars(LoopStep)
----------------------------------------------------------------------------
(* Properties.                                                             *)

\* do_fence sees every store of the tree exactly once, in order, though it
\* removes some of them under the iterator; when the loop ends it has seen
\* them all and those that were flushed are gone.
SweepExact ==
  [][LoopNext =>
       IF result' # NULL THEN \A k \in visited : k < result'
       ELSE visited = before /\ Elems = before \ doomed]_allVars

\* The loop of do_fence ends.
SweepEnds == (at # "idle") ~> (at = "idle")
============================================================================
