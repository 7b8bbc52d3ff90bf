-------------------------------- MODULE OSet --------------------------------
(***************************************************************************)
(* The ordered sets of the Valgrind core (m_oset.c), in which the tool     *)
(* keeps mappings, stores, transactions and order records: AVL trees with  *)
(* balance factors, and an iterator with an explicit stack.  A node is     *)
(* named by its key.  What the code writes for the left and for the right  *)
(* side is written once here, for a side d and its opposite.               *)
(***************************************************************************)
EXTENDS Integers, Sequences, FiniteSets

CONSTANTS Keys, STACK_MAX

NULL == 0

ASSUME OSetAssumption == Keys \subseteq Nat \ {NULL} /\ STACK_MAX \in Nat

VARIABLES
  heap,     \* left, right and balance of every node
  root,
  nElems,
  stack,    \* nodeStack and numStack up to stackTop, as pairs
  result    \* what the last call returned

osetVars == <<heap, root, nElems, stack, result>>

ZeroHeap == [left    |-> [k \in Keys |-> NULL],
             right   |-> [k \in Keys |-> NULL],
             balance |-> [k \in Keys |-> 0]]

\* OSetGen_Create.
OSetInit ==
  /\ heap = ZeroHeap /\ root = NULL /\ nElems = 0
  /\ stack = << >> /\ result = NULL

Opposite == [left |-> "right", right |-> "left"]

\* The balance of a node whose subtree on side d is the deeper one.
Sign == [left |-> -1, right |-> 1]

\* cmp_key_root: the side of t on which key k belongs.
Side(k, t) == IF k < t THEN "left" ELSE "right"
----------------------------------------------------------------------------
(* Rotations: each returns the heap and the root of the subtree.           *)

\* avl_swl for d = "left", avl_swr for d = "right": the root of the subtree at
\* a becomes its child on the other side.
Swing(h, a, d) ==
  LET o == Opposite[d]
      b == h[o][a]
  IN  [h EXCEPT ![o][a] = h[d][b], ![d][b] = a]

\* Mutant of avl_nasty: both children are taken to be level.
avl_nastyLevel(h, r) ==
  [h EXCEPT !.balance[h.left[r]] = 0, !.balance[h.right[r]] = 0, !.balance[r] = 0]

avl_nasty(h, r) ==
  [h EXCEPT !.balance[h.left[r]]  = IF h.balance[r] = 1 THEN -1 ELSE 0,
            !.balance[h.right[r]] = IF h.balance[r] = -1 THEN 1 ELSE 0,
            !.balance[r] = 0]

\* Swing away from the deeper side d; both nodes are level then.
SingleSwing(h, t, d) ==
  LET c == h[d][t]
  IN  [heap |-> [Swing(h, t, Opposite[d]) EXCEPT !.balance[c] = 0, !.balance[t] = 0],
       root |-> c]

\* Two swings, when the child leans the other way.
DoubleSwing(h, t, d) ==
  LET c == h[d][t]
      m == h[Opposite[d]][c]
      g == [Swing(h, c, d) EXCEPT ![d][t] = m]
  IN  [heap |-> avl_nasty(Swing(g, t, Opposite[d]), m), root |-> m]
----------------------------------------------------------------------------
\* avl_insert, into the non-empty subtree at t.  When the subtree below has
\* grown it has not been rotated and its root is not linked again.
RECURSIVE avl_insert(_, _, _)
avl_insert(h, t, n) ==
  LET d == Side(n, t)
      s == Sign[d]
      leaf == h[d][t] = NULL
      sub == IF leaf THEN [heap |-> [h EXCEPT ![d][t] = n], root |-> n, grown |-> TRUE]
             ELSE avl_insert(h, h[d][t], n)
      c == sub.heap[d][t]
      swung == IF sub.heap.balance[c] = s THEN SingleSwing(sub.heap, t, d)
               ELSE DoubleSwing(sub.heap, t, d)
  IN  IF ~sub.grown
      THEN [heap |-> [sub.heap EXCEPT ![d][t] = sub.root], root |-> t, grown |-> FALSE]
      ELSE IF leaf \/ h.balance[t] # s
      THEN [heap |-> [sub.heap EXCEPT !.balance[t] = @ + s], root |-> t,
            grown |-> h.balance[t] = 0]
      ELSE [heap |-> swung.heap, root |-> swung.root, grown |-> FALSE]

\* A subtree has lost height on the side opposite to d, the deeper one.
AfterShrink(h, t, d) ==
  LET c == h[d][t]
      s == Sign[d]
      level == [Swing(h, t, Opposite[d]) EXCEPT !.balance[c] = -s, !.balance[t] = s]
      swung == IF h.balance[c] = s THEN SingleSwing(h, t, d) ELSE DoubleSwing(h, t, d)
  IN  IF h.balance[c] = 0
      THEN [heap |-> level, root |-> c, shrunk |-> FALSE]
      ELSE [heap |-> swung.heap, root |-> swung.root, shrunk |-> TRUE]

RECURSIVE Outermost(_, _, _)
Outermost(h, t, d) == IF h[d][t] = NULL THEN t ELSE Outermost(h, h[d][t], d)

\* avl_remove, with avl_removeroot for the node itself: it is replaced by its
\* neighbour in the deeper subtree, which is removed from there first.
RECURSIVE avl_remove(_, _, _)
avl_remove(h, t, n) ==
  LET d == Side(n, t)
      s == Sign[d]
      sub == avl_remove(h, h[d][t], n)
      g == [sub.heap EXCEPT ![d][t] = sub.root]
      deeper == IF h.balance[t] < 0 THEN "left" ELSE "right"
      m == Outermost(h, h[deeper][t], Opposite[deeper])
      rem == avl_remove(h, t, m)
  IN  IF n = t
      THEN IF h.left[t] = NULL THEN [heap |-> h, root |-> h.right[t], shrunk |-> TRUE]
           ELSE IF h.right[t] = NULL THEN [heap |-> h, root |-> h.left[t], shrunk |-> TRUE]
           ELSE [heap |-> [rem.heap EXCEPT !.left[m] = rem.heap.left[rem.root],
                                           !.right[m] = rem.heap.right[rem.root],
                                           !.balance[m] = rem.heap.balance[rem.root]],
                 root |-> m,
                 shrunk |-> rem.heap.balance[rem.root] = 0 /\ rem.shrunk]
      ELSE IF ~sub.shrunk THEN [heap |-> g, root |-> t, shrunk |-> FALSE]
      ELSE IF h.balance[t] # -s
      THEN [heap |-> [g EXCEPT !.balance[t] = @ - s], root |-> t, shrunk |-> h.balance[t] = s]
      ELSE AfterShrink(g, t, Opposite[d])

RECURSIVE avl_lookup(_, _, _)
avl_lookup(h, t, k) ==
  IF t = NULL \/ k = t THEN t ELSE avl_lookup(h, h[Side(k, t)][t], k)
----------------------------------------------------------------------------
(* The operations.                                                         *)

Lookup(k) == avl_lookup(heap, root, k)

\* OSetGen_Insert; a duplicate stops the tool.
OSetGen_Insert(k) ==
  LET h == [heap EXCEPT !.left[k] = NULL, !.right[k] = NULL, !.balance[k] = 0]
      ins == IF root = NULL THEN [heap |-> h, root |-> k] ELSE avl_insert(h, root, k)
  IN  /\ Lookup(k) = NULL
      /\ heap' = ins.heap /\ root' = ins.root
      /\ nElems' = nElems + 1
      /\ stack' = << >>
      /\ result' = NULL

\* OSetGen_Remove, and OSetGen_FreeNode as the tool calls it then: nothing of
\* the node is read any more.
OSetGen_Remove(k) ==
  IF Lookup(k) = NULL
  THEN result' = NULL /\ UNCHANGED <<heap, root, nElems, stack>>
  ELSE LET rem == avl_remove(heap, root, k)
       IN  /\ heap' = [rem.heap EXCEPT !.left[k] = NULL, !.right[k] = NULL, !.balance[k] = 0]
           /\ root' = rem.root
           /\ nElems' = nElems - 1
           /\ stack' = << >>
           /\ result' = k

OSetGen_ResetIter ==
  /\ stack' = IF root = NULL THEN << >> ELSE <<<<root, 1>>>>
  /\ result' = NULL
  /\ UNCHANGED <<heap, root, nElems>>

\* case_1 of OSetGen_Next: push nodes on the way to the leftmost one.
RECURSIVE PushLeft(_, _)
PushLeft(t, s) ==
  LET pushed == Append(s, <<t, 2>>)
  IN  IF heap.left[t] = NULL THEN pushed ELSE PushLeft(heap.left[t], pushed)

\* The loop of OSetGen_Next: the element found, and the stack left.
RECURSIVE Popped(_)
Popped(s) ==
  IF s = << >> THEN [stack |-> s, elem |-> NULL]
  ELSE LET n == s[Len(s)][1]
           i == s[Len(s)][2]
           below == SubSeq(s, 1, Len(s) - 1)
       IN  IF i = 2 THEN [stack |-> Append(below, <<n, 3>>), elem |-> n]
           ELSE IF i = 1 THEN Popped(PushLeft(n, below))
           ELSE IF heap.right[n] # NULL THEN Popped(PushLeft(heap.right[n], below))
           ELSE Popped(below)

OSetGen_Next ==
  /\ stack' = Popped(stack).stack /\ result' = Popped(stack).elem
  /\ UNCHANGED <<heap, root, nElems>>

\* Mutant of Path: a node is pushed on the way to the right, too.
RECURSIVE PathAll(_, _, _)
PathAll(h, t, k) ==
  IF t = NULL THEN << >>
  ELSE IF k = t THEN <<<<t, 2>>>>
  ELSE <<<<t, 2>>>> \o PathAll(h, h[Side(k, t)][t], k)

\* The search of OSetGen_ResetIterAt: the nodes it pushes.
RECURSIVE Path(_, _, _)
Path(h, t, k) ==
  IF t = NULL THEN << >>
  ELSE IF k = t THEN <<<<t, 2>>>>
  ELSE (IF k < t THEN <<<<t, 2>>>> ELSE << >>) \o Path(h, h[Side(k, t)][t], k)

\* Mutant of OSetGen_ResetIterAt: the stack is not cleared.
OSetGen_ResetIterAtTop(k) ==
  stack' = stack \o Path(heap, root, k) /\ result' = NULL /\ UNCHANGED <<heap, root, nElems>>

OSetGen_ResetIterAt(k) ==
  stack' = Path(heap, root, k) /\ result' = NULL /\ UNCHANGED <<heap, root, nElems>>
----------------------------------------------------------------------------
(* Properties of an OSet.                                                  *)

RECURSIVE Subtree(_)
Subtree(t) ==
  IF t = NULL THEN {} ELSE {t} \cup Subtree(heap.left[t]) \cup Subtree(heap.right[t])

RECURSIVE Height(_)
Height(t) ==
  IF t = NULL THEN 0
  ELSE LET l == Height(heap.left[t])
           r == Height(heap.right[t])
       IN  1 + (IF l > r THEN l ELSE r)

Elems == Subtree(root)

\* The keys that the entries on the stack stand for.
Rest ==
  UNION {LET n == stack[j][1]
         IN  (IF stack[j][2] = 1 THEN Subtree(heap.left[n]) ELSE {})
             \cup (IF stack[j][2] = 3 THEN {} ELSE {n})
             \cup Subtree(heap.right[n]) : j \in DOMAIN stack}

\* After any sequence of insertions and removals, with all the rotations
\* they cause, the tree is a search tree, every balance is the difference of
\* the heights of the subtrees and is at most one, nElems counts the nodes, and
\* a lookup, with which the tool tests mappings, stores and transactions, finds
\* the keys that are in the tree and no others.
OSetShape ==
  /\ \A t \in Elems :
       /\ \A k \in Subtree(heap.left[t]) : k < t
       /\ \A k \in Subtree(heap.right[t]) : k > t
       /\ heap.balance[t] = Height(heap.right[t]) - Height(heap.left[t])
       /\ heap.balance[t] \in -1 .. 1
  /\ nElems = Cardinality(Elems)
  /\ LET E == Elems IN \A k \in Keys : Lookup(k) = IF k \in E THEN k ELSE NULL

\* stackPush never finds the iterator's stack full: it holds one node for each
\* level of the tree at most, and the tree is not deeper than it is to be.
StackFits == Len(stack) <= Height(root) /\ Len(stack) <= STACK_MAX

\* The tree and its iterator do what an ordered set does.
Abstract == INSTANCE OrderedSet WITH elems <- Elems, rest <- Rest

\* The AVL tree with its explicit stack implements the ordered set.
ImplementsOrderedSet == Abstract!OrderedSetSpec
============================================================================
