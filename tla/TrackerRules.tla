---------------------------- MODULE TrackerRules ----------------------------
(* What the proofs about the tracking of stores use of ranges, of sets of  *)
(* numbers and of finite sets.                                             *)
EXTENDS StoreTracker

\* A range that can be stored to, flushed or set clean.
IsRange(r) == r.addr \in Nat /\ r.size \in Nat \ {0} /\ End(r) < NoAddr

\* What the proofs use of finite sets of numbers: their least and greatest
\* elements, their sizes and the ranks of their elements.  It is a conjunct of
\* the inductive invariants; that it holds is proved in Theorems.
NaturalSets ==
  /\ \A P : IsFiniteSet(P) => Cardinality(P) \in Nat
  /\ \A b \in Int : \A S \in SUBSET (0 .. b) :
       /\ IsFiniteSet(S)
       /\ S # {} => /\ Min(S) \in S /\ \A y \in S : Min(S) <= y
                    /\ Max(S) \in S /\ \A y \in S : Max(S) >= y
  /\ \A P \in SUBSET Nat : IsFiniteSet(P) =>
       LET rank(p) == Cardinality({q \in P : q < p})
       IN  /\ \A p \in P : rank(p) \in 0 .. Cardinality(P) - 1
           /\ \A p, m \in P : rank(p) = rank(m) => p = m
           /\ \A j \in 0 .. Cardinality(P) - 1 : \E p \in P : rank(p) = j
           /\ \A S \in SUBSET P : Cardinality(S) <= Cardinality(P)
  /\ \A n \in Nat : Cardinality(1 .. n) = n

\* What the proofs use of finite sets.  It is a conjunct of the inductive
\* invariants; that it holds is proved in Theorems.
FiniteRules ==
  /\ IsFiniteSet({})
  /\ \A S, x : IsFiniteSet(S) => /\ IsFiniteSet(S \cup {x})
                                 /\ x \notin S => Cardinality(S \cup {x}) = Cardinality(S) + 1
  /\ \A S, T : IsFiniteSet(S) /\ IsFiniteSet(T) => IsFiniteSet(S \cup T)
  /\ \A S : IsFiniteSet(S) => \A T \in SUBSET S : IsFiniteSet(T)
  /\ \A f : IsFiniteSet(DOMAIN f) /\ (\A x \in DOMAIN f : IsFiniteSet(f[x]))
            => IsFiniteSet(UNION {f[x] : x \in DOMAIN f})
=============================================================================
