------------------------------ MODULE SetFacts -------------------------------
(***************************************************************************)
(* What the proofs use of finite sets and of the order of the naturals.    *)
(* The lemmas of a proof module that count take SetFacts as a hypothesis;  *)
(* the module proves it from the library once, before its theorems.        *)
(***************************************************************************)
EXTENDS Integers, FiniteSets

FinCard == \A S : IsFiniteSet(S) => Cardinality(S) \in Nat
FinEmpty ==
  /\ IsFiniteSet({}) /\ Cardinality({}) = 0
  /\ \A S : IsFiniteSet(S) => (Cardinality(S) = 0 <=> S = {})
FinSingle ==
  /\ \A x : IsFiniteSet({x}) /\ Cardinality({x}) = 1
  /\ \A S : IsFiniteSet(S) => (Cardinality(S) = 1 <=> \E x : S = {x})
FinAdd ==
  \A S, x : IsFiniteSet(S) =>
    /\ IsFiniteSet(S \cup {x})
    /\ Cardinality(S \cup {x}) = IF x \in S THEN Cardinality(S) ELSE Cardinality(S) + 1
FinRemove ==
  \A S, x : IsFiniteSet(S) =>
    /\ IsFiniteSet(S \ {x})
    /\ Cardinality(S \ {x}) = IF x \in S THEN Cardinality(S) - 1 ELSE Cardinality(S)
FinSubset ==
  \A S : \A T \in SUBSET S : IsFiniteSet(S) => IsFiniteSet(T) /\ Cardinality(T) <= Cardinality(S)
FinUnion ==
  \A S, T : IsFiniteSet(S) /\ IsFiniteSet(T) =>
    /\ IsFiniteSet(S \cup T)
    /\ Cardinality(S \cup T) = Cardinality(S) + Cardinality(T) - Cardinality(S \cap T)
FinProduct == \A S, T : IsFiniteSet(S) /\ IsFiniteSet(T) => IsFiniteSet(S \X T)
FinInterval == \A a, b \in Int : IsFiniteSet(a .. b)
FinImage ==
  \A S, T, h : /\ IsFiniteSet(S) /\ h \in [S -> T]
               /\ \A c, d \in S : h[c] = h[d] => c = d
               /\ \A y \in T : \E d \in S : h[d] = y
               => Cardinality(T) = Cardinality(S)
NatLeast == \A S \in SUBSET Nat : S # {} => \E m \in S : \A y \in S : m <= y

SetFacts ==
  /\ FinCard /\ FinEmpty /\ FinSingle /\ FinAdd /\ FinRemove /\ FinSubset /\ FinUnion
  /\ FinProduct /\ FinInterval /\ FinImage /\ NatLeast
=============================================================================
