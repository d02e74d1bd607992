------------------------------ MODULE OrderFacts ------------------------------
(***************************************************************************)
(* Facts about finite sets of natural numbers that the proofs about queues *)
(* and probe cycles rest on: least and greatest elements, and the element  *)
(* that has a given number of others below it.                             *)
(***************************************************************************)
EXTENDS Naturals, FiniteSets, FunctionTheorems, FiniteSetTheorems, WellFoundedInduction, TLAPS

\* Every set of naturals has a least element: what takes the place of an induction.
LEMMA Least ==
    ASSUME NEW T, T \subseteq Nat, T # {}
    PROVE  \E x \in T : \A y \in T : x <= y
  <1>1. PICK x \in T : \A y \in T : ~ (<<y, x>> \in OpToRel(<, Nat))
    BY NatLessThanWellFounded, WFMin
  <1>2. \A y \in T : ~ (y < x)
    BY <1>1 DEF OpToRel
  <1> QED
    BY <1>2

\* A set of naturals with an upper bound has a greatest element: the least of its bounds.
LEMMA Greatest ==
    ASSUME NEW T, T \subseteq Nat, T # {}, NEW b \in Nat, \A x \in T : x <= b
    PROVE  \E x \in T : \A y \in T : y <= x
  <1> DEFINE U == {u \in Nat : \A y \in T : y <= u}
  <1>1. PICK u \in U : \A v \in U : u <= v
    <2>1. b \in U /\ U \subseteq Nat
      OBVIOUS
    <2> HIDE DEF U
    <2> QED
      BY <2>1, Least
  <1>2. u \in T
    <2>1. SUFFICES ASSUME u \notin T PROVE FALSE
      OBVIOUS
    <2>2. PICK t \in T : TRUE
      OBVIOUS
    <2>3. t < u /\ u \in Nat /\ t \in Nat
      BY <2>1, <2>2
    <2>4. ASSUME NEW y \in T PROVE y <= u - 1
      BY <2>1, <2>3
    <2>5. u - 1 \in U
      BY <2>3, <2>4
    <2> QED
      BY <2>3, <2>5, <1>1
  <1> QED
    BY <1>1, <1>2

\* Of a bounded set of naturals, some element has exactly k others below it, for every k less
\* than its size.
LEMMA NthExists ==
    ASSUME NEW W, W \subseteq Nat, NEW b \in Nat, \A x \in W : x <= b,
           NEW k \in Nat, k < Cardinality(W)
    PROVE  \E i \in W : Cardinality({j \in W : j < i}) = k
  <1> DEFINE Below(i) == {j \in W : j < i}
             T == {i \in W : Cardinality(Below(i)) >= k}
  <1>1. IsFiniteSet(W) /\ Cardinality(W) \in Nat
    BY FS_BoundedSetOfNaturals, FS_CardinalityType
  <1>2. ASSUME NEW i \in W
        PROVE  IsFiniteSet(Below(i)) /\ Cardinality(Below(i)) \in Nat
    BY <1>1, FS_Subset, FS_CardinalityType
  <1>3. T # {}
    <2>1. W # {}
      BY <1>1, FS_EmptySet
    <2>2. PICK m \in W : \A y \in W : y <= m
      BY <2>1, Greatest
    <2>3. Below(m) = W \ {m}
      <3>1. \A y \in W : y < m <=> y # m
        BY <2>2
      <3> QED
        BY <3>1
    <2>4. Cardinality(W \ {m}) = Cardinality(W) - 1
      BY <1>1, FS_RemoveElement
    <2>5. Cardinality(Below(m)) >= k
      BY <2>3, <2>4, <1>1
    <2> QED
      BY <2>5
  <1>4. PICK i \in T : \A y \in T : i <= y
    <2>1. T \subseteq Nat
      OBVIOUS
    <2> HIDE DEF T
    <2> QED
      BY <1>3, <2>1, Least
  <1>5. Cardinality(Below(i)) = k
    <2>1. SUFFICES ASSUME Cardinality(Below(i)) > k PROVE FALSE
      BY <1>2, <1>4
    <2>2. Below(i) # {}
      BY <2>1, FS_EmptySet
    <2>3. PICK p \in Below(i) : \A y \in Below(i) : y <= p
      <3>1. Below(i) \subseteq Nat /\ \A x \in Below(i) : x <= b
        BY <1>4
      <3> HIDE DEF Below
      <3> QED
        BY <2>2, <3>1, Greatest
    <2>4. Below(p) = Below(i) \ {p}
      <3>1. i \in Nat /\ p \in Nat /\ p < i
        BY <1>4, <2>3
      <3>2. \A y \in W : y < p <=> y < i /\ y # p
        BY <2>3, <3>1
      <3> QED
        BY <3>2
    <2>5. Cardinality(Below(i) \ {p}) = Cardinality(Below(i)) - 1
      BY <1>2, <1>4, <2>3, FS_RemoveElement
    <2>6. Cardinality(Below(p)) >= k
      BY <2>4, <2>5, <2>1, <1>2, <1>4
    <2>7. p \in T /\ p < i
      BY <2>6, <2>3
    <2> QED
      BY <2>7, <1>4
  <1> QED
    BY <1>4, <1>5

\* The same counted from above: some element has exactly k others above it.
LEMMA NthFromTop ==
    ASSUME NEW W, W \subseteq Nat, NEW b \in Nat, \A x \in W : x <= b,
           NEW k \in Nat, k < Cardinality(W)
    PROVE  \E i \in W : Cardinality({j \in W : j > i}) = k
  <1>1. IsFiniteSet(W) /\ Cardinality(W) \in Nat
    BY FS_BoundedSetOfNaturals, FS_CardinalityType
  <1> DEFINE m == Cardinality(W) - 1 - k
  <1>2. m \in Nat /\ m < Cardinality(W)
    BY <1>1
  <1> HIDE DEF m
  <1>3. PICK i \in W : Cardinality({j \in W : j < i}) = m
    BY <1>2, NthExists
  <1> DEFINE L == {j \in W : j < i}
             U == {j \in W : j > i}
  <1>4. /\ IsFiniteSet(L) /\ IsFiniteSet(U) /\ L \cap U = {} /\ L \cup U = W \ {i}
        /\ Cardinality(U) \in Nat
    <2>1. L \subseteq W /\ U \subseteq W
      OBVIOUS
    <2>2. \A j \in W : ~(j < i /\ j > i) /\ (j # i <=> j < i \/ j > i)
      OBVIOUS
    <2>3. L \cap U = {} /\ L \cup U = W \ {i}
      BY <2>2
    <2> HIDE DEF L, U
    <2> QED
      BY <2>1, <2>3, <1>1, FS_Subset, FS_CardinalityType
  <1>5. Cardinality(L) = m
    BY <1>3
  <1> HIDE DEF L, U
  <1>6. Cardinality(L \cup U) = Cardinality(L) + Cardinality(U)
    <2>1. Cardinality(L \cap U) = 0 /\ Cardinality(L) \in Nat
      BY <1>2, <1>4, <1>5, FS_EmptySet
    <2> QED
      BY <2>1, <1>4, FS_Union
  <1>7. Cardinality(W \ {i}) = Cardinality(W) - 1
    BY <1>1, FS_RemoveElement
  <1>8. Cardinality(U) = k
    BY <1>1, <1>4, <1>5, <1>6, <1>7 DEF m
  <1> QED
    BY <1>8 DEF U

\* Finitely many naturals have an upper bound: an unbounded set of the least size would have an
\* unbounded part.
LEMMA FiniteBound ==
    ASSUME NEW S, S \subseteq Nat, IsFiniteSet(S)
    PROVE  \E b \in Nat : \A x \in S : x <= b
  <1> DEFINE Bounded(T) == \E b \in Nat : \A x \in T : x <= b
             N == {Cardinality(T) : T \in {U \in SUBSET S : ~Bounded(U)}}
  <1>1. SUFFICES ASSUME ~Bounded(S) PROVE FALSE
    OBVIOUS
  <1>2. \A T \in SUBSET S : IsFiniteSet(T) /\ Cardinality(T) \in Nat
    BY FS_Subset, FS_CardinalityType
  <1>3. Cardinality(S) \in N
    BY <1>1
  <1>4. N \subseteq Nat
    BY <1>2
  <1>5. PICK n \in N : \A m \in N : n <= m
    <2> HIDE DEF N
    <2> QED
      BY <1>3, <1>4, Least
  <1>6. PICK T \in SUBSET S : ~Bounded(T) /\ Cardinality(T) = n
    BY <1>5
  <1>7. T # {}
    BY <1>6
  <1>8. PICK x \in T : TRUE
    BY <1>7
  <1>9. IsFiniteSet(T) /\ n \in Nat
    BY <1>2, <1>6
  <1>10. Cardinality(T \ {x}) = n - 1
    BY <1>6, <1>8, <1>9, FS_RemoveElement
  <1>11. Bounded(T \ {x})
    <2>1. SUFFICES ASSUME ~Bounded(T \ {x}) PROVE FALSE
      OBVIOUS
    <2>2. T \ {x} \in SUBSET S
      OBVIOUS
    <2>3. Cardinality(T \ {x}) \in N
      BY <2>1, <2>2
    <2> HIDE DEF N, Bounded
    <2> QED
      BY <2>3, <1>5, <1>9, <1>10
  <1>12. PICK b \in Nat : \A y \in T \ {x} : y <= b
    BY <1>11
  <1>13. x \in Nat /\ b + x \in Nat /\ \A y \in T : y \in Nat /\ y <= b + x
    BY <1>8, <1>12
  <1> QED
    BY <1>6, <1>13

\* The values of a function on a finite set are finitely many.
LEMMA ImageFinite ==
    ASSUME NEW S, IsFiniteSet(S), NEW f
    PROVE  IsFiniteSet({f[x] : x \in S})
  <1> DEFINE T == {f[x] : x \in S}
             g == [x \in S |-> f[x]]
  <1>1. g \in Surjection(S, T)
    BY DEF Surjection
  <1> HIDE DEF g, T
  <1>2. IsFiniteSet(T)
    BY <1>1, FS_Surjection
  <1> QED
    BY <1>2 DEF T

\* A part of a finite set that misses one of its elements is smaller.
LEMMA SmallerPart ==
    ASSUME NEW S, IsFiniteSet(S), NEW T, T \subseteq S, NEW x \in S, x \notin T
    PROVE  Cardinality(T) < Cardinality(S) /\ Cardinality(T) \in Nat /\ Cardinality(S) \in Nat
  <1>1. IsFiniteSet(T) /\ Cardinality(T) <= Cardinality(S) /\ Cardinality(T) # Cardinality(S)
    BY FS_Subset
  <1>2. Cardinality(T) \in Nat /\ Cardinality(S) \in Nat
    BY <1>1, FS_CardinalityType
  <1> QED
    BY <1>1, <1>2
=============================================================================
