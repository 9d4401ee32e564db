---------------------------- MODULE SumTheorems ----------------------------
(***************************************************************************)
(* Sums of weights over finite sets, as the modules on scheduling take     *)
(* them (MapThenSumSet).  The library's induction theorems are about       *)
(* operators, which the provers cannot instantiate; the induction that     *)
(* sums need is stated and proved here for sets instead, from the fact     *)
(* that every non-empty set of numbers has a least element.                *)
(***************************************************************************)
EXTENDS Integers, FiniteSetsExt, FiniteSetTheorems, WellFoundedInduction, TLAPS

\* Every non-empty set of numbers has a least one.
LEMMA LeastNumber ==
  ASSUME NEW T \in SUBSET Nat, T # {}
  PROVE  \E n \in T : \A m \in T : n <= m
<1>1. PICK n \in T : \A m \in T : ~ (<<m, n>> \in OpToRel(<, Nat))
  BY NatLessThanWellFounded, WFMin, Zenon
<1>2. \A m \in T : ~ (m < n)
  BY <1>1 DEF OpToRel
<1> QED
  BY <1>2

\* Among the subsets of a finite set one can take one from which nothing can be
\* left out.
LEMMA LeastSet ==
  ASSUME NEW S, IsFiniteSet(S), NEW B \in SUBSET (SUBSET S), B # {}
  PROVE  \E s \in B : \A x \in s : s \ {x} \notin B
<1> DEFINE sizes == {Cardinality(s) : s \in B}
<1>1. \A s \in B : IsFiniteSet(s) /\ Cardinality(s) \in Nat
  BY FS_Subset, FS_CardinalityType
<1>2. sizes \in SUBSET Nat /\ sizes # {}
  BY <1>1
<1>3. PICK n \in sizes : \A m \in sizes : n <= m
  BY <1>2, LeastNumber
<1>4. PICK s \in B : Cardinality(s) = n
  BY <1>3
<1>5. ASSUME NEW x \in s, s \ {x} \in B PROVE FALSE
  <2>1. Cardinality(s \ {x}) = Cardinality(s) - 1
    BY <1>1, FS_RemoveElement
  <2> QED
    BY <1>1, <1>3, <1>4, <1>5, <2>1
<1> QED
  BY <1>5

\* Induction over the subsets of a finite set, for a set of subsets.
LEMMA FiniteInduction ==
  ASSUME NEW S, IsFiniteSet(S), NEW G, {} \in G,
         \A A \in SUBSET S : \A x \in S \ A : A \in G => A \cup {x} \in G
  PROVE  S \in G
<1> DEFINE B == {A \in SUBSET S : A \notin G}
<1>1. SUFFICES ASSUME B # {} PROVE FALSE
  OBVIOUS
<1>2. PICK s \in B : \A x \in s : s \ {x} \notin B
  BY <1>1, LeastSet, Zenon
<1>3. PICK x \in s : TRUE
  BY <1>2
<1>4. s \ {x} \in G /\ s \ {x} \in SUBSET S /\ x \in S \ (s \ {x})
  BY <1>2, <1>3
<1>5. (s \ {x}) \cup {x} = s
  BY <1>3
<1> QED
  BY <1>2, <1>4, <1>5

-----------------------------------------------------------------------------
\* g gives each subset of S its sum of the weights w.
Additive(g, w, S) ==
  /\ g \in [SUBSET S -> Int]
  /\ g[{}] = 0
  /\ \A s \in SUBSET S : \A x \in s : g[s] = w[x] + g[s \ {x}]

LEMMA AdditiveExists ==
  ASSUME NEW S, IsFiniteSet(S), NEW w, \A x \in S : w[x] \in Int
  PROVE  \E g : Additive(g, w, S)
<1> DEFINE G == {A \in SUBSET S : \E g : Additive(g, w, A)}
<1>1. {} \in G
  <2>1. Additive([s \in SUBSET {} |-> 0], w, {})
    BY DEF Additive
  <2> QED
    BY <2>1
<1>2. ASSUME NEW A \in SUBSET S, NEW x \in S \ A, A \in G
      PROVE  A \cup {x} \in G
  <2>1. PICK g : Additive(g, w, A)
    BY <1>2
  <2> DEFINE h == [s \in SUBSET (A \cup {x}) |-> IF x \in s THEN w[x] + g[s \ {x}] ELSE g[s]]
  <2>2. \A s \in SUBSET (A \cup {x}) : s \ {x} \in SUBSET A /\ (x \notin s => s \in SUBSET A)
    OBVIOUS
  <2>3. g \in [SUBSET A -> Int] /\ g[{}] = 0 /\ w[x] \in Int
    BY <1>2, <2>1 DEF Additive
  <2>4. h \in [SUBSET (A \cup {x}) -> Int]
    BY <2>2, <2>3
  <2>5. h[{}] = 0
    BY <2>3
  <2>6. ASSUME NEW s \in SUBSET (A \cup {x}), NEW y \in s
        PROVE  h[s] = w[y] + h[s \ {y}]
    <3>1. CASE x \notin s
      <4>1. s \in SUBSET A /\ g[s] = w[y] + g[s \ {y}]
        BY <2>1, <2>2, <3>1 DEF Additive
      <4>2. h[s] = g[s] /\ h[s \ {y}] = g[s \ {y}]
        BY <3>1
      <4> QED
        BY <4>1, <4>2
    <3>2. CASE y = x
      BY <3>2
    <3>3. CASE x \in s /\ y # x
      <4> DEFINE t == s \ {x}
      <4>1. t \in SUBSET A /\ y \in t /\ t \ {y} \in SUBSET A
        BY <2>2, <3>3
      <4>2. g[t] = w[y] + g[t \ {y}] /\ g[t \ {y}] \in Int /\ w[y] \in Int
        BY <2>1, <2>3, <4>1 DEF Additive
      <4>3. h[s] = w[x] + g[t]
        BY <3>3
      <4>4. s \ {y} \in SUBSET (A \cup {x}) /\ x \in s \ {y} /\ (s \ {y}) \ {x} = t \ {y}
        BY <3>3
      <4>5. h[s \ {y}] = w[x] + g[t \ {y}]
        BY <4>4
      <4> HIDE DEF t, h
      <4> QED
        BY <2>3, <4>2, <4>3, <4>5
    <3> QED
      BY <3>1, <3>2, <3>3
  <2>7. Additive(h, w, A \cup {x})
    <3> HIDE DEF h
    <3> QED
      BY <2>4, <2>5, <2>6 DEF Additive
  <2> QED
    BY <1>2, <2>7
<1>3. S \in G
  <2> HIDE DEF G
  <2> QED
    BY <1>1, <1>2, FiniteInduction
<1> QED
  BY <1>3

\* The equation that defines a fold of the community modules, which takes the
\* elements of a set in the order CHOOSE picks them; sums solve it, and nothing else.
Picked(s) == CHOOSE x \in s : TRUE
Folds(g, w, S) ==
  g = [s \in SUBSET S |-> IF s = {} THEN 0 ELSE w[Picked(s)] + g[s \ {Picked(s)}]]

LEMMA FoldIsAdditive ==
  ASSUME NEW S, IsFiniteSet(S), NEW w, NEW g, Additive(g, w, S)
  PROVE  /\ Folds(g, w, S)
         /\ \A f : Folds(f, w, S) => f = g
<1>1. \A s \in SUBSET S : s # {} => Picked(s) \in s
  BY DEF Picked
<1>2. Folds(g, w, S)
  <2>1. \A s \in SUBSET S : g[s] = IF s = {} THEN 0 ELSE w[Picked(s)] + g[s \ {Picked(s)}]
    BY <1>1 DEF Additive
  <2>2. g = [s \in SUBSET S |-> g[s]]
    BY DEF Additive
  <2> QED
    BY <2>1, <2>2 DEF Folds
<1>3. ASSUME NEW f, Folds(f, w, S)
      PROVE  f = g
  <2> DEFINE B == {s \in SUBSET S : f[s] # g[s]}
  <2>1. B = {}
    <3> SUFFICES ASSUME B # {} PROVE FALSE
      OBVIOUS
    <3>1. PICK s \in B : \A x \in s : s \ {x} \notin B
      BY LeastSet, Zenon
    <3>2. s \in SUBSET S /\ f[s] # g[s]
      OBVIOUS
    <3>3. f[s] = IF s = {} THEN 0 ELSE w[Picked(s)] + f[s \ {Picked(s)}]
      BY <1>3, <3>2 DEF Folds
    <3>4. s # {}
      BY <3>2, <3>3 DEF Additive
    <3>5. f[s \ {Picked(s)}] = g[s \ {Picked(s)}]
      BY <1>1, <3>1, <3>2, <3>4
    <3> QED
      BY <1>1, <3>2, <3>3, <3>4, <3>5 DEF Additive
  <2>2. f = [s \in SUBSET S |-> f[s]]
    BY <1>3 DEF Folds
  <2>3. g = [s \in SUBSET S |-> g[s]]
    BY DEF Additive
  <2> QED
    BY <2>1, <2>2, <2>3
<1> QED
  BY <1>2, <1>3

\* The sum of the weights of a set.
Total(w, S) == MapThenSumSet(LAMBDA x : w[x], S)

LEMMA TotalIsFold ==
  ASSUME NEW S, IsFiniteSet(S), NEW w, NEW g, Additive(g, w, S)
  PROVE  Total(w, S) = g[S]
<1>1. Total(w, S) = (CHOOSE f : Folds(f, w, S))[S]
  BY DEF Total, MapThenSumSet, MapThenFoldSet, Folds, Picked
<1>2. Folds(CHOOSE f : Folds(f, w, S), w, S)
  BY FoldIsAdditive
<1> QED
  BY <1>1, <1>2, FoldIsAdditive

\* A sum can be taken from the sums of any set around it.
LEMMA SumsOfParts ==
  ASSUME NEW S, IsFiniteSet(S), NEW w, NEW g, Additive(g, w, S), NEW A \in SUBSET S
  PROVE  Total(w, A) = g[A]
<1> DEFINE h == [s \in SUBSET A |-> g[s]]
<1>1. IsFiniteSet(A)
  BY FS_Subset
<1>2. Additive(h, w, A)
  BY DEF Additive
<1>3. Total(w, A) = h[A]
  <2> HIDE DEF h
  <2> QED
    BY <1>1, <1>2, TotalIsFold
<1> QED
  BY <1>3

LEMMA TotalOfNothing ==
  ASSUME NEW w
  PROVE  Total(w, {}) = 0
<1>1. IsFiniteSet({}) /\ \A x \in {} : w[x] \in Int
  BY FS_EmptySet
<1>2. PICK g : Additive(g, w, {})
  BY <1>1, AdditiveExists
<1> QED
  BY <1>1, <1>2, TotalIsFold DEF Additive

LEMMA TotalWithOneMore ==
  ASSUME NEW S, IsFiniteSet(S), NEW x, x \notin S,
         NEW w, \A y \in S \cup {x} : w[y] \in Int
  PROVE  Total(w, S \cup {x}) = w[x] + Total(w, S)
<1> DEFINE T == S \cup {x}
<1>1. IsFiniteSet(T)
  BY FS_AddElement
<1>2. PICK g : Additive(g, w, T)
  BY <1>1, AdditiveExists
<1>3. g[T] = w[x] + g[T \ {x}] /\ T \ {x} = S
  BY <1>2 DEF Additive
<1>4. Total(w, T) = g[T] /\ Total(w, S) = g[S]
  <2> HIDE DEF T
  <2>1. S \in SUBSET T /\ T \in SUBSET T
    BY DEF T
  <2> QED
    BY <1>1, <1>2, <2>1, SumsOfParts
<1> QED
  BY <1>3, <1>4

LEMMA TotalWithout ==
  ASSUME NEW S, IsFiniteSet(S), NEW x \in S, NEW w, \A y \in S : w[y] \in Int
  PROVE  Total(w, S) = w[x] + Total(w, S \ {x})
<1>1. IsFiniteSet(S \ {x}) /\ (S \ {x}) \cup {x} = S /\ x \notin S \ {x}
  BY FS_Subset
<1> QED
  BY <1>1, TotalWithOneMore

LEMMA TotalIsInt ==
  ASSUME NEW S, IsFiniteSet(S), NEW w, \A y \in S : w[y] \in Int
  PROVE  Total(w, S) \in Int
<1>1. PICK g : Additive(g, w, S)
  BY AdditiveExists
<1>2. g[S] \in Int
  BY <1>1 DEF Additive
<1> QED
  BY <1>1, <1>2, TotalIsFold

\* Sums of numbers grow with the set.
LEMMA TotalGrows ==
  ASSUME NEW S, IsFiniteSet(S), NEW w, \A y \in S : w[y] \in Nat, NEW A \in SUBSET S
  PROVE  Total(w, A) \in Nat /\ Total(w, S) \in Nat /\ Total(w, A) <= Total(w, S)
<1> DEFINE G == {B \in SUBSET S : /\ Total(w, B) \in Nat /\ Total(w, B \cap A) \in Nat
                                 /\ Total(w, B \cap A) <= Total(w, B)}
<1>1. {} \in G
  <2>1. {} \cap A = {}
    OBVIOUS
  <2> QED
    BY <2>1, TotalOfNothing
<1>2. ASSUME NEW B \in SUBSET S, NEW x \in S \ B, B \in G
      PROVE  B \cup {x} \in G
  <2>1. IsFiniteSet(B) /\ IsFiniteSet(B \cap A)
    BY FS_Subset
  <2>2. w[x] \in Nat /\ \A y \in B \cup {x} : w[y] \in Int
    OBVIOUS
  <2> DEFINE n == Total(w, B)
             m == Total(w, B \cap A)
  <2>3. Total(w, B \cup {x}) = w[x] + n
    BY <2>1, <2>2, TotalWithOneMore
  <2>6. n \in Nat /\ m \in Nat /\ m <= n /\ B \cup {x} \in SUBSET S
    BY <1>2
  <2>7. ASSUME NEW k, Total(w, (B \cup {x}) \cap A) = k, k = m \/ k = w[x] + m
        PROVE  B \cup {x} \in G
    <3> HIDE DEF n, m
    <3> QED
      BY <2>2, <2>3, <2>6, <2>7
  <2>4. CASE x \in A
    <3>1. (B \cup {x}) \cap A = (B \cap A) \cup {x} /\ x \notin B \cap A
      BY <2>4
    <3>2. Total(w, (B \cap A) \cup {x}) = w[x] + m
      BY <2>1, <2>2, <3>1, TotalWithOneMore
    <3> QED
      BY <2>7, <3>1, <3>2
  <2>5. CASE x \notin A
    <3>1. (B \cup {x}) \cap A = B \cap A
      BY <2>5
    <3> QED
      BY <2>7, <3>1
  <2> QED
    BY <2>4, <2>5
<1>3. S \in G
  <2> HIDE DEF G
  <2> QED
    BY <1>1, <1>2, FiniteInduction
<1>4. S \cap A = A
  OBVIOUS
<1> QED
  BY <1>3, <1>4

\* Equal weights have equal sums.
LEMMA TotalOfEqual ==
  ASSUME NEW S, IsFiniteSet(S), NEW v, NEW w, \A x \in S : v[x] = w[x] /\ w[x] \in Int
  PROVE  Total(v, S) = Total(w, S)
<1>1. PICK g : Additive(g, w, S)
  BY AdditiveExists
<1>2. Additive(g, v, S)
  BY <1>1 DEF Additive
<1> QED
  BY <1>1, <1>2, TotalIsFold
=============================================================================
