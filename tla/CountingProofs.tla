--------------------------- MODULE CountingProofs ---------------------------
(***************************************************************************)
(* What the sums and counts of the model amount to, for any finite sets.    *)
(* To the prover a recursive function is a CHOOSE of the function that      *)
(* satisfies its equation: a minimal counterexample takes the place of an   *)
(* induction over sets.                                                     *)
(***************************************************************************)
EXTENDS Functions, FiniteSetTheorems, TLAPS

\* Every non-empty set of subsets of a finite set has a minimal element.
LEMMA MinimalSubset ==
    ASSUME NEW S, IsFiniteSet(S), NEW bad \in SUBSET SUBSET S, bad # {}
    PROVE  \E T \in bad : \A U \in SUBSET T : U # T => U \notin bad
<1>1. IsWellFoundedOn(StrictSubsetOrdering(S), SUBSET S)
  <2>1. FiniteSubsetsOf(S) = SUBSET S
    BY FS_FiniteSubsetsOfFinite
  <2>2. IsWellFoundedOn(StrictSubsetOrdering(S), FiniteSubsetsOf(S))
    BY FS_StrictSubsetOrderingWellFounded
  <2> QED
    BY <2>1, <2>2
<1>2. PICK T \in bad : \A U \in bad : <<U, T>> \notin StrictSubsetOrdering(S)
  BY <1>1, WFMin
<1> QED
  BY <1>2 DEF StrictSubsetOrdering

\* The equation SumFunctionOnSet is defined by: the sum over T starts from 0 and
\* takes an arbitrary element first.
Chosen(T) == CHOOSE x \in T : TRUE

SumEquation(h, f, S) ==
    h = [T \in SUBSET S |-> IF T = {} THEN 0 ELSE f[Chosen(T)] + h[T \ {Chosen(T)}]]

LEMMA SumUnfolds ==
    ASSUME NEW f, NEW S
    PROVE  SumFunctionOnSet(f, S) = (CHOOSE iter : SumEquation(iter, f, S))[S]
BY DEF SumFunctionOnSet, FoldFunctionOnSet, MapThenFoldSet, SumEquation, Chosen

LEMMA ChosenIsElement == \A T : T # {} => Chosen(T) \in T
BY DEF Chosen

LEMMA SumUnique ==
    ASSUME NEW S, IsFiniteSet(S), NEW f, NEW h, NEW k,
           SumEquation(h, f, S), SumEquation(k, f, S)
    PROVE  \A T \in SUBSET S : h[T] = k[T]
<1> DEFINE bad == {T \in SUBSET S : h[T] # k[T]}
<1> SUFFICES ASSUME bad # {} PROVE FALSE
  OBVIOUS
<1>1. PICK T \in bad : \A U \in SUBSET T : U # T => U \notin bad
  <2>1. bad \in SUBSET SUBSET S
    OBVIOUS
  <2> HIDE DEF bad
  <2> QED
    BY <2>1, MinimalSubset
<1>2. /\ h[T] = IF T = {} THEN 0 ELSE f[Chosen(T)] + h[T \ {Chosen(T)}]
      /\ k[T] = IF T = {} THEN 0 ELSE f[Chosen(T)] + k[T \ {Chosen(T)}]
  BY DEF SumEquation
<1>3. T # {} => h[T \ {Chosen(T)}] = k[T \ {Chosen(T)}]
  BY <1>1, ChosenIsElement
<1> QED
  BY <1>2, <1>3

\* A function on the subsets of S that starts from 0 and grows by f[x] when x is
\* added.
AddsUp(g, f, S) ==
    /\ g = [T \in SUBSET S |-> g[T]]
    /\ g[{}] = 0
    /\ \A T \in SUBSET S : \A x \in T : g[T] = f[x] + g[T \ {x}]

\* The sum over S is what such a function gives S.
LEMMA SumIs ==
    ASSUME NEW S, IsFiniteSet(S), NEW f, NEW g, AddsUp(g, f, S)
    PROVE  SumFunctionOnSet(f, S) = g[S]
<1>1. SumEquation(g, f, S)
  <2> DEFINE rhs(T) == IF T = {} THEN 0 ELSE f[Chosen(T)] + g[T \ {Chosen(T)}]
  <2>1. \A T \in SUBSET S : g[T] = rhs(T)
    BY ChosenIsElement DEF AddsUp
  <2>2. [T \in SUBSET S |-> g[T]] = [T \in SUBSET S |-> rhs(T)]
    BY <2>1
  <2> QED
    BY <2>2 DEF SumEquation, AddsUp
<1> DEFINE h == CHOOSE iter : SumEquation(iter, f, S)
<1>2. SumEquation(h, f, S)
  BY <1>1
<1> HIDE DEF h
<1>3. h[S] = g[S]
  BY <1>1, <1>2, SumUnique
<1> QED
  BY <1>3, SumUnfolds DEF h

\* What satisfies the equation on S satisfies it on every part of S.
LEMMA SumRestricted ==
    ASSUME NEW S, NEW f, NEW h, SumEquation(h, f, S), NEW T \in SUBSET S
    PROVE  SumEquation([U \in SUBSET T |-> h[U]], f, T)
<1> DEFINE g == [U \in SUBSET T |-> h[U]]
<1>1. \A U \in SUBSET T : g[U] = IF U = {} THEN 0 ELSE f[Chosen(U)] + g[U \ {Chosen(U)}]
  <2> SUFFICES ASSUME NEW U \in SUBSET T
               PROVE  h[U] = IF U = {} THEN 0 ELSE f[Chosen(U)] + g[U \ {Chosen(U)}]
    OBVIOUS
  <2>1. U \in SUBSET S /\ U \ {Chosen(U)} \in SUBSET T
    OBVIOUS
  <2>2. h[U] = IF U = {} THEN 0 ELSE f[Chosen(U)] + h[U \ {Chosen(U)}]
    BY <2>1 DEF SumEquation
  <2> QED
    BY <2>1, <2>2
<1>2. g = [U \in SUBSET T |-> g[U]]
  OBVIOUS
<1> HIDE DEF g
<1> QED
  BY <1>1, <1>2 DEF SumEquation, g

LEMMA SumOfPart ==
    ASSUME NEW S, IsFiniteSet(S), NEW f, NEW h, SumEquation(h, f, S), NEW T \in SUBSET S
    PROVE  SumFunctionOnSet(f, T) = h[T]
<1> DEFINE g == [U \in SUBSET T |-> h[U]]
<1> DEFINE k == CHOOSE iter : SumEquation(iter, f, T)
<1>1. SumEquation(g, f, T)
  BY SumRestricted
<1>2. SumEquation(k, f, T)
  BY <1>1
<1>3. IsFiniteSet(T)
  BY FS_Subset
<1>4. g[T] = h[T]
  OBVIOUS
<1> HIDE DEF g, k
<1>5. k[T] = g[T]
  BY <1>1, <1>2, <1>3, SumUnique
<1> QED
  BY <1>4, <1>5, SumUnfolds DEF k

\* The recursion ends: on a finite set the equation has a solution.
LEMMA SumExists ==
    ASSUME NEW S, IsFiniteSet(S), NEW f
    PROVE  \E h : SumEquation(h, f, S)
<1> DEFINE bad == {T \in SUBSET S : ~\E h : SumEquation(h, f, T)}
<1> SUFFICES bad = {}
  OBVIOUS
<1> SUFFICES ASSUME bad # {} PROVE FALSE
  OBVIOUS
<1>1. PICK T \in bad : \A U \in SUBSET T : U # T => U \notin bad
  <2>1. bad \in SUBSET SUBSET S
    OBVIOUS
  <2> HIDE DEF bad
  <2> QED
    BY <2>1, MinimalSubset
<1> DEFINE sum(U) == SumFunctionOnSet(f, U)
<1>2. ASSUME NEW U \in SUBSET T, U # T
      PROVE  sum(U) = IF U = {} THEN 0 ELSE f[Chosen(U)] + sum(U \ {Chosen(U)})
  <2>1. PICK h : SumEquation(h, f, U)
    BY <1>1, <1>2
  <2>2. IsFiniteSet(U)
    BY FS_Subset, T \in SUBSET S
  <2>3. sum(U) = h[U] /\ sum(U \ {Chosen(U)}) = h[U \ {Chosen(U)}]
    BY <2>1, <2>2, SumOfPart
  <2>4. h[U] = IF U = {} THEN 0 ELSE f[Chosen(U)] + h[U \ {Chosen(U)}]
    BY <2>1 DEF SumEquation
  <2> QED
    BY <2>3, <2>4
<1> DEFINE g == [U \in SUBSET T |-> IF U = {} THEN 0 ELSE f[Chosen(U)] + sum(U \ {Chosen(U)})]
<1>3. \A U \in SUBSET T : U # {} => g[U \ {Chosen(U)}] = sum(U \ {Chosen(U)})
  <2> SUFFICES ASSUME NEW U \in SUBSET T, U # {}
               PROVE  g[U \ {Chosen(U)}] = sum(U \ {Chosen(U)})
    OBVIOUS
  <2> DEFINE V == U \ {Chosen(U)}
  <2>1. V \in SUBSET T /\ V # T
    BY ChosenIsElement
  <2>2. sum(V) = IF V = {} THEN 0 ELSE f[Chosen(V)] + sum(V \ {Chosen(V)})
    BY <1>2, <2>1
  <2>3. g[V] = IF V = {} THEN 0 ELSE f[Chosen(V)] + sum(V \ {Chosen(V)})
    BY <2>1
  <2> QED
    BY <2>2, <2>3
<1>4. [U \in SUBSET T |-> IF U = {} THEN 0 ELSE f[Chosen(U)] + sum(U \ {Chosen(U)})]
      = [U \in SUBSET T |-> IF U = {} THEN 0 ELSE f[Chosen(U)] + g[U \ {Chosen(U)}]]
  <2> HIDE DEF g, sum
  <2> QED
    BY <1>3
<1>5. SumEquation(g, f, T)
  <2> SUFFICES g = [U \in SUBSET T |-> IF U = {} THEN 0 ELSE f[Chosen(U)] + g[U \ {Chosen(U)}]]
    BY DEF SumEquation
  <2> QED
    BY <1>4
<1> QED
  BY <1>5

\* The sum over a finite set: 0 of nothing, and any element may be taken first.
LEMMA SumRecurrence ==
    ASSUME NEW S, IsFiniteSet(S), NEW f, \A x \in S : f[x] \in Int
    PROVE  /\ SumFunctionOnSet(f, {}) = 0
           /\ \A T \in SUBSET S :
                 /\ SumFunctionOnSet(f, T) \in Int
                 /\ \A x \in T : SumFunctionOnSet(f, T) = f[x] + SumFunctionOnSet(f, T \ {x})
<1>1. PICK h : SumEquation(h, f, S)
  BY SumExists
<1>2. \A T \in SUBSET S : SumFunctionOnSet(f, T) = h[T]
  BY <1>1, SumOfPart
<1>3. \A T \in SUBSET S : h[T] = IF T = {} THEN 0 ELSE f[Chosen(T)] + h[T \ {Chosen(T)}]
  BY <1>1 DEF SumEquation
<1>4. \A T \in SUBSET S : h[T] \in Int
  <2> DEFINE bad == {T \in SUBSET S : h[T] \notin Int}
  <2> SUFFICES ASSUME bad # {} PROVE FALSE
    OBVIOUS
  <2>1. PICK T \in bad : \A U \in SUBSET T : U # T => U \notin bad
    <3>1. bad \in SUBSET SUBSET S
      OBVIOUS
    <3> HIDE DEF bad
    <3> QED
      BY <3>1, MinimalSubset
  <2>2. T # {} => Chosen(T) \in S /\ h[T \ {Chosen(T)}] \in Int
    BY <2>1, ChosenIsElement
  <2>3. h[T] = IF T = {} THEN 0 ELSE f[Chosen(T)] + h[T \ {Chosen(T)}]
    BY <1>3
  <2>4. h[T] \in Int
    <3>1. CASE T = {}
      BY <2>3, <3>1
    <3>2. CASE T # {}
      BY <2>2, <2>3, <3>2
    <3> QED
      BY <3>1, <3>2
  <2> QED
    BY <2>4
<1>5. \A T \in SUBSET S : \A x \in T : h[T] = f[x] + h[T \ {x}]
  <2> DEFINE bad == {T \in SUBSET S : \E x \in T : h[T] # f[x] + h[T \ {x}]}
  <2> SUFFICES ASSUME bad # {} PROVE FALSE
    OBVIOUS
  <2>1. PICK T \in bad : \A U \in SUBSET T : U # T => U \notin bad
    <3>1. bad \in SUBSET SUBSET S
      OBVIOUS
    <3> HIDE DEF bad
    <3> QED
      BY <3>1, MinimalSubset
  <2>2. PICK x \in T : h[T] # f[x] + h[T \ {x}]
    OBVIOUS
  <2> DEFINE c == Chosen(T)
  <2>3. c \in T
    BY ChosenIsElement
  <2>4. h[T] = f[c] + h[T \ {c}]
    BY <1>3, <2>3
  <2>5. c # x
    BY <2>2, <2>4
  <2> HIDE DEF c
  <2>6. h[T \ {c}] = f[x] + h[(T \ {c}) \ {x}]
    BY <2>1, <2>3, <2>5
  <2>7. h[T \ {x}] = f[c] + h[(T \ {x}) \ {c}]
    BY <2>1, <2>3, <2>5
  <2>8. (T \ {c}) \ {x} = (T \ {x}) \ {c}
    OBVIOUS
  <2>9. f[x] \in Int /\ f[c] \in Int /\ h[(T \ {c}) \ {x}] \in Int
    BY <1>4, <2>3
  <2> DEFINE rest == h[(T \ {c}) \ {x}]
  <2>10. h[T \ {c}] = f[x] + rest /\ h[T \ {x}] = f[c] + rest /\ rest \in Int
    BY <2>6, <2>7, <2>8, <2>9
  <2> HIDE DEF rest
  <2>11. h[T] = f[x] + h[T \ {x}]
    BY <2>4, <2>9, <2>10
  <2> QED
    BY <2>2, <2>11
<1> QED
  BY <1>2, <1>3, <1>4, <1>5

\* One summand changes: so does the sum, by as much.
LEMMA SumChanges ==
    ASSUME NEW S, IsFiniteSet(S), NEW x \in S, NEW d \in Int, NEW f, NEW f2,
           \A y \in S : f[y] \in Int,
           \A y \in S \ {x} : f2[y] = f[y],
           f2[x] = f[x] + d
    PROVE  SumFunctionOnSet(f2, S) = SumFunctionOnSet(f, S) + d
<1> DEFINE sum(T) == SumFunctionOnSet(f, T)
<1>1. /\ sum({}) = 0
      /\ \A T \in SUBSET S : sum(T) \in Int /\ \A y \in T : sum(T) = f[y] + sum(T \ {y})
  BY SumRecurrence
<1> HIDE DEF sum
<1> DEFINE g == [T \in SUBSET S |-> sum(T) + (IF x \in T THEN d ELSE 0)]
<1>2. g = [T \in SUBSET S |-> g[T]]
  OBVIOUS
<1>3. g[{}] = 0
  BY <1>1
<1>4. ASSUME NEW T \in SUBSET S, NEW y \in T PROVE g[T] = f2[y] + g[T \ {y}]
  <2>1. T \ {y} \in SUBSET S
    OBVIOUS
  <2>2. sum(T) = f[y] + sum(T \ {y}) /\ sum(T \ {y}) \in Int /\ f[y] \in Int
    BY <1>1, <2>1
  <2>3. f2[y] = IF y = x THEN f[y] + d ELSE f[y]
    OBVIOUS
  <2>4. CASE y = x
    BY <2>1, <2>2, <2>3, <2>4
  <2>5. CASE y # x
    BY <2>1, <2>2, <2>3, <2>5
  <2> QED
    BY <2>4, <2>5
<1>5. g[S] = sum(S) + d
  OBVIOUS
<1>6. AddsUp(g, f2, S)
  BY <1>2, <1>3, <1>4 DEF AddsUp
<1> HIDE DEF g
<1>7. SumFunctionOnSet(f2, S) = g[S]
  BY <1>6, SumIs
<1> QED
  BY <1>5, <1>7 DEF sum

LEMMA SumOfZeros ==
    ASSUME NEW S, IsFiniteSet(S), NEW f, \A x \in S : f[x] = 0
    PROVE  SumFunctionOnSet(f, S) = 0
<1> DEFINE g == [T \in SUBSET S |-> 0]
<1>1. AddsUp(g, f, S) /\ g[S] = 0
  BY DEF AddsUp
<1> HIDE DEF g
<1> QED
  BY <1>1, SumIs
\* What is in two sets that have nothing in common is counted by each of them.
LEMMA CountedApart ==
    ASSUME NEW A, IsFiniteSet(A), NEW B, IsFiniteSet(B), A \cap B = {}
    PROVE  /\ Cardinality(A \cup B) = Cardinality(A) + Cardinality(B)
           /\ Cardinality(A) \in Nat /\ Cardinality(B) \in Nat
           /\ IsFiniteSet(A \cup B)
<1>1. Cardinality(A) \in Nat /\ Cardinality(B) \in Nat
  BY FS_CardinalityType
<1>2. Cardinality(A \cap B) = 0
  BY FS_EmptySet
<1>3. /\ Cardinality(A \cup B) = Cardinality(A) + Cardinality(B) - Cardinality(A \cap B)
      /\ IsFiniteSet(A \cup B)
  BY FS_Union
<1> QED
  BY <1>1, <1>2, <1>3

LEMMA ImageIsFinite ==
    ASSUME NEW S, IsFiniteSet(S), NEW key
    PROVE  IsFiniteSet({key[e] : e \in S})
<1> DEFINE image == {key[e] : e \in S}
           onto == [e \in S |-> key[e]]
<1>1. onto \in Surjection(S, image)
  BY DEF Surjection
<1> HIDE DEF onto, image
<1>2. IsFiniteSet(image)
  BY <1>1, FS_Surjection
<1> QED
  BY <1>2 DEF image

\* f has for each key of K how many elements of R have it.
CountsKeys(f, R, key, K) == \A k \in K : f[k] = Cardinality({e \in R : key[e] = k})

\* Counting the elements of each key, and adding up, counts the elements.
LEMMA PartitionSum ==
    ASSUME NEW R, IsFiniteSet(R), NEW K, IsFiniteSet(K), NEW key, NEW f,
           CountsKeys(f, R, key, K)
    PROVE  SumFunctionOnSet(f, K) = Cardinality({e \in R : key[e] \in K})
<1> DEFINE part(T) == {e \in R : key[e] \in T}
           g == [T \in SUBSET K |-> Cardinality(part(T))]
<1>1. g[{}] = 0
  BY FS_EmptySet, part({}) = {}
<1>2. ASSUME NEW T \in SUBSET K, NEW k \in T PROVE g[T] = f[k] + g[T \ {k}]
  <2> DEFINE ofk == {e \in R : key[e] = k}
  <2>1. part(T) = ofk \cup part(T \ {k}) /\ ofk \cap part(T \ {k}) = {}
    OBVIOUS
  <2>2. IsFiniteSet(ofk) /\ IsFiniteSet(part(T \ {k}))
    BY FS_Subset
  <2>3. f[k] = Cardinality(ofk) /\ g[T] = Cardinality(part(T))
        /\ g[T \ {k}] = Cardinality(part(T \ {k}))
    BY T \ {k} \in SUBSET K DEF CountsKeys
  <2> HIDE DEF ofk, part, g
  <2>4. Cardinality(part(T)) = Cardinality(ofk) + Cardinality(part(T \ {k}))
    BY <2>1, <2>2, CountedApart
  <2> QED
    BY <2>3, <2>4
<1>3. AddsUp(g, f, K)
  BY <1>1, <1>2 DEF AddsUp
<1>4. g[K] = Cardinality(part(K))
  OBVIOUS
<1> HIDE DEF g
<1> QED
  BY <1>3, <1>4, SumIs
=============================================================================
