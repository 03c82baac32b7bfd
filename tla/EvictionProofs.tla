--------------------------- MODULE EvictionProofs ---------------------------
(***************************************************************************)
(* What evictOldest does to a store, for any items and any share of them    *)
(* evicted at once.  The proofs about both stores rest on it.               *)
(***************************************************************************)
EXTENDS Eviction, FiniteSetTheorems, TLAPS

\* evictOldest removes at least one item, and no more than there are
\* (memory_log_store.go:300-307).
LEMMA RemoveCountRange ==
    ASSUME NEW n \in Nat
    PROVE  /\ RemoveCount(n) \in 0..n
           /\ n > 0 => RemoveCount(n) > 0
<1>1. n \div EvictDivisor \in Int
  BY EvictDivisorAssumption
<1> DEFINE quotient == n \div EvictDivisor
<1>2. quotient \in Int
  BY <1>1
<1>3. RemoveCount(n) = LET share == IF quotient < 1 THEN 1 ELSE quotient
                       IN  IF share > n THEN n ELSE share
  BY DEF RemoveCount
<1> HIDE DEF quotient
<1> QED
  BY <1>2, <1>3

\* Room is made: what is left of a store within its bound, together with one
\* new item, is within the bound.
LEMMA RoomForOne ==
    ASSUME NEW S, IsFiniteSet(S), NEW gone \in SUBSET S, NEW x, NEW st,
           NEW capacity \in Int, NEW limit \in Nat,
           limit = IF capacity < 1 THEN 1 ELSE capacity,
           Cardinality(S) <= limit,
           MakesRoom(gone, S, st, capacity)
    PROVE  /\ IsFiniteSet((S \ gone) \cup {x})
           /\ Cardinality((S \ gone) \cup {x}) <= limit
<1>1. /\ IsFiniteSet(S \ gone)
      /\ Cardinality(S) \in Nat
      /\ Cardinality(S \ gone) \in Nat
      /\ Cardinality(S \ gone) = Cardinality(S) - Cardinality(gone)
  <2>1. IsFiniteSet(gone) /\ S \cap gone = gone
    BY FS_Subset
  <2> QED
    BY <2>1, FS_Difference, FS_CardinalityType
<1>2. /\ IsFiniteSet((S \ gone) \cup {x})
      /\ Cardinality((S \ gone) \cup {x}) \in {Cardinality(S \ gone), Cardinality(S \ gone) + 1}
  <2> DEFINE kept == S \ gone
  <2>1. IsFiniteSet(kept)
    BY <1>1
  <2> HIDE DEF kept
  <2>2. /\ IsFiniteSet(kept \cup {x})
        /\ Cardinality(kept \cup {x}) = IF x \in kept THEN Cardinality(kept) ELSE Cardinality(kept) + 1
    BY <2>1, FS_AddElement
  <2> QED
    BY <2>2 DEF kept
<1>3. CASE Cardinality(S) >= capacity
  <2>1. Cardinality(gone) = RemoveCount(Cardinality(S))
    BY <1>3 DEF MakesRoom, IsEviction
  <2>2. /\ RemoveCount(Cardinality(S)) \in 0..Cardinality(S)
        /\ Cardinality(S) > 0 => RemoveCount(Cardinality(S)) > 0
    BY <1>1, RemoveCountRange
  <2>3. Cardinality(S \ gone) + 1 <= limit
    BY <1>1, <2>1, <2>2
  <2> QED
    BY <1>1, <1>2, <2>3
<1>4. CASE Cardinality(S) < capacity
  <2>1. gone = {}
    BY <1>1, <1>4 DEF MakesRoom
  <2>2. Cardinality(S \ gone) = Cardinality(S)
    <3>1. S \ gone = S
      BY <2>1
    <3> QED
      BY <3>1
  <2>3. limit = capacity
    BY <1>1, <1>4
  <2>4. Cardinality(S \ gone) + 1 <= limit
    BY <1>1, <1>4, <2>2, <2>3
  <2> QED
    BY <1>1, <1>2, <2>4
<1> QED
  BY <1>1, <1>3, <1>4

=============================================================================
