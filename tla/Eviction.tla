------------------------------ MODULE Eviction ------------------------------
(***************************************************************************)
(* evictOldest, the same in MemoryLogStore and in MemoryAlertStore: how     *)
(* many of the stored items go, and which.  The code sorts the items of a   *)
(* map, so which of several equally old items go is arbitrary.              *)
(***************************************************************************)
EXTENDS Integers, FiniteSets

CONSTANT EvictDivisor   \* one item in EvictDivisor goes; 10 in the code

ASSUME EvictDivisorAssumption == EvictDivisor \in Nat \ {0}

RemoveCount(n) ==
    LET share == IF n \div EvictDivisor < 1 THEN 1 ELSE n \div EvictDivisor
    IN  IF share > n THEN n ELSE share

\* No item of V is newer than an item of S that is not in V.
Oldest(V, S, stamp) == \A v \in V, k \in S \ V : stamp[v] <= stamp[k]

\* evictOldest may remove V from the items S.
IsEviction(V, S, stamp) ==
    /\ V \subseteq S
    /\ Cardinality(V) = RemoveCount(Cardinality(S))
    /\ Oldest(V, S, stamp)

\* What Store and Record remove before they insert.
MakesRoom(V, S, stamp, capacity) ==
    IF Cardinality(S) >= capacity THEN IsEviction(V, S, stamp) ELSE V = {}

=============================================================================
