--------------------------- MODULE LogStoreProofs ---------------------------
(***************************************************************************)
(* Proofs about LogStore and LogPaging, for any set of entries, any         *)
(* capacity, any share of entries evicted at once and any length of a page. *)
(***************************************************************************)
EXTENDS LogPaging, EvictionProofs, SequenceTheorems

-----------------------------------------------------------------------------
\* Every entry of the store is one of a finite set.
LEMMA PresentFinite ==
    ASSUME TypeOK
    PROVE  /\ IsFiniteSet(present)
           /\ Cardinality(present) \in Nat
<1>1. present \in SUBSET Ids
  BY DEF TypeOK
<1>2. IsFiniteSet(present)
  BY <1>1, StoreAssumption, FS_Subset
<1> QED
  BY <1>2, FS_CardinalityType

\* The head of a batch is an entry whose identity is fresh and not in its tail.
LEMMA BatchHead ==
    ASSUME TypeOK, ~Unlocked
    PROVE  /\ Head(batch) \in Entry
           /\ IsFresh(Head(batch).id)
           /\ Tail(batch) \in Seq(Entry)
           /\ \A i \in DOMAIN Tail(batch) :
                 /\ Tail(batch)[i] = batch[i + 1]
                 /\ i + 1 \in DOMAIN batch
                 /\ batch[i + 1].id # Head(batch).id
<1>1. batch \in Seq(Entry) /\ batch # <<>>
  BY DEF TypeOK, Unlocked
<1>2. /\ Head(batch) = batch[1]
      /\ 1 \in DOMAIN batch
      /\ batch[1] \in Entry
      /\ Tail(batch) \in Seq(Entry)
      /\ DOMAIN batch = 1..Len(batch)
      /\ Len(batch) \in Nat
  BY <1>1
<1>3. \A i \in DOMAIN Tail(batch) :
        Tail(batch)[i] = batch[i + 1] /\ i + 1 \in DOMAIN batch /\ i + 1 # 1
  BY <1>1, <1>2
<1> QED
  BY <1>2, <1>3 DEF TypeOK

\* TypeOK holds in every state of LogStore: what a batch inserts later is still
\* fresh then, whatever happens before it takes the lock.
THEOREM TypeCorrect == Spec => []TypeOK
<1>1. Init => TypeOK
  BY StoreAssumption DEF Init, TypeOK, IdleReader, Reader, Times, IsFresh
<1>2. TypeOK /\ [Next]_vars => TypeOK'
  <2> SUFFICES ASSUME TypeOK, [Next]_vars PROVE TypeOK'
    OBVIOUS
  <2>1. ASSUME NEW e \in Entry, Store(e) PROVE TypeOK'
    <3>1. present' \subseteq present \cup {e.id} /\ e.id \in Ids /\ e.ts \in Times
      BY <2>1 DEF Store, Insert, Entry
    <3>2. stamp' = [stamp EXCEPT ![e.id] = e.ts] /\ batch' = <<>> /\ reader' = reader
      BY <2>1 DEF Store, Insert, Unlocked
    <3> QED
      BY <3>1, <3>2, StoreAssumption DEF TypeOK, IsFresh, Times
  <2>2. ASSUME NEW b \in Batches, BatchBegin(b) PROVE TypeOK'
    <3>1. b \in Seq(Entry)
      BY DEF Batches
    <3> QED
      BY <2>2, <3>1 DEF TypeOK, BatchBegin, IsFresh
  <2>3. CASE BatchPut
    <3> DEFINE e == Head(batch)
    <3>1. ~Unlocked /\ batch' = Tail(batch) /\ reader' = reader
          /\ stamp' = [stamp EXCEPT ![e.id] = e.ts]
          /\ present' \subseteq present \cup {e.id}
      BY <2>3 DEF BatchPut, Insert
    <3>2. /\ e \in Entry
          /\ Tail(batch) \in Seq(Entry)
          /\ \A i \in DOMAIN Tail(batch) :
                 /\ Tail(batch)[i] = batch[i + 1]
                 /\ i + 1 \in DOMAIN batch
                 /\ batch[i + 1].id # e.id
      BY <3>1, BatchHead
    <3>3. e.id \in Ids /\ e.ts \in Times
      BY <3>2 DEF Entry
    <3> HIDE DEF e
    <3>4. /\ present' \subseteq Ids
          /\ stamp' \in [Ids -> Times \cup {NoStamp}]
          /\ \A id \in present' : stamp'[id] # NoStamp
      BY <3>1, <3>3, StoreAssumption DEF TypeOK, IsFresh, Times
    <3>5. \A i \in DOMAIN batch' : stamp'[batch'[i].id] = NoStamp
      <4> SUFFICES ASSUME NEW i \in DOMAIN Tail(batch)
                   PROVE  stamp'[Tail(batch)[i].id] = NoStamp
        BY <3>1
      <4>1. /\ stamp[batch[i + 1].id] = NoStamp
            /\ batch[i + 1].id # e.id
            /\ Tail(batch)[i] = batch[i + 1]
        BY <3>2 DEF TypeOK, IsFresh
      <4>2. batch[i + 1] \in Entry
        BY <3>2 DEF TypeOK
      <4>3. batch[i + 1].id \in Ids
        BY <4>2 DEF Entry
      <4> QED
        BY <3>1, <4>1, <4>3 DEF TypeOK
    <3>6. \A i, j \in DOMAIN batch' : batch'[i].id = batch'[j].id => i = j
      <4> SUFFICES ASSUME NEW i \in DOMAIN Tail(batch), NEW j \in DOMAIN Tail(batch),
                          Tail(batch)[i].id = Tail(batch)[j].id
                   PROVE  i = j
        BY <3>1
      <4>1. i + 1 = j + 1
        BY <3>2 DEF TypeOK
      <4>2. i \in Int /\ j \in Int
        BY <3>2
      <4> QED
        BY <4>1, <4>2
    <3> QED
      BY <3>1, <3>2, <3>4, <3>5, <3>6 DEF TypeOK, IsFresh
  <2>4. ASSUME NEW id \in Ids, Delete(id) PROVE TypeOK'
    BY <2>4 DEF TypeOK, Delete, IsFresh
  <2>5. ASSUME NEW before \in Times, DeleteExpired(before) PROVE TypeOK'
    BY <2>5 DEF TypeOK, DeleteExpired, IsFresh
  <2>6. CASE Close
    BY <2>6 DEF TypeOK, Close, IsFresh
  <2>7. ASSUME NEW q \in Readers, NEW from \in Times, QueryCount(q, from) PROVE TypeOK'
    <3>1. Matching(from) \in SUBSET present
      BY DEF Matching
    <3>2. Cardinality(Matching(from)) \in Nat
      BY <3>1, PresentFinite, FS_Subset, FS_CardinalityType
    <3>3. reader' \in [Readers -> Reader]
      BY <2>7, <3>2 DEF TypeOK, QueryCount, Reader
    <3> QED
      BY <2>7, <3>3 DEF TypeOK, QueryCount, IsFresh
  <2>8. ASSUME NEW q \in Readers, NEW limit \in Limits, NEW offset \in Offsets,
               QueryPage(q, limit, offset)
        PROVE  TypeOK'
    <3>1. PICK P \in SUBSET Matching(reader[q].from) :
             reader' = [reader EXCEPT ![q] = [@ EXCEPT !.pc = "idle", !.page = P]]
      BY <2>8 DEF QueryPage
    <3>2. P \in SUBSET Ids
      BY DEF Matching, TypeOK
    <3>3. [reader[q] EXCEPT !.pc = "idle", !.page = P] \in Reader
      BY <3>2 DEF TypeOK, Reader
    <3>4. reader' \in [Readers -> Reader]
      BY <3>1, <3>3 DEF TypeOK
    <3> QED
      BY <2>8, <3>4 DEF TypeOK, QueryPage, IsFresh
  <2>9. CASE UNCHANGED vars
    BY <2>9 DEF TypeOK, vars, IsFresh
  <2> QED
    BY <2>1, <2>2, <2>3, <2>4, <2>5, <2>6, <2>7, <2>8, <2>9 DEF Next
<1> QED
  BY <1>1, <1>2, PTL DEF Spec

-----------------------------------------------------------------------------
\* Insert keeps the store within its bound.
LEMMA InsertBounded ==
    ASSUME TypeOK, CapacityBound, NEW e, Insert(e)
    PROVE  CapacityBound'
<1> DEFINE limit == IF MaxSize < 1 THEN 1 ELSE MaxSize
<1>1. limit \in Nat
  BY StoreAssumption
<1>2. IsFiniteSet(present) /\ Cardinality(present) <= limit
  BY PresentFinite DEF CapacityBound
<1>3. PICK gone \in SUBSET present :
         /\ MakesRoom(gone, present, stamp, MaxSize)
         /\ present' = (present \ gone) \cup {e.id}
  BY DEF Insert
<1>4. MaxSize \in Int /\ limit = IF MaxSize < 1 THEN 1 ELSE MaxSize
  BY StoreAssumption
<1> HIDE DEF limit
<1>5. /\ MaxSize \in Int /\ limit \in Nat /\ limit = IF MaxSize < 1 THEN 1 ELSE MaxSize
      /\ gone \in SUBSET present
      /\ IsFiniteSet(present) /\ Cardinality(present) <= limit
      /\ MakesRoom(gone, present, stamp, MaxSize)
  BY <1>1, <1>2, <1>3, <1>4
<1>6. Cardinality((present \ gone) \cup {e.id}) <= limit
  BY <1>5, RoomForOne
<1>7. Cardinality(present') <= limit
  BY <1>3, <1>6
<1> QED
  BY <1>4, <1>7 DEF CapacityBound

\* Taking entries away keeps the store within its bound.
LEMMA SubsetBounded ==
    ASSUME TypeOK, CapacityBound, present' \in SUBSET present
    PROVE  CapacityBound'
<1>1. /\ Cardinality(present') <= Cardinality(present)
      /\ Cardinality(present) \in Nat
      /\ Cardinality(present') \in Nat
  BY PresentFinite, FS_Subset, FS_CardinalityType
<1> QED
  BY <1>1, StoreAssumption DEF CapacityBound

\* The store never holds more than MaxSize entries, a single one if MaxSize is 0.
THEOREM Bounded == Spec => []CapacityBound
<1>1. Init => CapacityBound
  <2>1. Cardinality({}) = 0
    BY FS_EmptySet
  <2> QED
    BY <2>1, StoreAssumption DEF Init, CapacityBound
<1>2. TypeOK /\ CapacityBound /\ [Next]_vars => CapacityBound'
  <2> SUFFICES ASSUME TypeOK, CapacityBound, [Next]_vars PROVE CapacityBound'
    OBVIOUS
  <2>1. ASSUME NEW e, Insert(e) PROVE CapacityBound'
    BY <2>1, InsertBounded
  <2>2. ASSUME present' \in SUBSET present PROVE CapacityBound'
    BY <2>2, SubsetBounded
  <2>3. ASSUME NEW e \in Entry, Store(e) PROVE CapacityBound'
    BY <2>1, <2>3 DEF Store
  <2>4. CASE BatchPut
    BY <2>1, <2>4 DEF BatchPut
  <2>5. CASE \/ \E b \in Batches : BatchBegin(b)
             \/ \E id \in Ids : Delete(id)
             \/ \E before \in Times : DeleteExpired(before)
             \/ Close
             \/ \E q \in Readers :
                   \/ \E from \in Times : QueryCount(q, from)
                   \/ \E limit \in Limits, offset \in Offsets : QueryPage(q, limit, offset)
             \/ UNCHANGED vars
    BY <2>2, <2>5 DEF BatchBegin, Delete, DeleteExpired, Close, QueryCount, QueryPage, vars
  <2> QED
    BY <2>3, <2>4, <2>5 DEF Next
<1> QED
  BY <1>1, <1>2, TypeCorrect, PTL DEF Spec

-----------------------------------------------------------------------------
\* The contract counts as LogStore does.
LEMMA SameCardinality == \A S : Contract!Cardinality(S) = Cardinality(S)
BY DEF Contract!Cardinality, Cardinality

\* An insertion is a Put of the contract: it evicts only when the store is
\* full, only the oldest, and never the entry it inserts.
LEMMA InsertIsPut ==
    ASSUME TypeOK, CapacityBound', NEW e \in Entry, IsFresh(e.id), Insert(e)
    PROVE  Contract!Put(e.id, e.ts)
<1>1. PICK gone \in SUBSET present :
         /\ MakesRoom(gone, present, stamp, MaxSize)
         /\ present' = (present \ gone) \cup {e.id}
  BY DEF Insert
<1>2. /\ gone = {} \/ Cardinality(present) >= MaxSize
      /\ \A v \in gone, k \in present \ gone : stamp[v] <= stamp[k]
  BY <1>1 DEF MakesRoom, IsEviction, Oldest
<1>3. stamp' = [stamp EXCEPT ![e.id] = e.ts]
  BY DEF Insert
<1> QED
  BY <1>1, <1>2, <1>3, SameCardinality DEF Contract!Put, Contract!Limit, CapacityBound, IsFresh

\* LogStore implements the contract of a bounded store, with StoreBatch as a
\* series of Puts and the queries as stuttering.
THEOREM Refines == Spec => RefinesBoundedStore
<1>1. Init => Contract!StoreInit
  BY DEF Init, Contract!StoreInit
<1>2. TypeOK /\ CapacityBound' /\ [Next]_vars
        => [Contract!StoreNext]_(Contract!storeVars)
  <2> SUFFICES ASSUME TypeOK, CapacityBound', [Next]_vars
               PROVE  Contract!StoreNext \/ UNCHANGED <<present, stamp>>
    BY DEF Contract!storeVars
  <2>1. ASSUME NEW e \in Entry, IsFresh(e.id), Insert(e) PROVE Contract!StoreNext
    <3>1. e.id \in Ids /\ e.ts \in Times
      BY DEF Entry
    <3>2. Contract!Put(e.id, e.ts)
      BY <2>1, InsertIsPut
    <3> QED
      BY <3>1, <3>2 DEF Contract!StoreNext
  <2>2. ASSUME NEW e \in Entry, Store(e) PROVE Contract!StoreNext
    BY <2>1, <2>2 DEF Store
  <2>3. CASE BatchPut
    <3>1. Head(batch) \in Entry /\ IsFresh(Head(batch).id) /\ Insert(Head(batch))
      BY <2>3, BatchHead DEF BatchPut
    <3> QED
      BY <2>1, <3>1
  <2>4. ASSUME present' \in SUBSET present, UNCHANGED stamp PROVE Contract!StoreNext
    BY <2>4 DEF Contract!StoreNext, Contract!Discard
  <2>5. CASE \/ \E id \in Ids : Delete(id)
             \/ \E before \in Times : DeleteExpired(before)
             \/ Close
    BY <2>4, <2>5 DEF Delete, DeleteExpired, Close
  <2>6. CASE \/ \E b \in Batches : BatchBegin(b)
             \/ \E q \in Readers :
                   \/ \E from \in Times : QueryCount(q, from)
                   \/ \E limit \in Limits, offset \in Offsets : QueryPage(q, limit, offset)
             \/ UNCHANGED vars
    BY <2>6 DEF BatchBegin, QueryCount, QueryPage, vars
  <2> QED
    BY <2>2, <2>3, <2>5, <2>6 DEF Next
<1>3. Spec => [](TypeOK /\ CapacityBound)
  BY TypeCorrect, Bounded, PTL
<1> QED
  BY <1>1, <1>2, <1>3, PTL DEF Spec, RefinesBoundedStore, Contract!StoreSpec

-----------------------------------------------------------------------------
(* LogPaging.                                                              *)

\* S is what the first pages of M have, up to the k-th entry.
FirstEntries(S, M, k) ==
    /\ S \subseteq M
    /\ Cardinality(S) = IF k > Cardinality(M) THEN Cardinality(M) ELSE k
    /\ Oldest(M \ S, M, stamp)

\* If the k-th entry and the next one have different timestamps, it makes no
\* difference which of the orders a query puts its entries in.
LEMMA FirstEntriesAgree ==
    ASSUME NEW M, IsFiniteSet(M), \A x \in M : stamp[x] \in Int, NEW k \in Nat,
           Separated(M, k), NEW S, FirstEntries(S, M, k), NEW T, FirstEntries(T, M, k)
    PROVE  S = T
<1>1. S \subseteq M /\ T \subseteq M /\ Cardinality(M) \in Nat
  BY FS_CardinalityType DEF FirstEntries
<1>2. ASSUME k >= Cardinality(M), NEW V, FirstEntries(V, M, k) PROVE V = M
  <2>1. V \subseteq M /\ Cardinality(V) = Cardinality(M)
    BY <1>1, <1>2 DEF FirstEntries
  <2> QED BY <2>1, FS_Subset
<1>3. CASE k >= Cardinality(M)
  BY <1>2, <1>3
<1>4. CASE k < Cardinality(M)
  <2>1. PICK e \in M : Cardinality({x \in M : stamp[x] >= stamp[e]}) = k
    BY <1>1, <1>4 DEF Separated
  <2> DEFINE U == {x \in M : stamp[x] >= stamp[e]}
  <2>2. IsFiniteSet(U) /\ U \subseteq M /\ Cardinality(U) = k
    BY <2>1, FS_Subset
  <2>3. ASSUME NEW V, FirstEntries(V, M, k) PROVE V = U
    <3>1. V \subseteq M /\ Cardinality(V) = k /\ Oldest(M \ V, M, stamp)
      BY <1>1, <1>4, <2>3 DEF FirstEntries
    <3>2. IsFiniteSet(V)
      BY <3>1, FS_Subset
    <3>3. CASE V \subseteq U
      BY <2>2, <3>1, <3>3, FS_Subset
    <3>4. CASE U \subseteq V
      BY <2>2, <3>1, <3>2, <3>4, FS_Subset
    <3>5. ASSUME NEW y \in V \ U, NEW x \in U \ V PROVE FALSE
      <4>1. stamp[y] < stamp[e] /\ stamp[e] <= stamp[x]
        BY <3>1, <3>5
      <4>2. x \in M \ V /\ y \in M \ (M \ V)
        BY <3>1, <3>5
      <4>3. stamp[x] <= stamp[y]
        BY <3>1, <4>2 DEF Oldest
      <4> QED BY <3>1, <3>5, <4>1, <4>3
    <3> QED BY <3>3, <3>4, <3>5
  <2> QED BY <2>3
<1> QED BY <1>1, <1>3, <1>4

\* What a page adds to the entries of the pages before it.
LEMMA PageExtends ==
    ASSUME NEW M, IsFiniteSet(M), NEW k \in Nat, NEW limit \in Nat,
           NEW P \in SUBSET M, NEW skipped \in SUBSET (M \ P), FirstEntries(skipped, M, k),
           Cardinality(P) = IF limit > Cardinality(M \ skipped) THEN Cardinality(M \ skipped)
                                                                ELSE limit,
           Oldest((M \ skipped) \ P, M \ skipped, stamp)
    PROVE  FirstEntries(skipped \cup P, M, k + limit)
<1>1. /\ IsFiniteSet(skipped) /\ IsFiniteSet(P) /\ skipped \cap P = {}
      /\ M \cap skipped = skipped
  BY FS_Subset
<1>2. Cardinality(M) \in Nat /\ Cardinality(skipped) \in Nat /\ Cardinality(P) \in Nat
  BY <1>1, FS_CardinalityType
<1>3. Cardinality(skipped \cup P) = Cardinality(skipped) + Cardinality(P)
  <2>1. Cardinality(skipped \cup P) =
           Cardinality(skipped) + Cardinality(P) - Cardinality(skipped \cap P)
    BY <1>1, FS_Union
  <2>2. Cardinality(skipped \cap P) = 0
    BY <1>1, FS_EmptySet
  <2> QED BY <1>2, <2>1, <2>2
<1>4. Cardinality(M \ skipped) = Cardinality(M) - Cardinality(skipped)
  BY <1>1, FS_Difference
<1>5. Cardinality(skipped) = IF k > Cardinality(M) THEN Cardinality(M) ELSE k
  BY DEF FirstEntries
<1>6. Cardinality(skipped \cup P) = IF k + limit > Cardinality(M) THEN Cardinality(M)
                                                                  ELSE k + limit
  BY <1>2, <1>3, <1>4, <1>5
<1>7. ASSUME NEW v \in M \ (skipped \cup P), NEW j \in skipped \cup P
      PROVE  stamp[v] <= stamp[j]
  <2>1. CASE j \in skipped
    BY <1>7, <2>1 DEF FirstEntries, Oldest
  <2>2. CASE j \in P
    BY <1>7, <2>2 DEF Oldest
  <2> QED BY <2>1, <2>2
<1> QED BY <1>6, <1>7 DEF FirstEntries, Oldest

\* As long as nothing is written and no page ends within a timestamp, the client
\* has seen the first entries, and the next page goes on behind them.
Walk == [offset : Nat, seen : SUBSET Ids, quiet : BOOLEAN, separated : BOOLEAN]

WalkInv ==
    /\ walk \in Walk
    /\ walk.offset = 0 => walk.seen = {}
    /\ walk.quiet /\ walk.separated =>
          /\ FirstEntries(walk.seen, Matching(0), walk.offset)
          /\ walk.offset > 0 => Separated(Matching(0), walk.offset)

LEMMA MatchingFacts ==
    ASSUME TypeOK
    PROVE  IsFiniteSet(Matching(0)) /\ \A x \in Matching(0) : stamp[x] \in Int
<1>1. IsFiniteSet(Matching(0))
  BY PresentFinite, FS_Subset DEF Matching
<1>2. \A x \in Matching(0) : stamp[x] \in Times
  BY DEF Matching, TypeOK, IsFresh
<1> QED BY <1>1, <1>2, StoreAssumption DEF Times

LEMMA NothingSeen ==
    ASSUME TypeOK PROVE FirstEntries({}, Matching(0), 0)
<1>1. Cardinality(Matching(0)) \in Nat /\ Cardinality({}) = 0
  BY MatchingFacts, FS_CardinalityType, FS_EmptySet
<1> QED BY <1>1 DEF FirstEntries, Oldest

LEMMA NextPageKeepsInv ==
    ASSUME TypeOK, WalkInv, NextPage PROVE WalkInv'
<1> DEFINE M == Matching(0)
           end == walk.offset + WalkLimit
<1>1. PICK P \in SUBSET M :
         /\ IsPage(P, M, WalkLimit, walk.offset)
         /\ walk' = [walk EXCEPT !.offset = end, !.seen = @ \cup P,
                                 !.separated = @ /\ Separated(M, end)]
         /\ UNCHANGED vars
  BY DEF NextPage
<1>2. PICK skipped \in SUBSET (M \ P) :
         /\ Cardinality(skipped) = IF walk.offset > Cardinality(M) THEN Cardinality(M)
                                                                   ELSE walk.offset
         /\ Cardinality(P) = IF WalkLimit > Cardinality(M \ skipped)
                             THEN Cardinality(M \ skipped) ELSE WalkLimit
         /\ Oldest(M \ skipped, M, stamp)
         /\ Oldest((M \ skipped) \ P, M \ skipped, stamp)
  BY <1>1 DEF IsPage
<1>3. FirstEntries(skipped, M, walk.offset)
  BY <1>2 DEF FirstEntries
<1>4. ASSUME walk.quiet, walk.separated
      PROVE  skipped = walk.seen
  <2>1. CASE walk.offset = 0
    <3>1. Cardinality(M) \in Nat /\ IsFiniteSet(skipped)
      BY MatchingFacts, FS_CardinalityType, FS_Subset
    <3>2. Cardinality(skipped) = 0
      BY <1>2, <2>1, <3>1
    <3> QED BY <2>1, <3>1, <3>2, FS_EmptySet DEF WalkInv
  <2>2. CASE walk.offset > 0
    BY <1>3, <1>4, <2>2, MatchingFacts, FirstEntriesAgree DEF WalkInv, Walk
  <2> QED BY <2>1, <2>2 DEF WalkInv, Walk
<1>5. FirstEntries(skipped \cup P, M, end)
  BY <1>2, <1>3, MatchingFacts, PageExtends, PagingAssumption DEF WalkInv, Walk
<1>6. /\ walk'.offset = end /\ walk'.seen = walk.seen \cup P
      /\ walk'.quiet = walk.quiet
      /\ walk'.separated = (walk.separated /\ Separated(M, end))
      /\ walk' \in Walk
  <2>1. end \in Nat /\ P \subseteq Ids
    BY PagingAssumption DEF WalkInv, Walk, Matching, TypeOK
  <2> HIDE DEF M, end
  <2>2. (walk.separated /\ Separated(M, end)) \in BOOLEAN
    BY DEF Separated
  <2> QED BY <1>1, <2>1, <2>2 DEF WalkInv, Walk
<1>7. end > 0
  BY PagingAssumption DEF WalkInv, Walk
<1>8. UNCHANGED <<present, stamp>> /\ Matching(0)' = M
  BY <1>1 DEF vars, Matching
<1>9. ASSUME walk'.quiet, walk'.separated
      PROVE  FirstEntries(walk.seen \cup P, M, end) /\ Separated(M, end)
  BY <1>4, <1>5, <1>6, <1>9
<1>10. ASSUME walk'.quiet, walk'.separated
       PROVE  FirstEntries(walk.seen, Matching(0), walk.offset)' /\ Separated(Matching(0), walk.offset)'
  <2> HIDE DEF M, end
  <2> QED BY <1>6, <1>8, <1>9, <1>10 DEF FirstEntries, Oldest, Separated
<1> QED BY <1>6, <1>7, <1>10 DEF WalkInv

LEMMA PagesAreFirstEntries == PagingSpec => [](TypeOK /\ WalkInv)
<1>1. PagingInit => Init /\ walk = FirstPage
  BY DEF PagingInit
<1>2. ASSUME TypeOK, walk = FirstPage PROVE WalkInv
  <2>1. FirstPage \in Walk
    BY DEF FirstPage, Walk
  <2> QED BY <1>2, <2>1, NothingSeen DEF WalkInv, FirstPage
<1>3. TypeOK /\ TypeOK' /\ WalkInv /\ [PagingNext]_pagingVars => WalkInv'
  <2> SUFFICES ASSUME TypeOK, TypeOK', WalkInv, [PagingNext]_pagingVars PROVE WalkInv'
    OBVIOUS
  <2>1. CASE NextPage
    BY <2>1, NextPageKeepsInv
  <2>2. CASE StartAgain
    <3>1. walk' = FirstPage /\ UNCHANGED <<present, stamp>>
      BY <2>2 DEF StartAgain, vars
    <3>2. FirstEntries({}, Matching(0), 0)'
      BY <3>1, NothingSeen DEF FirstEntries, Oldest, Matching
    <3>3. FirstPage \in Walk
      BY DEF FirstPage, Walk
    <3> QED BY <3>1, <3>2, <3>3 DEF WalkInv, FirstPage
  <2>3. CASE Written
    <3>1. walk' = [walk EXCEPT !.quiet = FALSE] /\ walk \in Walk
      BY <2>3 DEF Written, WalkInv
    <3>2. walk' \in Walk /\ walk'.quiet = FALSE /\ walk'.offset = walk.offset
          /\ walk'.seen = walk.seen
      BY <3>1 DEF Walk
    <3> QED BY <3>2 DEF WalkInv
  <2>4. CASE UNCHANGED pagingVars
    BY <2>4 DEF pagingVars, vars, WalkInv, FirstEntries, Oldest, Separated, Matching
  <2> QED BY <2>1, <2>2, <2>3, <2>4 DEF PagingNext
<1>4. PagingSpec => Spec
  <2>1. [PagingNext]_pagingVars => [Next]_vars
    BY DEF PagingNext, NextPage, StartAgain, Written, pagingVars, Next, vars
  <2> QED BY <1>1, <2>1, PTL DEF PagingSpec, Spec
<1>5. PagingInit => TypeOK
  BY <1>1, StoreAssumption DEF Init, TypeOK, IdleReader, Reader, Times, IsFresh
<1> QED BY <1>1, <1>2, <1>3, <1>4, <1>5, TypeCorrect, PTL DEF PagingSpec

\* A client that reads page after page sees every entry once, from new to old, if
\* nothing is written in between and no page ends within a timestamp: for any
\* entries, any limit and whatever order a query puts equal timestamps in.
THEOREM PagesFitTogether == PagingSpec => []PagesPartition
<1>1. WalkInv => PagesPartition
  BY DEF WalkInv, PagesPartition, FirstEntries
<1> QED BY <1>1, PagesAreFirstEntries, PTL

=============================================================================
