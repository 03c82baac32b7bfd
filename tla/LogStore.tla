------------------------------ MODULE LogStore ------------------------------
(***************************************************************************)
(* internal/store/memory_log_store.go as internal/service/log_service.go    *)
(* uses it: single and batched writes, deletion, expiry, and queries.       *)
(* Every method of the store is one critical section of its RWMutex; only   *)
(* StoreBatch is long enough to be taken apart, and it keeps the lock all   *)
(* through its loop.  QueryLogs takes the lock twice.  A query's filter is  *)
(* abstracted to its StartTime.                                             *)
(***************************************************************************)
EXTENDS Eviction, Sequences

CONSTANTS
    Ids,        \* identities of log entries; an identity is used once
    MaxTime,    \* bound: timestamps are 0..MaxTime, in any order
    NoStamp,    \* the timestamp of an entry that does not exist yet
    MaxSize,    \* maxSize, from config.StorageConfig.MaxLogEntries
    MaxBatch,   \* bound: the longest batch
    Readers,    \* goroutines that run QueryLogs
    Limits,     \* limits of queries
    Offsets     \* offsets of queries

ASSUME StoreAssumption ==
    /\ IsFiniteSet(Ids)
    /\ MaxTime \in Nat
    /\ NoStamp \notin Int
    /\ MaxSize \in Nat
    /\ MaxBatch \in Nat
    /\ Limits \subseteq Nat /\ Offsets \subseteq Nat

VARIABLES
    present,    \* the keys of the entries map
    stamp,      \* the timestamps of the entries
    batch,      \* what StoreBatch has yet to insert; it holds the lock until <<>>
    reader      \* what each reader is doing, and its last answer

vars == <<present, stamp, batch, reader>>

-----------------------------------------------------------------------------
Times == 0..MaxTime
Entry == [id : Ids, ts : Times]

\* "counted": Count has returned, Query has not been called.
Reader == [pc : {"idle", "counted"}, from : Times, total : Nat, page : SUBSET Ids]

IdleReader == [pc |-> "idle", from |-> 0, total |-> 0, page |-> {}]

Unlocked == batch = <<>>

IsFresh(id) == stamp[id] = NoStamp

Init ==
    /\ present = {}
    /\ stamp = [id \in Ids |-> NoStamp]
    /\ batch = <<>>
    /\ reader = [q \in Readers |-> IdleReader]

\* Mutant: eviction after insertion, which may take the new entry itself.
InsertThenEvict(e) ==
    LET all == present \cup {e.id} IN
    /\ stamp' = [stamp EXCEPT ![e.id] = e.ts]
    /\ \E gone \in SUBSET all :
          /\ MakesRoom(gone, all, stamp', MaxSize + 1)
          /\ present' = all \ gone

\* Eviction comes before the insertion: the new entry is never evicted for itself.
Insert(e) ==
    /\ \E gone \in SUBSET present :
          /\ MakesRoom(gone, present, stamp, MaxSize)
          /\ present' = (present \ gone) \cup {e.id}
    /\ stamp' = [stamp EXCEPT ![e.id] = e.ts]

Store(e) ==
    /\ Unlocked
    /\ IsFresh(e.id)
    /\ Insert(e)
    /\ UNCHANGED <<batch, reader>>

BatchBegin(b) ==
    /\ Unlocked
    /\ b # <<>>
    /\ \A i \in DOMAIN b : IsFresh(b[i].id)
    /\ \A i, j \in DOMAIN b : b[i].id = b[j].id => i = j
    /\ batch' = b
    /\ UNCHANGED <<present, stamp, reader>>

\* Mutant: room is made once for the whole batch.
BatchPutUnchecked ==
    /\ ~Unlocked
    /\ present' = present \cup {Head(batch).id}
    /\ stamp' = [stamp EXCEPT ![Head(batch).id] = Head(batch).ts]
    /\ batch' = Tail(batch)
    /\ UNCHANGED reader

BatchPut ==
    /\ ~Unlocked
    /\ Insert(Head(batch))
    /\ batch' = Tail(batch)
    /\ UNCHANGED reader

Delete(id) ==
    /\ Unlocked
    /\ id \in present
    /\ present' = present \ {id}
    /\ UNCHANGED <<stamp, batch, reader>>

DeleteExpired(before) ==
    /\ Unlocked
    /\ present' = {id \in present : stamp[id] >= before}
    /\ UNCHANGED <<stamp, batch, reader>>

Close ==
    /\ Unlocked
    /\ present' = {}
    /\ UNCHANGED <<stamp, batch, reader>>

-----------------------------------------------------------------------------
(* QueryLogs: Count and then Query, with the lock released in between.     *)

Matching(from) == {id \in present : stamp[id] >= from}

\* Mutant: offsets count from 1.
IsPageFromOne(P, M, limit, offset) ==
    \E skipped \in SUBSET (M \ P) :
        /\ Cardinality(skipped) = IF offset > Cardinality(M) THEN Cardinality(M)
                                  ELSE IF offset = 0 THEN 0 ELSE offset - 1
        /\ LET rest == M \ skipped IN
              /\ Cardinality(P) = IF limit > Cardinality(rest) THEN Cardinality(rest) ELSE limit
              /\ Oldest(rest, M, stamp)
              /\ Oldest(rest \ P, rest, stamp)

\* P is a page of M: the newest `offset' entries are skipped, `limit' follow.
IsPage(P, M, limit, offset) ==
    \E skipped \in SUBSET (M \ P) :
        /\ Cardinality(skipped) = IF offset > Cardinality(M) THEN Cardinality(M) ELSE offset
        /\ LET rest == M \ skipped IN
              /\ Cardinality(P) = IF limit > Cardinality(rest) THEN Cardinality(rest) ELSE limit
              /\ Oldest(rest, M, stamp)
              /\ Oldest(rest \ P, rest, stamp)

QueryCount(q, from) ==
    /\ Unlocked
    /\ reader[q].pc = "idle"
    /\ reader' = [reader EXCEPT ![q] = [pc |-> "counted", from |-> from,
                                        total |-> Cardinality(Matching(from)), page |-> {}]]
    /\ UNCHANGED <<present, stamp, batch>>

QueryPage(q, limit, offset) ==
    /\ Unlocked
    /\ reader[q].pc = "counted"
    /\ \E P \in SUBSET Matching(reader[q].from) :
          /\ IsPage(P, Matching(reader[q].from), limit, offset)
          /\ reader' = [reader EXCEPT ![q] = [@ EXCEPT !.pc = "idle", !.page = P]]
    /\ UNCHANGED <<present, stamp, batch>>

-----------------------------------------------------------------------------
Batches == UNION {[1..n -> Entry] : n \in 1..MaxBatch}

Next ==
    \/ \E e \in Entry : Store(e)
    \/ \E b \in Batches : BatchBegin(b)
    \/ BatchPut
    \/ \E id \in Ids : Delete(id)
    \/ \E before \in Times : DeleteExpired(before)
    \/ Close
    \/ \E q \in Readers :
          \/ \E from \in Times : QueryCount(q, from)
          \/ \E limit \in Limits, offset \in Offsets : QueryPage(q, limit, offset)

Spec == Init /\ [][Next]_vars

-----------------------------------------------------------------------------
(* Properties.                                                             *)

\* The keys of the map are entries that were stored; what a batch still holds
\* under the lock was never stored before and has no identity twice.
TypeOK ==
    /\ present \subseteq Ids
    /\ stamp \in [Ids -> Times \cup {NoStamp}]
    /\ \A id \in present : ~IsFresh(id)
    /\ batch \in Seq(Entry)
    /\ \A i \in DOMAIN batch : IsFresh(batch[i].id)
    /\ \A i, j \in DOMAIN batch : batch[i].id = batch[j].id => i = j
    /\ reader \in [Readers -> Reader]

\* "MaxLogEntries is the maximum number of log entries to keep in memory"
\* (config.go:45), inside a batch too: checking the size once per entry, before
\* it is inserted, is enough (memory_log_store.go:42, 64).
CapacityBound == Cardinality(present) <= IF MaxSize < 1 THEN 1 ELSE MaxSize

\* Every operation on the store is one the contract of a bounded store allows:
\* no entry is evicted while there is room, none before an older one, and an
\* entry that was accepted is in the store, however old its timestamp.
Contract == INSTANCE BoundedStore WITH Capacity <- MaxSize
RefinesBoundedStore == Contract!StoreSpec

\* "Total is the total number of items matching the query"
\* (pkg/response/response.go:27), so no page has more.
TotalCoversPage ==
    \A q \in Readers : reader[q].pc = "idle" => Cardinality(reader[q].page) <= reader[q].total
=============================================================================
