---------------------------- MODULE BackupLogStore ----------------------------
(***************************************************************************)
(* internal/store/backup_log_store.go: two MemoryLogStores behind one        *)
(* interface.  Each call locks first the one and then the other; the mutex   *)
(* of BackupLogStore itself is never taken.  Store and StoreBatch turn to    *)
(* the backup when the primary returns an error, which a MemoryLogStore      *)
(* never does: only a caller of Backup() puts entries there.                *)
(***************************************************************************)
EXTENDS Eviction, LogStatistics

CONSTANTS
    StatEntries,  \* the entries there are; each is stored once
    PrimarySize,  \* primarySize
    BackupSize    \* backupSize

StatEntry == [ts : Int, zone : Int, level : Levels, source : Sources,
              service : Services \cup {NoService}]

ASSUME BackupAssumption ==
    /\ PrimarySize \in Nat /\ BackupSize \in Nat
    /\ IsFiniteSet(StatEntries) /\ StatEntries \subseteq StatEntry

VARIABLES
    primary,    \* the entries of the primary store
    backup,     \* the entries of the backup store
    arrived,    \* the entries that were ever stored
    halfway     \* the operation that is done with the primary: DeleteExpired
                \* or Close as the set of entries it deletes, or {}

backupVars == <<primary, backup, arrived, halfway>>

-----------------------------------------------------------------------------
StampOf == [e \in StatEntries |-> e.ts]

\* The times of day of the requests: those of what has been logged so far.
Stamps == {e.ts : e \in arrived}

BackupInit ==
    /\ primary = {}
    /\ backup = {}
    /\ arrived = {}
    /\ halfway = {}

\* BackupLogStore.Store, and StoreBatch for each entry: the primary makes room
\* and takes it.  What it evicts goes nowhere.
StorePrimary(e) ==
    /\ e \notin arrived
    /\ arrived' = arrived \cup {e}
    /\ \E gone \in SUBSET primary :
          /\ MakesRoom(gone, primary, StampOf, PrimarySize)
          /\ primary' = (primary \ gone) \cup {e}
    /\ UNCHANGED <<backup, halfway>>

\* Backup().Store.
StoreBackup(e) ==
    /\ e \notin arrived
    /\ arrived' = arrived \cup {e}
    /\ \E gone \in SUBSET backup :
          /\ MakesRoom(gone, backup, StampOf, BackupSize)
          /\ backup' = (backup \ gone) \cup {e}
    /\ UNCHANGED <<primary, halfway>>

\* The entry is in one of the two; for one that is in neither Delete fails.
DeleteEither(e) ==
    /\ primary' = primary \ {e}
    /\ backup' = backup \ {e}
    /\ primary' # primary \/ backup' # backup
    /\ UNCHANGED <<arrived, halfway>>

\* DeleteExpired and Close, on the primary.
DiscardPrimary(expired) ==
    /\ halfway = {}
    /\ expired # {}
    /\ halfway' = expired
    /\ primary' = primary \ expired
    /\ UNCHANGED <<backup, arrived>>

DiscardBackup ==
    /\ halfway # {}
    /\ halfway' = {}
    /\ backup' = backup \ halfway
    /\ UNCHANGED <<primary, arrived>>

BackupNext ==
    \/ \E e \in StatEntries : StorePrimary(e) \/ StoreBackup(e) \/ DeleteEither(e)
    \/ \E e \in StatEntries : DiscardPrimary({o \in StatEntries : o.ts < e.ts})
    \/ DiscardPrimary(StatEntries)
    \/ DiscardBackup

BackupSpec == BackupInit /\ [][BackupNext]_backupVars

-----------------------------------------------------------------------------
(* The reads, of a store and of a backup.                                  *)

CountBoth(P, B, from, to) == CountInRange(P, from, to) + CountInRange(B, from, to)

ListSourcesBoth(P, B) == ListSources(P) \cup ListSources(B)

ListServicesBoth(P, B) == ListServices(P) \cup ListServices(B)

\* How many of n matching entries a page has.
PageSize(n, limit, offset) ==
    IF offset >= n THEN 0 ELSE IF offset + limit > n THEN n - offset ELSE limit

\* How many entries Query returns: a page that the primary does not fill is
\* filled up with the first entries of the backup, at any offset.
QueryBoth(P, B, limit, offset) ==
    LET found == PageSize(Cardinality(P), limit, offset) IN
    IF found >= limit THEN found
    ELSE found + PageSize(Cardinality(B), limit - found, 0)

\* ByService and the average message length are not merged.
StatisticsBoth(P, B, from, to) ==
    LET stats1 == Statistics(P, from, to)
        stats2 == Statistics(B, from, to)
        byLevel == [l \in Levels |-> stats1.byLevel[l] + stats2.byLevel[l]] IN
    [total |-> stats1.total + stats2.total,
     byLevel |-> byLevel,
     bySource |-> [s \in Sources |-> stats1.bySource[s] + stats2.bySource[s]],
     byService |-> [s \in Services |-> 0],
     errors |-> SumFunctionOnSet(byLevel, ErrorLevels)]

\* The count of a key that may not be there.
CountOf(breakdown, k) == IF k \in DOMAIN breakdown THEN breakdown[k] ELSE 0

\* Mutant: a count of the backup replaces that of the primary.
HourlyBreakdownOverwritten(P, B, from, to) ==
    LET b1 == HourlyBreakdown(P, from, to)
        b2 == HourlyBreakdown(B, from, to) IN
    [k \in DOMAIN b1 \cup DOMAIN b2 |-> IF k \in DOMAIN b2 THEN b2[k] ELSE b1[k]]

HourlyBreakdownBoth(P, B, from, to) ==
    LET b1 == HourlyBreakdown(P, from, to)
        b2 == HourlyBreakdown(B, from, to) IN
    [k \in DOMAIN b1 \cup DOMAIN b2 |-> CountOf(b1, k) + CountOf(b2, k)]

-----------------------------------------------------------------------------
(* Properties.                                                             *)

\* Each store has entries that arrived, no entry is in both.
BackupTypeOK ==
    /\ primary \cup backup \subseteq arrived
    /\ primary \cap backup = {}
    /\ arrived \subseteq StatEntries
    /\ halfway \subseteq StatEntries

\* The five endpoints, Count with the same range, and the list of sources tell
\* one story of what was logged, though each of them counts for itself
\* (memory_log_store.go:116-272, stats_service.go:87).
StatisticsAgree ==
    \A now \in Stamps : \A start, end \in Stamps \cup {NoTime} :
        LET Answer(path) == StatsAnswer(path, primary, start, end, now)
            stats == Answer(<<>>)
            hourly == Answer(<<"hourly">>)
            trend == Answer(<<"error-rate">>) IN
        /\ stats.total = CountInRange(primary, RequestedFrom(start, now), RequestedTo(end, now))
        /\ stats.total = SumFunction(hourly)
        /\ stats.total = SumFunction(Answer(<<"sources">>))
        /\ stats.total = SumFunction(Answer(<<"levels">>))
        /\ stats.total >= SumFunction(stats.byService)
        /\ stats.total = SumFunction([p \in trend |-> p.total])
        /\ stats.errors = SumFunction([p \in trend |-> p.errors])
        /\ \A s \in Sources : stats.bySource[s] > 0 => s \in ListSources(primary)

\* What BackupLogStore says of its two stores is what one store with the entries
\* of both would say: totals, counts by level, source and hour, and the size of
\* the first page (backup_log_store.go:62-249).
MergeAgrees ==
    LET both == primary \cup backup IN
    /\ ListSourcesBoth(primary, backup) = ListSources(both)
    /\ ListServicesBoth(primary, backup) = ListServices(both)
    /\ \A limit \in 0..Cardinality(StatEntries) :
          QueryBoth(primary, backup, limit, 0) = PageSize(Cardinality(both), limit, 0)
    /\ \A from, to \in Stamps :
          LET merged == StatisticsBoth(primary, backup, from, to)
              whole == Statistics(both, from, to) IN
          /\ [merged EXCEPT !.byService = whole.byService] = whole
          /\ CountBoth(primary, backup, from, to) = whole.total
          /\ HourlyBreakdownBoth(primary, backup, from, to) = HourlyBreakdown(both, from, to)
=============================================================================
