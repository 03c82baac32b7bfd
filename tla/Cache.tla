-------------------------------- MODULE Cache --------------------------------
(***************************************************************************)
(* pkg/cache/cache.go.  Set, Delete, Clear and DeleteExpired are critical    *)
(* sections.  Get is not: it finds an item under the read lock, looks at the *)
(* clock with no lock held, and deletes the key of an expired item under the *)
(* write lock, whatever the key has become meanwhile.  A LazyCache loads and *)
(* sets what it does not find.  An item is its expiry; values are left out. *)
(***************************************************************************)
EXTENDS Integers, FiniteSets

CONSTANTS
    Keys,           \* keys
    Getters,        \* goroutines that call Get and GetOrSet
    CacheSize,      \* the argument of New
    DefaultSize,    \* the size of a cache that is given none; 1000 in the code
    TTLs,           \* ttls of Set; 0: the item never expires
    MaxClock,       \* bound: the time is in 0..MaxClock
    NoItem,         \* the item of a key that is not in the map
    Forever         \* the expiry of an item whose hasExpired is FALSE

ASSUME CacheAssumption ==
    /\ IsFiniteSet(Keys)
    /\ CacheSize \in Int /\ DefaultSize \in Nat \ {0}
    /\ TTLs \subseteq Nat
    /\ MaxClock \in Nat
    /\ NoItem \notin Nat /\ Forever \notin Nat /\ NoItem # Forever

VARIABLES
    cached,     \* the item of each key
    clock,      \* the time
    dropped,    \* the keys that a caller has deleted since they were set
    getter      \* what each getter is doing

cacheVars == <<cached, clock, dropped, getter>>

-----------------------------------------------------------------------------
Clock == 0..MaxClock

Expiries == Nat \cup {Forever}

\* "found": Get has the item in its hands; "stale": it has seen that the item is
\* expired, and is about to delete the key; "load": GetOrSet runs its loader.
Getter == [pc : {"idle", "found", "stale", "load"}, key : Keys \cup {NoItem},
           item : Expiries \cup {NoItem}, loads : BOOLEAN]
IdleGetter == [pc |-> "idle", key |-> NoItem, item |-> NoItem, loads |-> FALSE]

Cached == {k \in Keys : cached[k] # NoItem}

\* New.
Capacity == IF CacheSize <= 0 THEN DefaultSize ELSE CacheSize

IsExpired(item) == item # Forever /\ clock > item

ExpiryOf(ttl) == IF ttl > 0 THEN clock + ttl ELSE Forever

CacheInit ==
    /\ cached = [k \in Keys |-> NoItem]
    /\ clock = 0
    /\ dropped = {}
    /\ getter = [g \in Getters |-> IdleGetter]

ClockTicks ==
    /\ clock < MaxClock
    /\ clock' = clock + 1
    /\ UNCHANGED <<cached, dropped, getter>>

-----------------------------------------------------------------------------
\* Mutant: room is made only when there are more items than fit.
PutOverCapacity(k, ttl) ==
    \E gone \in SUBSET Cached :
        /\ Cardinality(gone) =
              IF k \notin Cached /\ Cardinality(Cached) > Capacity THEN 1 ELSE 0
        /\ cached' = [j \in Keys |-> IF j = k THEN ExpiryOf(ttl)
                                     ELSE IF j \in gone THEN NoItem ELSE cached[j]]
        /\ dropped' = dropped \ {k}

\* What Set does to the map: a new key takes the place of a random one when the
\* cache is full.
Put(k, ttl) ==
    \E gone \in SUBSET Cached :
        /\ Cardinality(gone) =
              IF k \notin Cached /\ Cardinality(Cached) >= Capacity THEN 1 ELSE 0
        /\ cached' = [j \in Keys |-> IF j = k THEN ExpiryOf(ttl)
                                     ELSE IF j \in gone THEN NoItem ELSE cached[j]]
        /\ dropped' = dropped \ {k}

Set(k, ttl) ==
    /\ Put(k, ttl)
    /\ UNCHANGED <<clock, getter>>

Erase(k) ==
    /\ k \in Cached
    /\ cached' = [cached EXCEPT ![k] = NoItem]
    /\ dropped' = dropped \cup {k}
    /\ UNCHANGED <<clock, getter>>

Clear ==
    /\ cached' = [k \in Keys |-> NoItem]
    /\ dropped' = Keys
    /\ UNCHANGED <<clock, getter>>

\* Mutant: hasExpired is not looked at; expiresAt of such an item is in year 1.
EraseExpiredByTime ==
    /\ cached' = [k \in Keys |-> IF cached[k] # NoItem /\ (cached[k] = Forever \/ IsExpired(cached[k]))
                                 THEN NoItem ELSE cached[k]]
    /\ UNCHANGED <<clock, dropped, getter>>

\* DeleteExpired.
EraseExpired ==
    /\ cached' = [k \in Keys |-> IF cached[k] # NoItem /\ IsExpired(cached[k])
                                 THEN NoItem ELSE cached[k]]
    /\ UNCHANGED <<clock, dropped, getter>>

-----------------------------------------------------------------------------
(* Get, and GetOrSet if the getter loads.                                  *)

Miss(g) == IF getter[g].loads THEN [getter[g] EXCEPT !.pc = "load", !.item = NoItem]
                              ELSE IdleGetter

\* A key that is not there is a miss at once.
FindItem(g, k, loads) ==
    /\ getter[g].pc = "idle"
    /\ k \in Cached \/ loads
    /\ getter' = [getter EXCEPT ![g] =
                    [pc |-> IF k \in Cached THEN "found" ELSE "load",
                     key |-> k, item |-> cached[k], loads |-> loads]]
    /\ UNCHANGED <<cached, clock, dropped>>

\* An item that is not expired is the result.
CheckExpiry(g) ==
    /\ getter[g].pc = "found"
    /\ getter' = [getter EXCEPT ![g] = IF IsExpired(getter[g].item)
                                       THEN [@ EXCEPT !.pc = "stale"] ELSE IdleGetter]
    /\ UNCHANGED <<cached, clock, dropped>>

EraseStale(g) ==
    /\ getter[g].pc = "stale"
    /\ cached' = [cached EXCEPT ![getter[g].key] = NoItem]
    /\ getter' = [getter EXCEPT ![g] = Miss(g)]
    /\ UNCHANGED <<clock, dropped>>

SetLoaded(g, ttl) ==
    /\ getter[g].pc = "load"
    /\ Put(getter[g].key, ttl)
    /\ getter' = [getter EXCEPT ![g] = IdleGetter]
    /\ UNCHANGED clock

\* The loader fails: nothing is set.
LoaderFails(g) ==
    /\ getter[g].pc = "load"
    /\ getter' = [getter EXCEPT ![g] = IdleGetter]
    /\ UNCHANGED <<cached, clock, dropped>>

-----------------------------------------------------------------------------
CacheNext ==
    \/ ClockTicks
    \/ \E k \in Keys, ttl \in TTLs : Set(k, ttl)
    \/ \E k \in Keys : Erase(k)
    \/ Clear
    \/ EraseExpired
    \/ \E g \in Getters :
          \/ \E k \in Keys, loads \in BOOLEAN : FindItem(g, k, loads)
          \/ CheckExpiry(g)
          \/ EraseStale(g)
          \/ \E ttl \in TTLs : SetLoaded(g, ttl)
          \/ LoaderFails(g)

CacheSpec == CacheInit /\ [][CacheNext]_cacheVars

-----------------------------------------------------------------------------
(* Properties.                                                             *)

\* The items have expiries, what a getter deletes is expired, and the map is
\* never larger than the size it was made with (cache.go:40).
CacheTypeOK ==
    /\ cached \in [Keys -> Expiries \cup {NoItem}]
    /\ clock \in Clock
    /\ dropped \subseteq Keys
    /\ getter \in [Getters -> Getter]
    /\ \A g \in Getters : getter[g].pc # "idle" => getter[g].key \in Keys
    /\ Cardinality(Cached) <= Capacity

\* An item that is not expired leaves the cache only because a caller deletes
\* it, because a new key needs room in a full cache, or because a Get that saw
\* an expired item of its key deletes the key after it was set anew
\* (cache.go:35-74, 130-151).
OnlyStaleGetsLose ==
    [][\A k \in Keys :
          k \in Cached /\ ~IsExpired(cached[k]) /\ cached'[k] = NoItem =>
             \/ k \in dropped'
             \/ /\ Cardinality(Cached) >= Capacity
                /\ \E j \in Keys : j \notin Cached /\ cached'[j] # NoItem
             \/ \E g \in Getters : getter[g].key = k /\ getter[g].pc = "stale"
                                   /\ getter[g].item # Forever
                                   /\ clock > getter[g].item]_cacheVars
=============================================================================
