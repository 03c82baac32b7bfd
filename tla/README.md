# LogAlert in TLA+

LogAlert is a service that takes log entries over HTTP, keeps them in memory,
evaluates alert rules against them, periodically and on request, and keeps the
alerts that the rules raise.  This directory holds TLA+ models of it, the TLC
configurations that check them, and TLAPS proofs about them.  Source paths are
relative to the repository.

    tlc -workers 2 -config MCStores.cfg MCStores         # one run
    tlapm LogStoreProofs.tla                             # one set of proofs

Contents: [inventory](#inventory), [modules](#modules), [runs](#runs),
[fairness](#fairness), [proofs](#proofs), [divergences](#divergences-found),
[not modelled](#not-modelled), [plan](#plan).

## Inventory

What `main` wires together (`src/cmd/server/main.go`): the three memory stores,
the log, rule, alert and statistics services, the scheduler, the HTTP handlers
behind a chain of middleware.  The other packages exist and are not used by
`main`: cleanup service, service manager, backup and retrying log stores, file
persistence, cache, rate limiter, configuration and metrics handlers, metrics,
time windows.  Those of them that keep state are modelled all the same: they
are written to be called from many goroutines, and how they hold up is a
question about this code.

| component | state | operations | what makes it correct |
|---|---|---|---|
| log store `internal/store/memory_log_store.go` | a map of entries, `maxSize`, an RWMutex | Store, StoreBatch, Get, Query, Count, Delete, DeleteExpired, Close, aggregations | never above capacity; only the oldest go, only when full; an accepted entry is there |
| alert store `memory_alert_store.go` | a map of alerts, `maxSize`, an RWMutex | Record, Get, UpdateStatus, queries, Delete, DeleteOld, Close | the same contract; a status has its evidence |
| rule store `memory_rule_store.go` | a map of pointers to rules | Create, Get, Update, Delete, List, ListActive, Close | deletion is final |
| log service `internal/service/log_service.go` | none | CreateLog, CreateLogs, QueryLogs | the total covers the page |
| rule service `rule_service.go` | none: it writes the shared rule objects | CreateRule, UpdateRule, DeleteRule, ToggleRuleStatus | stored rules are valid; silenced rules stay silent |
| alert service `alert_service.go` | none: it writes the shared alert objects | RecordAlert, AcknowledgeAlert, ResolveAlert, queries | a failed call leaves no trace in the store |
| scheduler, scans `scheduler.go` | `status` | ScanOnce, evaluateRule | no due rule is missed, no cooldown is broken, every alert is counted |
| scheduler, loop `scheduler.go` | `running`, `stopCh`, the goroutines | Start, Stop, runLoop | no channel closed twice, stopped loops end, started ones scan |
| process `cmd/server/main.go` | the goroutines of main | start, signal, shutdown | the process ends; stores outlive who uses them |
| HTTP `internal/handler` | none | one handler per route, routing by path | each path reaches its call |
| statistics `stats_service.go`, `stats_handler.go` | none | five aggregations, five endpoints | all of them tell one story of the same entries |
| cleanup service `cleanup_service.go` | `running`, `stopCh`, the goroutines, nothing locked | Start, Stop, runLoop, two deletions a pass | what is old goes while it runs; only overlapping calls panic |
| service manager `service_manager.go` | a map by name, an RWMutex | Register, Unregister, ShutdownAll | no service is forgotten |
| backup log store `backup_log_store.go` | two memory log stores | each method on the one and then the other | answers as one store of both would |
| file persistence `file_persistence.go` | three files | SaveState, LoadState | no load is older than the last save that succeeded |
| cache `pkg/cache/cache.go` | a map of items with expiries, an RWMutex | Set, Get, Delete, Clear, DeleteExpired, GetOrSet | bounded; a valid item is not lost |
| rate limiter `middleware.go` | a map of clients with lists of times, nothing locked | one handler | nobody is refused without cause |
| metrics `pkg/metrics/metrics.go` | atomic counters, a map of custom ones | RecordRequest, IncrCounter, Reset, Snapshot | counters agree, none is lost |
| time windows `pkg/timeutil/timewindow.go` | an iterator | Next, Advance, buckets | windows partition the range |
| configuration `internal/config`, `config_handler.go` | one struct that nothing locks | load, validate, update | an invalid one was reported; the last update stays |
| logging `pkg/logger` | writers, each with its lock; a `MultiWriter` without one | write, clear, close | the entries of a caller in order in every output; an entry is missing only where it failed, and behind |

How they interact.  An HTTP request is served in a goroutine of its own and
calls one service; services call stores.  The scheduling loop and
`POST /api/scheduler/scan` both run `ScanOnce`, with nothing between them.  A
scan reads the rule store, the log store and the clock, writes the alert store
and the rule objects, and saves a rule through `UpdateRule`.  `main` stops the
scheduler, shuts the server down with a timeout, and closes the stores.

The hard part.  Every store locks itself, and hands out *pointers*: `Get`,
`List`, `ListActive` return the stored objects, and `UpdateRule`,
`ToggleRuleStatus`, `MarkFired`, `Acknowledge` and `Resolve` assign their fields
with no lock held.  So a scan sees a rule change, or be deleted, between any two
reads of it; two scans interleave; an update goes on with an object that is no
longer in the map; a call fails after it has changed what it was given.  Then:
capacity and eviction inside batches, Stop and Start while the loop scans, and
shutdown while scans and requests run.  In the packages around the core it is
the same again in other forms: no lock at all (cleanup service, rate limiter), a
lock that is let go between a look and an act (cache, custom counters), a map
replaced under a read lock (service manager), several atomics or several files
that only together mean something (metrics, file persistence), and two stores
that answer one question (backup).  `PROJECT.json` lists each hazard at its
line with the properties that watch it.

## Modules

| module | models | state | next steps |
|---|---|---|---|
| `RuleEngine` | ScanOnce and evaluateRule over rule service, rule store, clock and logs | `rule` the heap of rule objects, `stored` the keys of the map, `logs`, `alerts`, `scan[s]` the locals of a scan with its program counter, `upd[c]` an update in flight, `status`, `now` | one action per shared access: `ScanBegin`, `ReadClock`, `Consider`, `CountLogs`, `Decide`, `Record`, `MarkFired`, `GetFired`, `PutFired`, `ScanEnd`; `BeginUpdate`, `Write...`, `CommitUpdate`; `CreateRule`, `DeleteRule` |
| `ScanCoverage` | extends `RuleEngine` with the history variable `owed` | which rules a scan still owes an alert | as `RuleEngine` |
| `Eviction` | evictOldest, shared by both stores | none | operators |
| `BoundedStore` | the abstract contract of both stores | `present`, `stamp` | `Put`, `Discard` |
| `LogStore` | memory log store and log service | `present`, `stamp`, `batch` (a StoreBatch holding the lock), `reader` (a QueryLogs between its two calls) | one action per method, one per entry of a batch |
| `AlertLifecycle` | memory alert store and alert service | `kept` the keys of the map, `triggeredAt`, `alert` the heap of alerts, `call[c]` | one action per store method, one per field assigned |
| `SchedulerLoop` | Start, Stop, runLoop | `running`, `stopCh`, `closed`, per loop `pc`, `waitsOn`, `tick` | one action per operation and per step of the loop |
| `Shutdown` | main from the start of the scheduler on; EXTENDS `SchedulerLoop` | `main`, `signalled`, `listener`, `request`, `timedOut`, `open` | one action per statement that waits or changes something |
| `HttpApi` | routes, handlers and middleware of `/api/logs`, `/api/rules`, `/api/alerts` and `/api/scheduler`, over the services as functions of what is stored | `logs`, `rules`, `alerts`, `request` being handled, `code` of its answer | `Receive`, and one action per handler |
| `LogPaging` | a client that reads QueryLogs page by page; EXTENDS `LogStore` | `walk`: the offset, the entries seen, whether the store was quiet | `NextPage`, `StartAgain`, and the steps of `LogStore` |
| `LogStatistics` | aggregations, statistics service and endpoints | none | operators on a set of entries |
| `BackupLogStore` | the two stores behind one interface; EXTENDS `LogStatistics` | `primary`, `backup`, `halfway` an operation between the two | one action per method and store; reads are operators |
| `FilePersistence` | SaveState, LoadState, failing reads and writes, a crash | `file`, `damaged`, `saver[s]`, `loader[l]`; as history `lastSave` and `ordered` | `OpenFile` (which truncates), `WriteFile`, `LoadFile`, the failures of each (`OpenFails`, `WriteFails`, `LoadFails`, `ReadFails`), `Crash` |
| `Cleanup` | Start, Stop, runLoop and both deletions of a pass | `active`, `channel`, `shut`, `control[c]`, `sweep[i]`, `item` one old-able object in each store | one action per statement of Start and Stop, one per step of the loop |
| `ServiceManager` | the registry | `services`, `stopper[s]` | `RegisterService`, `UnregisterService`, `ShutdownAll`, `ShutdownOne`, `ReplaceMap` |
| `RateLimit` | RateLimitMiddleware, the requests of one client | `entry`, `requests`, `visit[r]` | one action per read or write of the shared map and list |
| `Cache` | the cache and the lazy cache | `cached`, `clock`, `getter[g]` | critical sections; Get in three steps |
| `Metrics` | RecordRequest, IncrCounter, GetCounter, Reset | the counters, `customMetrics`, `recorder[r]` | one action per atomic operation or critical section |
| `TimeWindows` | windows, ranges, iterator, buckets | `range`, `current`, `windows` | `NextWindow` |
| `LogWriters` | a logger's entry on its way through the outputs, their failures, Clear and Close | `lines` in each output, `closedFiles`, `logging[c]`, `closing`; as history `failedAt` | `BeginLog`, one `WriteLine` or `WriteLineFails` per output, `ClearBuffer`, `CloseWriter` |
| `ConfigUpdate` | Load and `PUT /api/config` | `config` by words, `put[p]` with the words it has still to assign | `BeginPut`, one `AssignWord` per word, `AnswerPut` |

The MC modules give these finite instances: `MCRuleEngine`, `MCSchedulerLoop`,
`MCShutdown`, `MCHttpApi` (every path that is requested), and three that put
components side by side: `MCStores` (`LogStore`, `LogPaging`, `AlertLifecycle`,
`FilePersistence`, `BackupLogStore`), `MCServer` (`HttpApi` and what the server
keeps in memory beside its stores) and `MCLoops` (`SchedulerLoop` and `Cleanup`).
The components of one of these share nothing, so each behaviour picks the one
that moves, and the run checks each of them as it would be checked alone.

`LogStore` and `AlertLifecycle` each implement `BoundedStore`
(`RefinesBoundedStore`, `AlertsRefineBoundedStore`), and `Shutdown` implements `SchedulerLoop`.

What is abstracted, and why the properties do not depend on it:

- A rule's condition (level, source, service, keywords) is its source: all the
  parts are conjuncts of one predicate of the entry, read together.  An empty
  source, which matches every entry, is `AnySource`.
- `Consider` makes `CanFire` and the building of the filter one step, and
  `Decide` the threshold test and the reading of the source.  Each is a few
  reads of one object with no call between them.  The points where a scan calls
  a store or the clock are steps of their own, so every read is separated from
  the reads that go with it across a call.
- A read of a string that is being assigned returns the old or the new value.
- `UpdatedAt`, `NextScan`, names and descriptions are left out.  No decision
  reads them.
- Error paths that cannot be taken (a memory store returns no error from Count,
  Record or ListActive) are left out.  Those that can (`Get`, `Update`, `Delete`,
  `UpdateStatus` of something deleted) are there.
- Identities come from `crypto/rand` (`enums.go`) and are unique.
- In `LogStore` a filter is its StartTime; in both stores an item is its
  timestamp, because eviction and expiry look at nothing else.
- In `HttpApi` one request is handled at a time: routing, validation and the
  order of checks are sequential code, and the steps of concurrent calls are what
  the other modules take apart.  The stores have their capacities: what is created
  is stored item by item, each after an eviction if the store is full
  (`StoredInTurn`).  That the oldest go is left to `LogStore` and
  `AlertLifecycle`; here any may.  The outputs of the logger take every line: a
  store or a handler whose line fails panics after it has changed something
  (`LogWriters`), and is answered with 500.  A path is the sequence of its segments, and an
  input is what its handler tells apart: a body that cannot be read, an item
  that fails `Validate`, a null in a batch, a limit of 0.  A service call is its
  effect on what is stored.  `ScanNow` raises any alerts that the number of
  active rules allows; `RuleEngine` says which.  Paths that the mux redirects
  (with `//` or `..`) are not requested.
- In `Shutdown`, `MainStart` fuses Start, the launch of the listener goroutine
  and `signal.Notify`.  A signal before that kills the process by default.
- In `Cleanup` an age stands for a timestamp: an object is fresh, then older than
  the week, then deleted.  A pass that has taken its cutoff deletes what was old
  then.
- In `FilePersistence` the content of a file is the number of the save whose data
  it has, or `Torn`.  What the JSON of a store contains is not looked at.  A write
  that fails leaves half a file, or a whole one when only Close reports the error; a
  read may fail with any error but NotExist, whatever the file has
  (`ReadFails`), which is told apart from a file that is no JSON (`LoadFails`).
- In `RateLimit` a slice of times is the set of requests whose times they are.
  Writes to the map by two goroutines at once may end the process
  (`MapCollision`); the runtime detects some and not others.
- In `Cache` an item is its expiry, and an eviction takes any item, as the
  iteration of a Go map does.
- In `LogStatistics` entries carry the offset of their location, because hours are
  formatted in it; the average message length is left out.
- In `TimeWindows` locations have a fixed offset.
- In `LogWriters` an entry is its caller and a number.  A line is written whole or
  not at all, although the system may take a part of it.  A goroutine whose write
  fails panics; RecoveryMiddleware recovers it and logs that at once, in the same
  goroutine, which goes on to serve requests: after a failure a caller is ready for
  its next entry (`WriteLineFails`), and which output has failed it is kept in
  `failedAt`.  A panic that nothing recovers ends the
  process, and with it the behaviour.
- In `ConfigUpdate` a string is two words, which are assigned in either order, and a
  word of a string is the string it belongs to; a load that `main` refuses is not an
  initial state.
- `ListActive` reads the statuses under the store's lock, which writers of a
  status do not hold; the snapshot is nevertheless taken in one step, since each
  status is looked at again by `CanFire` before it matters.

## Runs

Passing runs:

| run | instance | shows |
|---|---|---|
| `engine` | two scans, one updating client, one rule, one log entry, clock 0..1, cooldown 0 | all interleavings of two scans: `NothingMissed`, `CooldownIsBacked`, `EveryAlertCounted`, `DeletionIsFinal`, `SilencedRuleStaysSilent` |
| `engine_alone` | one scanner, two scans one after the other, cooldowns 0 and 1 in a clock of 0..1, so that a rule fires once or twice, edits that put window and threshold to 0 | `TypeOK`, `CooldownBetweenScans`, `LastFiredIsLatest`, `EveryScanEnds` |
| `stores` | logs and pages: five entries with two timestamps, capacity 4, half evicted at a time, batches of two, one reader, pages of two; alerts: two alerts, capacity 1, two callers, one user; files: two savers, one loader, three saves; backup: five entries of two zones, capacities 3 and 2 | `CapacityBound`, `RefinesBoundedStore`; `PagesPartition`; `StatusHasEvidence`, `FailedCallLeavesNoTrace`, `AlertsRefineBoundedStore`; `LastSaveIsRestored`, `LoadFailsOnlyOnDamage`; `StatisticsAgree`, `MergeAgrees`; `StoresTypeOK` |
| `http` | requests: two rules, three identities for logs and for alerts of which the stores hold two, six methods, every route with identities that are stored, unknown, missing, with a trailing slash or followed by more; batches of up to three; rate limiter: three requests, a limit of 1, a window of 1, clock 0..2; registry: two names, three instances, one without Shutdown, two callers of ShutdownAll; cache: three keys, room for two, clock 0..2; counters: two recorders, two names, three requests and increments; windows: six moments, sizes 1 to 3; logger: two callers of three calls, three outputs, one of them a file and one a buffer of two; configuration: two requests, two texts, ports 0, 80 and 65536 | `FailureHasNoEffect`, `OnlyTheNamedChanges`, `SuccessIsDone`; `RefusalIsJustified`; `NothingForgotten`; `OnlyStaleGetsLose`; `CountsAgree`; `WindowsPartition`; `OutputsFollowCalls`; `UpdatesAreAnswered`; `ServerTypeOK` |
| `loop` | scheduler: two Starts; cleanup: two controllers, two launches | `StopNeverPanics`, `StoppedLoopsEnd`, `KeepsScanning`; `PanicNeedsOverlap`, `ExpiredIsCleaned`; `LoopsTypeOK` |
| `shutdown` | one Start, two requests | `ShutdownTypeOK`, `StoresOutliveRequests`, `SignalEndsProcess` |

Why the bounds are enough to be of interest.  Two scans are the fewest that
overlap, and one rule is where they meet: scans share nothing else but the
counters of `status`.  A clock with two values separates "at the time of the
scan" from "later", and with cooldowns 0 and 1 both sides of the strict
comparison in `CanFire` occur.  One log entry with threshold 1 is at the
threshold when it is there and below when it is not; it carries any timestamp,
inside, at the ends of and outside the window.  Capacity 4 with a half evicted
removes more than one entry at a time, as a tenth of 100000 does, and five
entries fill the store and make it evict; half of one alert is rounded up to one,
as a tenth is in the code.  A second user would differ in nothing the properties
tell apart.  Two identities separate the object that is named from one that is
not, and a third is what a store of two has no room for; a batch of three has
entries before the one that is refused, and is longer than the capacity.  Two Starts
are the fewest for an old and a new loop, and two controllers the fewest whose
calls overlap.  Two savers, two callers of ShutdownAll and two recorders are the
fewest that meet; three services leave one that is registered while two are
being stopped.  Three saves, with a crash or a failure at any point, leave files of
different saves and half a file, and are the fewest with two that overlap and one
alone behind them.  Three requests with a limit of one are one that is let through,
one that is refused, and one that puts back a list both have seen; a window of 1
in a clock of 0..2 ends while requests are under way.  Three keys for a cache of
two make it evict; one goroutine in a `Get` is enough to be stale, because `Set`
and `Delete` are single steps that need no process of their own.  The five
entries of the statistics have a tie of timestamps, two zones, a missing service, two
errors in one hour, and one that is alone in its hour.  Six log entries overflow a
buffer of two, two callers are the fewest that overtake each other between
outputs, and three entries of one caller are the fewest of which an output has the
first and the last and lacks the one that failed.  Two requests are the fewest that overlap on the configuration; the ports
are below, in and above what is valid.

None of these bounds is a claim about more: what is proved for every value is
under [proofs](#proofs).

Symmetry is used for rules, scanners and log entries where a run has no
liveness property.  Deadlock is checked everywhere except where the
system may stop: a scheduler that is stopped with its starts used up, a process
that has exited.  In `http` it is checked for the requests; the other parts of
that run end when their bounds are used up (`Ended` in `MCServer`).

Runs that show a violation, each with the text of the repository it contradicts
(`PROJECT.json`, findings):

| run | property | what happens |
|---|---|---|
| `cooldown_scans` | `CooldownBetweenScans` | two scans pass `CanFire` before either marks the rule: two alerts within one cooldown |
| `alert_source` | `AlertSourceIsCounted` | the rule is edited between count and alert: the alert names a source whose logs were not counted |
| `acknowledge` | `AcknowledgeReachesAlert` | the handler looks up `{id}/acknowledge`, which no alert is called |
| `query_total` | `TotalCoversPage` | an entry comes in between Count and Query: more items on the page than in the total |
| `restart` | `StopHaltsItsLoop` | Stop and Start during a scan: the old loop picks up the new channel and never ends |
| `shutdown_scan` | `StoresOutliveScans` | the stores are closed under a scan, which Stop does not wait for |

## Fairness

- `FairCoverageSpec` (`EveryScanEnds`): weak fairness of the steps of a scan.  A
  scan is a running goroutine; the only locks it takes are the stores', each
  held for one step.  A new scan is never promised.
- `FairLoopSpec` (`StoppedLoopsEnd`, `KeepsScanning`): weak fairness of every
  step of the loop but two, and strong fairness of the two outcomes of its
  `select`.  Go picks among ready cases at random: a case that is ready every
  time the loop gets there is not passed over for ever.  That scans end is the
  property of `RuleEngine`.
- `CleanupFairness` (`ExpiredIsCleaned`): weak fairness of the statements of a
  Start or Stop that has begun, and of the steps of a loop taken together.
  Nothing is assumed of what a select picks, nor that Start or Stop is ever
  called.
- `FairShutdownSpec` (`SignalEndsProcess`): weak fairness of main, which
  includes that the shutdown timeout passes, and of the exit of the listener
  goroutine.  Requests and scans may hang for ever.

## Proofs

Each theorem holds for every value of the constants that satisfies the named
assumptions of its module.  Every invariant and every action property of the
passing runs is the statement of one; what follows under fairness is not (below).

| module | theorem | establishes |
|---|---|---|
| `RuleEngineProofs` | `TypeCorrect`, `ReferencesGood` | `Spec => []TypeOK`, `Spec => []NoDangling` |
| | `Deletion` | `Spec => DeletionIsFinal` |
| | `Backed` | `Spec => []CooldownIsBacked`, with any number of scanners |
| | `AlertsAreCounted` | `Spec => []EveryAlertCounted`, with any number of scanners |
| | `OneScannerKeepsCooldown`, `OneScannerMarksLatest` | with one scanner, `CooldownBetweenScans` and `LastFiredIsLatest` |
| | `SilentUntilActivated` | `Spec => SilencedRuleStaysSilent` |
| | `ScansMissNothing` | `CoverageSpec => []NothingMissed`, if no cooldown is negative |
| `CountingProofs` | (lemmas) | what a sum over a finite set is, how it changes, and that the parts of a partition add up |
| `EvictionProofs` | (lemmas) | what eviction leaves, for any capacity; used for both stores |
| `LogStoreProofs` | `TypeCorrect`, `Bounded`, `Refines`, `PagesFitTogether` | types, `CapacityBound`, the refinement of `BoundedStore`, `PagesPartition` |
| `AlertLifecycleProofs` | `AlertTypeCorrect`, `EvidenceIsComplete`, `ErrorsLeaveNoTrace`, `AlertsRefine` | types, `StatusHasEvidence`, `FailedCallLeavesNoTrace`, the refinement of `BoundedStore` |
| `StoresProofs` | `FilesTypeCorrect`, `SavesAreRestored`, `LoadsFailOnDamage` | types, `LastSaveIsRestored`, `LoadFailsOnlyOnDamage` |
| | `BackupTypeCorrect`, `BackupBounded` | types, and that neither store exceeds its size |
| | `EndpointsAgree`, `MergedAnswersAgree` | `StatisticsAgree` and `MergeAgrees`, for any entries, zones, ranges and sizes |
| | `StoresTypeCorrect` | `StoresTypeOK` |
| `LoopsProofs` | `LoopTypeCorrect`, `NoDoubleClose` | types of `SchedulerLoop`, `StopNeverPanics` |
| | `ShutdownTypeCorrect`, `RequestsKeepStores`, `ProcessRunsLoop` | `ShutdownTypeOK`, `StoresOutliveRequests`; every behaviour of the process is one of `SchedulerLoop` |
| | `CleanupTypeCorrect`, `PanicsNeedOverlap` | types, `PanicNeedsOverlap`, for any controllers and launches |
| | `LoopsTypeCorrect` | `LoopsTypeOK` |
| `ServerProofs` | `ApiTypeCorrect`, `FailuresHaveNoEffect` | types, `FailureHasNoEffect`, for any paths and methods |
| | `ChangesAreNamed`, `SuccessesAreDone` | `OnlyTheNamedChanges`, `SuccessIsDone`, for any paths, methods and capacities |
| | `WindowsPartitionRange` | `WindowsPartition`, for any ranges and sizes |
| | `ServicesAreNotForgotten` | `NothingForgotten`, for any callers |
| | `RefusalsAreJustified` | `RefusalIsJustified`, for any limit, window and requests |
| | `LossesAreExplained` | `OnlyStaleGetsLose`, for any keys, sizes and ttls |
| | `NoCountIsLost` | `CountsAgree`, for any recorders and names |
| | `OutputsKeepOrder`, `EndMeansWritten`, `OutputsFollow` | the two parts of `OutputsFollowCalls`, and both, for any callers, outputs and sizes |
| | `InvalidConfigIsReported`, `LastRequestStays`, `UpdatesAnswered` | the two parts of `UpdatesAreAnswered`, and both, for any requests, texts and ports |
| | `ServerTypeCorrect` | `ServerTypeOK` |

What the theorems assume of the constants, and why the code justifies it:

- Sets of levels, sources, services, log entries, identities, controllers and the
  like are finite, since a process only ever sees finitely many; a count over an
  infinite set has no value.
- `PathsAssumption`: a path has no empty segment but the last (the mux redirects
  the others) and lies in a route; no other path reaches a handler.
- `IdentitiesAssumption`: no identity is a word of a route, for `GenerateID` writes
  hexadecimal digits, or only decimal ones (`enums.go:11`).  If one were `status`, a
  request for it would reach another handler.
- Sizes, limits, windows and the like are numbers, and those that the code divides
  by are positive.
- Only `OneScannerKeepsCooldown`, `OneScannerMarksLatest` (one scanner) and
  `ScansMissNothing` (no negative cooldown) ask for more than their module does.

The arguments:

- *References.*  `TypeOK` alone is not inductive: a write through `upd[c].rule`
  keeps the type of the heap only if the object is there.  `TypeOK /\ NoDangling`
  is, because the heap only grows: objects outlive their deletion.
- *Backed.*  `CooldownIsBacked` needs that a scan about to mark a rule has
  already put its alert into the store; that is the strengthening `MarkIsBacked`.
  Alerts are only appended, so a witness stays one.
- *Sums.*  A recursive function is, to the prover, a CHOOSE of the function that
  solves its equation.  `SumExists` builds a solution and `SumUnique` shows that
  there is no second: the smallest set on which two differed would not be empty,
  and without its first element they agree.  So the sum can be taken from any
  element on (`SumRecurrence`), changes by what one term does (`SumChanges`), and
  if every entry has exactly one key the counts of the keys add up to the number
  of entries (`PartitionSum`).
- *Counted.*  An alert is in `status.total`, or in the `Share` of one scan that has
  not ended: its count, and one more between the record of an alert and the end of
  that evaluation, also when the rule was deleted and the save of `LastFiredAt`
  fails.  Each step keeps the equation for the scan that takes it, and leaves the
  shares of the others.  A scan that begins must not bring a count along, which is
  the other half of `CountedInv` (`IdleCountsNothing`).
- *One scanner.*  `AheadOfAlerts` says that a scan past `CanFire` is later than
  every alert of its rule by more than the cooldown, which no client can
  change.  With two scanners it fails: the other scan appends an alert in
  between, which is what the run `cooldown_scans` shows.
- *Silence.*  A scan takes rules only from its list and only through `CanFire`; a
  rule that no scan has in hand and that `CanFire` refuses is therefore out of
  reach, and stays so until a client assigns to it.
- *Nothing missed.*  `OwedInv`: the rules that a scan owes are still ahead of it,
  and what the scan has read of the rule at hand (its filter, then its count) is
  what makes the rule due.  With a negative cooldown the alert that a scan raises
  does not put the rule into its own cooldown, which is how `Due` sees that the
  rule has got one; the theorem therefore asks for cooldowns of at least 0.
  Nothing in the code refuses a negative one.
- *Log store.*  Insertion keeps the capacity because at least one entry goes
  when the store is full, for any divisor; the refinement maps each `Store`
  and each entry of a batch to a `Put`, deletions to `Discard`, and the
  rest to stutters.  `TypeOK` carries that a batch under way has entries that are
  not yet stored, no two with the same identity.
- *Pages.*  `WalkInv`: the client has seen the first `offset` entries.  If the
  offset lies between two timestamps, every order that a query may return has the
  same first entries (`FirstEntriesAgree`), so the next page goes on behind them.
- *Alerts.*  `StatusHasEvidence` looks at alerts that no call has in hand, so
  `LifecycleInv` says what holds between two statements of a call: the evidence is
  there, or the call that has assigned the status is still to provide it.
- *Files.*  `LastSaveIsRestored` is about whatever is left by saves that succeeded,
  failed or were cut off by a crash.  As long as no two calls overlap, a later file
  is never newer than an earlier one, and none is older than the last save that
  succeeded (`OrderedInv`): a save that no other has disturbed has written what it
  is past (`AloneInv`) and nothing else, and one that is alone and succeeds puts
  everything in order again (`ordered`).  A loader that has seen no save begin has
  read what is there (`QuietInv`).  Half a file is one that is being written, under the
  lock, or is damaged (`TornInv`), and after a save that succeeded, the last one,
  none is.
- *Backup.*  Nothing that is stored arrives again, so the stores have no entry in
  common (`BackupTypeOK`), and each evicts before it inserts (`BothBounded`).
- *Statistics.*  Each breakdown counts the entries of one set, each under exactly
  one key: its level, its source, the hour it is printed with.  `PartitionSum` does the
  rest.  The points of the trend are made from the hours that the breakdown prints,
  a point for each; entries without a service are under no key, so that sum is at
  most the total.
- *Merge.*  The stores have no entry in common, so the entries of a kind in both are
  those of the one and those of the other, and the counts add up; an hour that only
  one of them has keeps its count.
- *Windows.*  The windows end where the next one begins, unless the loop is at its
  end; so two of them overlap only if they are equal, and whatever precedes
  `current` is in one.
- *Registry.*  While a ShutdownAll is in its range, what is registered is in what
  it has still before it or has been shut down; the read lock, which keeps
  Register out, is what makes this inductive.
- *Cleanup.*  As long as no two calls have overlapped, a call that is under way is
  alone, and the channel is closed only if the service does not run or that call is
  about to repair it (`CallsInv`).
  Its types need that a channel is never numbered beyond `MaxLaunches`: `Launch` has
  no guard, and the number of loops together with the Starts that are past their
  test is within it.
- *Rate limiter.*  Requests that are in progress together belong to one period in
  which the middleware was never idle, and share its beginning.  A list never
  has a request that was not let through, nor one from before the period
  (`RateInv`), so a full list is a cause for the refusal.
- *Cache.*  A getter that goes on to delete has found an item that expired
  (`FoundInv`), and eviction takes an item only when the cache is full.
- *Counters.*  A custom name has a counter of its own, no increment goes to one
  that is yet to be made, and IncrCounter, past its lock, finds the counter it
  saw there (`CounterInv`), since nothing deletes one.  As long as no Reset has
  overlapped with a request, what the Reset is past is 0 (`RequestInv`).
- *Outputs.* `OutputsFollowCalls` has two parts, which both follow from
  `LinesFollowCalls`: no output has an entry that it was not given, the outputs that
  keep entries have all, and a buffer has no gap behind an entry.  What is appended is
  therefore the latest of its caller (`LineGoesLast`), and what a full buffer gives up
  is before the rest.  What a caller is past was given to exactly the outputs before
  `failedAt`, which is 0 for an entry that is under way or to come (`UnderWay`), so an
  entry that failed is missing where it must be, and the entries behind it are not
  held up.
- *Configuration.* `UpdatesAreAnswered` has two parts.  An invalid port was assigned
  by a request that was not answered 200 (`InvalidHasWriter`): validation comes after
  the assignment, and what another request has put there meanwhile has its own writer.
  The request that came last has assigned every word that it no longer has left
  (`LastHasItsWords`).
- *Failures.*  What a handler looks up is what it would change (`LookupAnswers`):
  when the answer is an error no stored object has the identity, so the change of
  "the object that is named" changes nothing.  `ApiTypeOK` is needed because that
  change is a function over all identities.
- *Named changes.*  Every handler that changes an object is reached through a
  subtree (`ChangingHandlersAreBelow`), behind whose prefix the identity is the second
  segment (`IdentityIsSecond`); what `extractIDFromPath` makes of a longer path is
  no identity, so nothing is found and nothing changed.  An object that no path
  names goes by an eviction, and nothing is evicted as long as what is stored and
  what is to be added fit into the capacity (`RoomForAll`): the number of items stored
  is followed from one item to the next, and the first at which it went wrong would
  have one before it (`LeastNumber`).
- *Successes.*  The answer 200 to a creation or deletion comes from the one handler
  that the path leads to (`SuccessfulHandlers`), which has then found the object.
  A batch that fits is added whole (`RoomForAll`); of one that does not, the last
  entry is there, since room is made before an entry is stored and none after it
  (`LastIsStored`).
- *Compositions.*  A step of `MCServer`, `MCStores` or `MCLoops` is a step of one
  component and leaves the variables of the others alone, so a behaviour of the
  composition is one of each (`ServerParts`, `StoresAreApart`), and
  every theorem of a component holds in it.
- *Stop.*  The current channel is open while the scheduler runs
  (`ChannelInv`).  Restarting makes a new one, so no history of calls closes one
  twice.
- *Requests.*  `CloseInv`: from the time main closes the stores the listener is
  closed, so no request begins, and none was running unless the timeout was over.

Checked by TLC only: the five properties that need fairness, `EveryScanEnds`,
`StoppedLoopsEnd`, `KeepsScanning`, `ExpiredIsCleaned` and `SignalEndsProcess`.
Weak and strong fairness are stated with ENABLED, which TLAPS does not reason about.
The properties of the runs that show a violation are not theorems, since they are
false.

## Divergences found

Besides the six findings that runs show, reading the code turned up these.  They are
constant facts of one function, which a run would only restate:

- `SchedulerStatus.Running` is never assigned (`scheduler.go:29`, `137`): the
  status of a running scheduler says it is not running.
- `MaxConcurrentScans` (`config.go:81`) is read by nothing.
- `GetOpenAlerts` "returns all open alerts" (`alert_service.go:30`), and asks for
  at most 100 (`:145`).
- A batch of logs that does not fit evicts what was stored, and its own first
  entries if it is longer than the capacity (`memory_log_store.go:64`); the answer
  is success and returns all of them.
- With `MaxAlertRecords` 0, which the configuration's validation accepts, the
  store keeps one alert, since it inserts after making room.
- `LastFiredAt` goes back when the earlier of two overlapping scans marks a rule
  last (`scheduler.go:234`): `LastFiredIsLatest` holds with one scanner only.
- The cooldown is counted from the start of the scan, and the alert carries the
  later time of its creation, so two `TriggeredAt` may be closer than the
  cooldown.
- What the run `acknowledge` shows holds for `POST /api/alerts/{id}/resolve` and
  `PUT /api/rules/{id}/status` too: `extractIDFromPath` (`log_handler.go:248`)
  returns `{id}/resolve` and `{id}/status`.  Over HTTP no alert is ever resolved
  and no rule is ever paused.
- `UpdateRule` stores any window and threshold (`rule_service.go:99`), those that
  `AlertRule.Validate` (`alert_rule.go:162`) rejects too; nothing calls that
  method, and the request has no `Validate`.
- `Response.Write` sets "appropriate HTTP status code" (`response.go:97`) from
  codes in thousands; the handlers use 400, 404, 405 and 500, which are all
  answered with status 200.
- `QueryAlerts` validates neither limit nor offset (`alert_handler.go:54`): a limit
  of 0 and an offset below 0 end in a panic, which is recovered.
- `POST /api/scheduler/scan` answers any method (`scheduler_handler.go:32`): a GET
  scans as well.
- `Paginated` computes `HasMore` from the page number (`response.go:78`), which is
  wrong for an offset that is no multiple of the limit.
- `BackupLogStore` says it writes to the backup "when the primary is full"
  (`backup_log_store.go:15`, `34`).  A memory store evicts and returns no error, so
  nothing is ever written there and what is evicted is lost; for the same reason
  `RetryLogStore` never retries.
- `BackupLogStore.Query` asks the backup from offset 0 whatever the offset: later
  pages repeat its first entries.  `Statistics` drops ByService and
  AvgMessageLength when the backup has entries, and `HourlyBreakdown` is not sorted
  after the merge.  `MergeAgrees` claims the rest.
- Hours are formatted in the location of the entry and carry a `Z`
  (`memory_log_store.go:249`); `stats_service.go:120` reads them as UTC.  The
  statistics handlers ignore a time that they cannot parse and take the default.
- Pages of one query overlap or leave entries out when timestamps are equal,
  because `sort.Slice` is not stable and the map is in another order each time:
  `PagesPartition` holds for pages that end between two timestamps.
- "Size is the duration of the window" (`timewindow.go:14`) is not true of the last
  one, which is cut off at the end of the range and keeps its size.  With a size of 0
  the iterator never ends.  `TimeRange` includes its ends, and `Overlaps` says no of
  ranges that share one.  Daily buckets add 24 hours, which leaves midnight where
  clocks change.
- Stop of the cleanup service between the assignment of `running` and that of the
  channel closes the channel of `NewCleanupService`: the loop goes on with
  `running` false.  A cancelled context ends the loop and leaves `running` true.
- Nothing in the repository has a method `Shutdown(ctx) error` of the kind
  `ShutdownAll` looks for.  Two callers shut every service down twice, and
  `Register` waits as long as a `Shutdown` hangs.
- "Pass 0 for ttl to never expire" (`cache.go:34`), but a `Get` that has found an
  expired item under the same key deletes it; a `Get` may also miss although a
  valid item was there throughout.
- Concurrent requests may be more than the rate limit, and may end the process
  with a concurrent map write.  `IncrCounter` reads its map after it has
  unlocked it, which may end it too (`ReadCollides`).
- A Reset that overlaps with RecordRequest leaves total different from the sum of its
  parts until the next Reset.
- `PUT /api/config` assigns before it validates (`config_handler.go:66`): a
  configuration that is answered with an error is in place all the same, and two
  requests that overlap may both be answered 400 for the port of one.  A new log
  level reaches no logger.
- `MultiWriter` "writes to multiple LogWriters simultaneously" (`log_writer.go:186`):
  one after the other, so the outputs order the entries of two callers differently.
  An output that fails keeps the entry from those behind it, although `Write`
  "writes the log entry to all underlying writers" (`:198`): after a failure that
  passes, the outputs behind it lack entries that those before it have.  `Fatal` does not exit,
  and SetLevel does not reach the loggers derived before it.
- "If writing fails, try stderr directly" (`logger.go:140`): `log` passes a nil
  `io.Writer` to `fmt.Fprintf`, which panics in the goroutine that logs
  (`WriteLineFails`).
- Two SaveStates that overlap, or a load during a save, leave or find files of
  different states: each file is locked, and not the three together.

## Not modelled

Each with its reason in the components of `PROJECT.json`.  In short:

- responses, errors, validators and JSON: formatting and tests of single values, of
  which `HttpApi` has what handlers use.
- retrying store: as `LogStore`, since no operation of it ever fails.
- filters of slices, which nothing calls; the clock, which is the time package.
- health and metrics endpoints and the web page, which change nothing.
- partly: keywords of conditions and the parsing of query parameters (data
  model), logging, CORS and timeout middleware, `Snapshot` of the metrics; of the
  configuration the limits of the fields that no request changes, `ValidateAll` and
  `SaveToFile`, which nothing calls, `GET`, which only reads, and reload, which does
  nothing; of logging the levels, fields and formats.

## Plan

Done: the core (rule evaluation, stores, scheduling, process, HTTP), then file
persistence, backup store, cleanup, service manager, cache, rate limiter, paging,
statistics, time windows, metrics, the logger's outputs and the configuration, and
the proofs listed above.

Left, in this order:

1. `BackupLogStore` with each write as its own `BoundedStore`, and the refinement: an
   entry there carries its timestamp, where `BoundedStore` keeps a stamp for each
   item, so the mapping has to be stated over the entries that have arrived.
2. A refinement of the whole stores by what the handlers see of them, so that the
   services in `HttpApi` are those of `RuleEngine` and `AlertLifecycle`.
