# A formal model of transitland-lib

transitland-lib fetches GTFS feeds, stores and imports their versions into a
database, decides which version of a feed is the active one, and serves the
result together with realtime data. This directory holds TLA+ modules for the
parts of it where several callers, processes or failures meet, the TLC
configurations that check them, and theorems that TLAPS proves.

`PROJECT.json` lists the components, the runs, a mutant of the code for every
property, the source lines behind every definition, the findings, the hazards
and the theorems.

## Running

    tlc -workers 2 -config LocalQueue_safety.cfg MCLocalQueue
    tlapm LocalQueueProofs.tla
    tlapm FeedStateProofs.tla
    tlapm FeedVersionsProofs.tla
    tlapm CopierProofs.tla
    tlapm CacheProofs.tla
    tlapm RegistrySyncProofs.tla
    tlapm ServiceProofs.tla
    tlapm AccessCheckerProofs.tla

## The system

| Part | Source | State | Operations | What is hard |
|---|---|---|---|---|
| Local job queue | `server/jobs/local`, `server/jobs` | channel of jobs, registry of records, dedup keys, per-run cancel functions, watchers, periodics | Submit, Watch, Cancel, Delete, workers, Run, Shutdown, Stop, Wait, AddPeriodic, RemovePeriodic | every call is a goroutine and takes several locks one after the other |
| Job router, runner, workers | `server/jobs/router.go`, `server/workers` | none of its own | fan-out of Run, Stop, Shutdown; the work itself | one backend of several failing |
| Feed state manager | `internal/feedstate`, `cmds/feed_state_cmd.go`, `stats/dbutil.go` | `feed_states` rows (active and materialized pointer, two flags), three materialized tables | activate, deactivate, exclude, set-active, sync-active, set public | read, decide, write in READ COMMITTED transactions without row locks |
| Fetch | `fetch` | `feed_versions`, `feed_fetches`, stored files | download, compare, upload, insert, log | check then insert; storage and database are separate |
| Import, unimport, delete | `importer`, `copier`, `dmfr` | import records, entity tables | import, activate, unimport, remove schedule, delete | the copy has no transaction; crashes; two callers on one version |
| Realtime cache | `server/finders/rtfinder` | local messages, remembered absences, a subscription | AddData, GetSource, subscribe loop, Close | cold reads racing announcements; lost announcements; cancelled callers |
| Two-tier cache | `server/caches/kvcache` | local map, shared store, flights, ticker | Get, Set, Refresh, scan, Start, Stop | two tiers written one after the other; single flight; expiry |
| Registry sync | `sync`, `stats/dbutil.go`, `dmfr` | feeds, operators, associations, `feed_states` | update, associate, hide what is gone, generate operators | one transaction over everything, against activations; rows compared and not written |
| Copier and its reader | `copier`, `tlcsv/reader.go`, `tt/entitymap.go`, `ext/filters` | id map, duplicates seen, patterns of trips | filter, check, write in batches; join trips and stop times in chunks | order of files and batches; state that outlives a rejected row |
| Service levels and windows | `service`, `stats/fvsl.go`, `internal/clock`, `server/finders/dbfinder/trip.go` | service levels, calendars, window of a feed version | simplify, group weeks, pick a window, map dates | ends of periods, gaps, time zones, exceptions outside the calendar |
| Access checker | `server/auth` | relations in an external store, rows of groups | set parent, add and remove permission, create group, check | read, write, delete as separate requests; check then write; a failure between two requests |
| Validator, rules, CSV types, geometry | `validator`, `rules`, `rt`, `tlcsv`, `gtfs`, ... | none shared | entity by entity | data, not control |
| GraphQL, REST, command line | `server/gql`, `server/rest`, `cmds` | none | queries, wiring | - |

How they interact. A worker of the job queue calls fetch, import or the feed
state manager; a worker may submit further jobs. A fetch creates a version, an
import writes its rows and then its record, and asks the feed state manager to
activate it. The manager's pointers and materialized tables are what the
queries of the server select on, together with the import record. A realtime
fetch calls AddData; queries call GetSource. The database and Redis are the only
state that processes share. What makes each part correct is the list of
properties below. A sync creates the feeds and their `feed_states` that the others
use and reads the agencies of the active version; a fetch computes the service
levels that the server derives windows from; the copier is what an import runs.

## Modules

| Module | Models | Runs |
|---|---|---|
| `JobContract` | what `jobs.go` promises of any queue: one outcome, one run, exclusive dedup keys | refined by `LocalQueue` |
| `LocalQueue` | `localQueue` in `local_backend.go` | `LocalQueue_safety`, `_liveness`, `_cancel` |
| `LocalBackend` | the life of `LocalBackend` and the periodics of its queue, in `local_backend.go` | `LocalBackend_life` |
| `LocalQueueProofs` | theorems about `LocalQueue` and `LocalBackend` | - |
| `FeedState` | `manager.go`, `feed_state_cmd.go`, `dbutil.go` | `FeedState_requests` |
| `FeedStateProofs` | theorems about `FeedState` | - |
| `FeedVersions` | `static_fetch.go`, `importer.go`, `unimporter.go` | `Import_feeds` |
| `FeedVersionsProofs` | theorems about `FeedVersions` | - |
| `RTCache` | `rtfinder/cache.go` | `RTCache_life` |
| `TripStream` | the join of trips and stop times: `tlcsv/reader.go`, and the fallback in `copier.go` | through `Copier` |
| `Copier` | `copier.go`, `stoppattern.go`, the id map, the reference and duplicate checks | `Import_feeds` |
| `CopierProofs` | theorems about `TripStream` and `Copier` | - |
| `KVCache` | `kvcache.go` | `KVCache_tiers` |
| `CacheProofs` | theorems about `RTCache` and `KVCache` | - |
| `ServiceCalendar` | the days of a service: `service/service.go` | through `ServiceLevels` |
| `ServiceLevels` | `fvsl.go`, `copyCalendars`, `swcache.go`, `dbfinder/trip.go` | `ServiceLevels_dates`, `_fallback` |
| `ServiceProofs` | theorems about the two | - |
| `RegistrySync` | `sync.go`, `sync_feed.go`, `sync_operator.go`, `oifs.go`, `dbutil.go` | `RegistrySync_registries` |
| `RegistrySyncProofs` | theorems about `RegistrySync` | - |
| `AccessChecker` | `azchecker/checker.go`, `fga/fga.go`, the authorization model `tls.model` | `AccessChecker_calls` |
| `AccessCheckerProofs` | theorems about `AccessChecker` | - |

`LocalQueue` refines `JobContract`; `Copier` extends `TripStream`, and
`ServiceLevels` extends `ServiceCalendar`. Statements that two parts share (the
write of a whole `feed_states` row by `SetFeedStatePublic`) are in both modules.

`MC<module>` gives a module its constants; `MCImport` puts `FeedVersions` and `Copier` with the
feeds of `MCCopier` side by side, as the two parts of an import. They share no variable, and
no behaviour moves both: a step of the copy needs every call idle, and a call needs the copy
at the start of a feed of no rows. An operator that models one function keeps
its name; an operator marked `Mutant:` is a deliberately wrong version
of the definition that follows it. TLC has to find the named property violated
when it takes its place. Where a module states its type invariant it is `TypeOK`;
TLAPS proves it for `LocalQueue`, `LocalBackend`, `FeedState`, `FeedVersions`, `RTCache`,
`KVCache`, `RegistrySync` and `AccessChecker`. No run lists it. Two modules that one proof
module extends cannot share names: the specification of `LocalBackend` is `BackendSpec`
(and `FairBackendSpec`), with `BackendInit`, `BackendNext` and `BackendTypeOK`, and that of
`KVCache` is `KVSpec`, with `KVInit`, `KVNext` and `KVTypeOK`. That of `Copier`, which
has no type invariant, is `CopySpec`.

### LocalQueue

A step is one critical section (`registryMu`, `uniqueMu`, one `jobEntry.mu`) or
one channel operation; between two steps any goroutine may run. `sub[j]` is the
program counter of the Submit call of job `j`, `wpc[w]` that of a worker in
`execute`, `cpc` and `dpc` those of Cancel and Delete calls. A record outlives its
row in the registry, as an entry does that another goroutine still points to.

Abstractions: `getEntry` and the entry's lock that follows it are one step; the
close of `q.done` by `Run` after a drain was asked for is part of `Shutdown`; the
access policy always allows; every caller calls once; a deadline has passed or has
not (`WorkerDeadline` chooses); a job's Run ends with any result at any time.

### LocalBackend

Around the queue: any number of Runs, each with its context, its `runDone` and its
`drain` channel, and the Stops, Shutdowns and Waits that use those of the latest
one. The fields of the backend are set together under `startMu`, so `order`, the
Runs that were let in, stands for all of them: `Latest` is what a field holds. Run
reads `b.runDone` again without the lock (`RunDefer`), and may find the channel of any
Run let in since. A second close of a channel is a panic: the Run stops there, and
the others do what they may still do before the process is gone. A periodic has
three goroutines: the caller of AddPeriodic, the watcher that cancels and forgets
it, and the loop that submits at each tick.

Abstractions: one queue with one worker per Run; jobs in the buffer are counted;
`b.drained` is whether the drain channel of the latest Run is closed; cron and interval
periodics differ in when they tick, and a tick may come at any time.

### FeedState

A step is one SQL statement. `fs` and `rows` are committed; `wrote`, `ins` and
`del` are what an open transaction has done. A write waits for the other writer of
the row, and is evaluated afresh when that transaction has ended. The three
materialized tables are one set. Rows of `feed_states` exist. The UPDATE and
SELECT that begin `SetExcludeFromGlobal` are one step: the UPDATE holds the row by
then. Every statement may fail (`Rollback`). `met` is history: which open
transactions used the same feed.

### FeedVersions

A step is one statement of an import, or of the transaction of the others; the
last statement and the commit are one. Three batches stand for the entity tables
by how the schema constrains them: tables with a unique index per version, tables
that refer to those, tables with neither. Ids are given out in order. Storage is
configured. Activation is one step here and is `FeedState`'s subject. A call fails
at any statement and crashes between any two. `torn` is history: versions on which
an import and an unimport were at work at once.

### RTCache

One topic, because nothing relates two. A payload is the number of the write that
stored it. The time to live of a remembered absence and of a stored payload are
actions that may happen at any time. A lost connection loses the announcements
on their way, and whoever is not connected misses what is published. `missed` is
history: processes an update has passed by, and why is listed at
`HeldSnapshotsAreCurrent`. `pubsub` is chosen at the start: Redis or the memory
store.

### Copier and TripStream

`TripStream` is functions: what the two passes of the reader and the fallback
yield for the rows of two files. `Copier` takes a feed phase by phase, in the order
of `Copy`: a step is one batch read, one trip given its patterns, or one group of
rows of one file checked and written, so that a writer may fail between any two.
A row carries what markers, filters and validators think of it (`fault`); the
duplicate check and the reference check are modelled, as are the id map, the
expansion of routes into networks, calendars and shapes that the copy generates,
and the state of stop and journey patterns. A shape is known by the trip it was
made for. Left out: extensions other than route networks, extra files,
interpolation, the error threshold and logging. A stop_times.txt with an empty
trip_id between two rows of a trip is read as if the trip were there twice
(`reader.go:351`), and the properties of the reader leave such files out.

### KVCache

One key; values are what the refresh function would return, numbered by the world.
A step is one access to the local map, one operation of the store, or the end of a
refresh call. An entry counts down ticks to its recheck and its expiry; a refresh
call ends within its timeout. Flights: the followers of a flight wait for its
leader and get its result, which may have expired since; `tick` refreshes outside
the flights. Whoever sets a value knows the truth at that moment. Safety only: the
properties need no fairness.

### ServiceCalendar and ServiceLevels

Days are counted from a Monday and weeks have `WeekLength` days; the zero date is a
Monday before all others. Of two exceptions for a date the first counts. A feed
version goes through four steps: `SaveLevels` (the fetch), `Import`, `GetWindow`,
`Query`; what each computes is an operator of its own. Sums over trips and weekdays
are `SumFunctionOnSet` of the community modules. A row of service levels is known by
its first week (`Firsts`) and holds the weeks up to the last that repeats it
(`LastWeek`), where the code walks through the weeks of one pattern and cuts a range
at each gap. A window is calculated from the first `RowLimit` rows, as the query has
`Limit(1000)` (`swcache.go:151`). Instants are half days, so that a time zone is one
half day and noon is a time. How long a window stays
cached, and `ServiceLevelDefaultWeek` (`stats.go:142` gives it the start date for
both ends) are not modelled.

### RegistrySync

One sync at a time, in one transaction: `tx` is what it sees, with only the rows of
`feed_states` it has written, `db` what is committed. Activations of other
processes change a committed row between two statements of the sync, and wait once
it has written the row. Associations are a bag, as rows differ in their id alone.
The lookup of an agency that has an operator's row and a generated one may find
either: the query has no order. Any statement may fail, and everything is undone.
`moved` is history: feeds that were activated during the sync. Left out: a feed
listed twice in one sync, the names and places of associations (a matched
association keeps the name its operator had), two syncs at once. An agency whose
only association is to a hidden operator gets no generated one, and
`dbfinder/operator.go:83` leaves the hidden one out.

### AccessChecker

A step is one request of a call to the authorization store, or one statement of the
database; other calls run between two. `tuples` is the store, and what a check
answers is computed from it by the relations of `tls.model`, one operator per
relation and type; `can_set_tenant`, which `SetParent` asks for on groups, is not in
`tls.model`, so that only a global admin passes. A slot is what a replacement keeps
to one tuple: the parents of an object, or the relations of one subject to it. A
request fails before or after the store has done it, or the process crashes
(`Fail`); a deletion that fails does not keep `replaceTuple` from the next. `alone`,
`unsettled` and `authors` are history: replacements that met no other on their slot,
slots whose last replacement met another or was not answered well, and the users whose
calls have changed tuples.

Abstractions: the store is consistent and refuses a tuple it has and the deletion of
one it has not (`fga_test.go:745`, `:902`); `entityExists` is part of the check that
follows or precedes it, as rows are never deleted; the parent of a feed version is a
constant, as it is in its row. Left out: names of tenants and groups, the listings,
users and sessions, pages of the store's answers (`fga.go:133` reads one answer and takes
no continuation token, the model reads all tuples of an object), and a RemovePermission of a
parent tuple, which `checker.go:531` would do (`AccessAssumption`).

## Runs

Passing runs:

| Run | Bounds | Question |
|---|---|---|
| `LocalQueue_safety` | 2 unique jobs with one key, 2 workers, 2 Cancel, 1 Delete, 1 Watch, buffer of 1, drain, a deadline, a caller that leaves | does any order of critical sections lose a job, run two of one key, or lose an outcome; does the queue refine `JobContract`? |
| `LocalQueue_liveness` | 5 jobs, of which one submits two children and one submits another; 2 workers, buffer of 1, drain and stop | does every accepted job settle unless the queue ends or all workers block one another for good, and does every drain end, however many of them are blocked? |
| `LocalBackend_life` | 2 Runs, a Stop, a Shutdown; a periodic with a tick, other callers, buffer of 1 | has who waited seen the Run end; do periodics end, also when blocked in a Submit? |
| `FeedState_requests` | 3 callers, one feed of 2 versions; set-active, exclude, public, sync-active | are pointers and rows in step unless two transactions met; does exclusion keep the active version, and sync-active repair what a race left? |
| `RTCache_life` | 2 readers, 1 fetcher, 3 payloads of which the second does not decode, one lost connection, both kinds of store | do held messages only move forward, agree with the store at rest, and arrive in the end? |
| `Import_feeds` | 4 calls, of which one can only fetch, one content, 2 versions; and 2 rows in each of 32 files with one fault anywhere, and 3 trips with all orders, faults and stops; batches and chunks of 2; 4 sets of options | are files, records, rows and the active version in order through failures and crashes? does everything written refer to something written, and does everything left out have a cause? does the reader yield each trip once? |
| `KVCache_tiers` | 2 processes, 2 getters, a setter, 2 tickers, 2 values, one an absence, expiry after 2 ticks | how stale can an entry be, how many goroutines are there? |
| `ServiceLevels_dates` | weeks of 2 days, 8 days; windows read 3 rows; every calendar with up to 2 exceptions; two services on any set of dates; 4 times and zones | do imports, levels, windows and queries agree with the rows of the feed, and does no week of the window have more service than the fallback week? |
| `RegistrySync_registries` | 3 syncs of 24 registries of 2 feeds and an operator, 2 activations, a failure anywhere | does a sync hide what the registry lacks and nothing it has; are the associations those of the registry and the active versions? |
| `AccessChecker_calls` | 3 calls out of 16, by 4 users on 2 tenants, 3 groups of which one is new, a feed and a version; every request may fail | what does a replacement leave in a slot and while it is at work, does anybody get a right that none of the callers could give? |

Why these bounds are enough to be of use. Properties of callers relate two of them,
with at most a third beside them (a racing pair and the observer, canceller or
repair that follows), and each run has at least that many. A buffer of 1 makes
"full" and "empty" both frequent; two jobs on both workers, a child in the buffer and a child
of each waiting for room block every worker, which `AcceptedJobSettles` has to reckon with. A call of
`Import_feeds` can only fetch, as no other call does anything before one has. Three payloads allow the pattern old, unreadable,
new. Chunks and batches of 2 put an edge inside every trip and every file. Weeks of
2 days give 4 weeks, enough for a gap, a repeated pattern and a poor week between
two good ones. Three syncs let a feed appear, vanish and come back; two activations
let a version with one agency be replaced by one with two. Three calls let two
meet and a third repair or use what they left, and let a right be given, used and
revoked; the calls are symmetric.

`CHECK_DEADLOCK FALSE` is set where callers call once or counters are bounded, so
that the system may come to rest; `KVCache_tiers` and `ServiceLevels_dates` check
for deadlock.

Two runs find the code at odds with what its comments and tests say:

| Run | Says | Does |
|---|---|---|
| `LocalQueue_cancel` | "queued cancellation must always succeed" (`jobs.go:177`); "cancelled job should not have run" (`jobtest.go:388`) | Cancel, Delete, then the worker finds no record and runs the job (`local_backend.go:541`) |
| `ServiceLevels_fallback` | "Check again to find the highest service week in the window. This will be used as the typical week for dates outside the window" (`swcache.go:213-214`); "FallbackWeek should be on or after StartDate" (`swcache_test.go:426-429`) | the search starts from the first row, in the window or not (`swcache.go:216`): where no week of the window has more service, that row is the fallback week although the window has not grown to it |

Other races and faults met while modelling are set apart by the properties below.
Each leaves out what the race has touched, and only that, so that it finds every
other way to break:

* `EndIsSeen`: a Run that took the channel of a later one. `defer close(b.runDone)`
  reads the field after `startMu` was released (`local_backend.go:93`); with a Stop and
  a second Run in between, the first Run closes the channel of the second, whose Wait
  returns while it runs, although "Wait blocks until Run has returned"
  (`jobs.go:218`), and which panics when it closes the channel again.
* `AcceptedJobSettles` (`AllBlocked`): every worker runs a job that waits in Submit for room
  in the buffer, which `local_backend.go:209` knows of and makes unlikely by a large buffer;
  `done`: jobs that a Submit still gets into the buffer of a queue that is shut down
  (`local_backend.go:271`) may stay there. `NoJobStranded` says the same of the buffer:
  while the queue is neither shut down nor stopped, all workers are there to empty it.
* `FeedsReconciled` (`met`): two activations of a feed both read its old pointer
  without a lock (`manager.go:84`), and rows of a version that no pointer names remain;
  the swap and rebuild "must not be observed half done" (`manager.go:38`).
  `SyncRepairsTables` says how such rows are removed.
* `VisibleIsWhole`, `OneImporter` and `ActiveIsImported` (`torn`): an import and an
  unimport of one version at once.
* `HeldSnapshotsAreCurrent` (`missed`): an announcement passed the process by.
* `TimesRecoverable`: patterns whose first trip was rejected; the next trip of the
  pattern is accepted without stop_times. And feeds in which a stop_time has no trip_id:
  the reader may yield a trip twice, and the second then repeats its own pattern.
* `FallbackIsBusiest`: it says nothing of where the fallback week lies, only that no week of
  the window has more service, unless the fallback has service on every day and that week
  has not. Where it should lie is `FallbackInWindow`, above.
* `OnlyUnseenAreHidden`: a feed that was hidden and comes back unchanged is found
  equal, as the comparison leaves `deleted_at` out (`sync_feed.go:28`), and stays
  hidden, although `sync.go:67` clears the `deleted_at` of what it found and
  `sync_test.go:39-47` expects the feeds that a sync finds to be live. The property claims
  nothing of such a row but that it is not touched; what it denies is that a sync hides
  what it found, hides too little, or leaves a row hidden that is new or has changed.
* `AgenciesKeepAnOperator` and `AssociationsFollowRegistry` (`moved`): feeds activated
  during the sync; the next sync of the feed puts it right.
* `SettledSlotsHoldOne`: slots on which two replacements met, or the last one was not
  answered well, until one that meets no other puts them right. Two calls that both read
  first leave a subject viewer and editor, which are to be "mutually exclusive relations"
  (`checker.go:270`).
* `NoGapInAccess`: slots while a replacement that has met another is under way, and steps of
  RemovePermission, which is to leave a gap. Where one confirms viewer while another
  sets editor, each deletes the other's tuple, in spite of "Write new tuple before deleting
  others" (`fga.go:204`). Failed requests and their repetition are not left out.

A race that no property covers: the goroutine that deletes the entry of a cancelled
periodic may run before `registerPeriodic` has made it (`local_backend.go:603`); the entry
then stays, although the deletion is there so that "caller-cancelled periodics don't leak"
(`:594`). Without that race nothing can go wrong there, so a property that left it out would
only restate the deletion.

### Fairness

`LocalQueue`: weak fairness of every started Submit, of every worker, of Cancel
and Delete once started, and of `Run` seeing a cancelled context: the Go scheduler
runs goroutines that can run, and jobs are taken to return. Nobody has to call
anything. `LocalBackend`: weak fairness of the goroutines of a periodic, and strong
fairness of the branch of its `select` that leaves the loop, which Go chooses at
random among those that are ready; of Runs, Stops, observers and other callers
nothing is asked. `RTCache`: weak fairness of the goroutines and of the passing of time;
strong fairness of the store's answer to a reader, which the code does not
guarantee and `TopicIsEventuallyServed` needs (a store that never answers serves
nothing), and of nothing else; a caller asks again. The other modules have safety
properties only and state no fairness: nothing obliges a caller to go on with a
transaction, a copy or a query.

## Proofs

`LocalQueueProofs` proves, for every set of jobs, workers and callers, every
buffer size and every assignment of keys, from `QueueAssumption`:

* `TypeCorrect`: `Spec => []TypeOK`, action by action.
* `UniqueJobsAreExclusive`: `Spec => []UniqueJobsExclude`.
* `NothingStranded`, `CancelReachesRun`, `WatchersHear`: the other invariants of
  `LocalQueue_safety`. `NothingStranded` needs `WorkersStay` as well: a worker exits only when
  the queue is shut down or stopped.
* `QueueImplementsContract`: `Spec => ImplementsContract`, the refinement of
  `JobContract`.

`UniqueJobsExclude` is not inductive: it counts on a job being in one place only.
The invariant that is, `ExclusionInv`, adds `Placed`: every job in the channel or
with a worker was accepted, no job is in the channel twice, with two workers, or in
both places, and counters that are about to release a key belong to unique jobs.
Lemmas say what sending and receiving do to the channel (`SendInChan`,
`ReceiveInChan`), that a step which moves no job and no counter keeps the owners
(`SameOwners`), and that Cancel, Delete, Watch and Shutdown are such steps
(`ClientsKeepPlaces`); the Submit and worker actions are done one by one.

`QueueInv` adds to it what the calls know of a record: when a job is listed
(`Listing`), that a worker past its lookup holds the entry of a listed job and has
installed `cancelRun` before the job can be seen running (`Installed`,
`SeenRunning`), that a job which is over and still listed has one outcome, its state,
and that one which a Cancel has condemned ends by cancellation (`Verdicts`), and what
a watcher or a Delete has found (`Heard`). A job is over when it was refused as a
duplicate, or left the channel and is with no worker, or with one that has only its
key to release (`Over`). `OneOutcome`, that an outcome once published stands, is the
lemma the others lean on. The refinement is proved from `QueueInv` step by step:
`ContractStep` says which changes of the mapped state are steps of `JobContract`,
`SameFate` and `SamePlace` which steps are stutters, and one lemma for every group of
actions (`ContractSubmit`, `ContractClients`, `ContractTake`, `ContractExecute`,
`ContractExit`) shows that each is one or the other.

The same module proves the invariant of `LocalBackend_life`, for any calls,
periodics and buffer, from `BackendAssumption`:

* `BackendTypeCorrect`: `BackendSpec => []BackendTypeOK`, with `HoldsARun`: whoever is about to cancel or
  to close has a Run to do it to.
* `WaitersSeeTheEnd`: `BackendSpec => []EndIsSeen`, by the invariant `EndInv`: a closed
  channel was closed by a Run that has returned (`ClosedByItsRun`), a Run returns
  after its worker (`ReturnedLast`), and an observer that got nil found its channel
  closed (`SeenClosed`). That the Run is the one waited for is what `Mixed` denies.

`FeedStateProofs` proves the properties of `FeedState_requests` for every set of
callers, feeds and versions, any number of versions per feed and any requests, from
`FeedStateAssumption` and `NoRowAssumption`. The invariant under all of them is `TxInv`: a
caller at a step has the request and the operation the step belongs to (`Shape`), a
transaction touches only the feeds that it has used, and two open ones that touch one
feed are in `met` (`Scope`), and every pointer, stored or held, is null or to a
version of its feed (`InFeed`).

* `TypeCorrect`: `Spec => []TypeOK`.
* `HidingKeepsActive`: `Spec => VisibilityKeepsActive`, by `Locks`: two transactions never
  have one row written, and from its UPDATE on `SetExcludeFromGlobal` holds the row of
  its feed, so that the active version it read is the committed one.
* `FeedsStayReconciled`: `Spec => []FeedsReconciled` under `Unforced`, by `ReconcileInv`:
  a transaction that has met no other on a feed sees it reconciled, its own writes
  included, and in the middle of an operation it sees what the steps so far have made
  of it (`ViewOf`, `Midway`); a sync has something to repair only where transactions
  have met (`RepairsOf`). `Unforced` says that no request is one of the two operations
  that force rows in or out, `--force-materialize` and `--force-dematerialize`, which bypass
  `reconcileFeed` by their purpose. The property is false with them, and
  `MCFeedState` has TLC check that its requests are unforced.
* `SyncRepairs`: `Spec => SyncRepairsTables`, by `Synced`: while a sync is alone, it has one
  operation to come for every version whose rows do not match the pointers, and none
  that would undo a match. It needs no `Unforced`: forced rows are repaired as well.

`FeedVersionsProofs` proves the properties of `FeedVersions` for every set of calls and
contents and every number of versions, from `FeedVersionsAssumption`, by three
invariants of which each contains the one before:

* `RowsInv`: types, and that each call at work erases rows of its version only, which
  no other open transaction erases (`TypeCorrect`).
* `RecordInv`: a record belongs to the import that inserted it and is in progress while
  that import copies (`Owned`); on a version that is not torn every importer has its
  record, so there is one (`Apart`). From it `ImportersExclude` and `OutcomeStands`.
* `VersionInv`: a fetch past its upload finds its file (`Stored`), and the rows of a version
  that is not torn are those its owner has copied so far, batch by batch, and all of
  them when an unimport is about to commit are in what it deletes (`Whole`). From it
  `VersionsHaveFiles`, `SeenIsWhole` and `ActiveStays`.

`CopierProofs` proves, for every feed of well-formed rows (`FeedAssumption`: rows with their
fields, no two of a file with the same line; `StopTimesAssumption`: a row of stop_times.txt
has no key and refers to its trip and to rows of the files `StopTime.UpdateKeys` names, all
read before the trips), all options, and all sizes of chunks and batches:

* `ReferencesHold`: `CopySpec => []NoDanglingReferences`, by `RefInv`: the entity map
  knows no key that neither a written row nor a service that the normalization generates
  provides (`WriteKeepsReferences`), so that a row whose references it resolved refers to
  nothing else; and while services are generated, they are all there is to read.
* `ReaderContract`: `CopySpec => []ReaderKeepsContract`. The state has no part in it: it is
  about what two passes over the same rows compute. Both are shown to be one simple
  function, `Pass`: for each trip in the order of its first row, what
  `emitJoinedTrip` makes of its rows and as many of its stop_times as may be held.
  - That `chunkTripStopTimes` is `Pass` (`ChunkPass`) holds because the chunks, one after the
    other, are the order of the trips (`chunkByCount` loses and repeats none).
  - That `streamTripStopTimes` is `Pass` on a grouped file (`StreamPass`) is an induction over
    the rows read: between two trips the output is that of the trips so far, and within a
    trip what is held is the beginning of its stop_times (`StreamAt`, `StreamBetween`). A
    trip that ends does not come back (`LastTripIsRead`), and the chunk the trip is looked
    up in contains it: its position in the order is the number of first rows read.
  - What `Pass` yields for a trip is at one place (`OutIs`), the first entry has the
    stop_times in order (`TripsComeUp`), every row of trips.txt is in one entry
    (`EachTripOnce`), and the fallback has the same entries in another order
    (`GenericIsThePass`).

  Underneath are the laws of the helpers: the n-th number of a set (`InOrder`), the rows at
  given positions (`RowsAt`), sorting (`SortExists`: a finite sequence of numbers can be
  sorted, so that what the CHOOSE of `InSequence` picks is sorted), and flattening.

* `PatternsFollow`: `CopySpec => []StopPatternsFollowStops`, by `PatternInv`, which speaks
  of every row from the batch to the writer: whichever reader yields the trips, no trip
  comes twice with stop_times (`ReadEntries`, `GenericEntries`); until a trip has its
  patterns its id names none, so that a flex trip, filed under its id, meets no other
  key; numbers are below the number of patterns and no two are equal (`Numbered`), so
  that the next number is new (`TripIsFiled`); and a trip keeps its number on its way
  through the groups to the writer (`TripsFiled`, `Moves`), which no other trip reaches
  outside its phase. That a batch loses and repeats no row is `TakenIs`; that groups
  hold the rows and no others is `GroupsCover`. `PatternInv` was checked with TLC on the
  instance of its run before it was proved.

* `TimesAreRecoverable`: `CopySpec => []TimesRecoverable`, by two invariants beside
  `Copying`. `JourneyInv`: a trip filed as a duplicate names the trip that brought its
  journey pattern (`Repeats`), which is no duplicate itself and, if it was written, was
  written with the key of the pattern, so at the same stops (`SameJourney`). `FollowInv`:
  the stop_times of a written trip that is no duplicate are each written, or on their way,
  or have a fault or a reference to a row of an earlier file that was left out
  (`Settled`). That nothing settled comes loose needs `Late`: what is written with the
  trips and after them has no key a stop_time waits for (`Lateness`), so that a reference
  that was missing stays missing to the end; and that no stop_time is left out for the
  lack of its trip is `TimeLeftOut`, since the entity map knows every key that was
  written. Both were checked with TLC on the instance of `Import_feeds` first.

`CacheProofs` proves the safety properties of `RTCache_life` for every set of
processes, readers and fetchers, every number of writes and lost connections and
every set of undecodable payloads, from `RTCacheAssumption`:

* `TypeCorrect`: `Spec => []TypeOK`.
* `NeverGoesBack`: `Spec => SnapshotsNeverGoBack`, by the invariant `Forward`: the
  store holds the last write or nothing, an update is loaded only for a topic that
  is held, and what is loaded is no older than what is held, since only the
  subscribe goroutine replaces a held message.
* `HeldIsCurrent`: `Spec => []HeldSnapshotsAreCurrent`, by the invariant `Tracked`.
  `HeldSnapshotsAreCurrent` speaks of processes at rest only, so it is not
  inductive; `Tracked` says of every state that a process which is behind the store
  (`Behind`: it holds an old message, or one of its readers is about to install
  one) still has the news coming (`Coming`: a fetcher that has yet to announce, an
  announcement in its inbox, a load to do, or the update read and not yet put),
  unless an update has passed it by. `DrainPut` needs `Forward` here: a put of an
  older update than the stored one only happens while the process is behind.
* `AbandonedTeachNothing`: `Spec => AbandonedReadsTeachNothing`.

`Forward` and `Tracked` were checked with TLC on the instance of `RTCache_life`
and on one of two processes before they were proved.

The same module proves the invariants of `KVCache_tiers`, for every set of processes
and goroutines and all times, from `KVCacheAssumption`:

* `KVTypeCorrect`: `KVSpec => []KVTypeOK`.
* `StalenessIsBounded`: `KVSpec => []StalenessBounded`, by the invariant `StaleInv`: the
  newest value is of age zero (`NewestIsTrue`), and a refresh call has lasted at least
  as long as the value it read is out of date (`CallsOutlastTheirValue`). So an entry is
  late by a refresh call at most when it is made, and afterwards its time runs down as
  fast as its value ages; reading, adopting and installing only copy it.
* `OneTickerEach`: `KVSpec => []OneTicker`, by `OneKnown`: a goroutine is the one its
  process knows, or has been told to stop and Stop is waiting for it; there are not two.

`ServiceProofs` proves the properties of `ServiceLevels_dates` for every length of the week
and of the calendar (whole weeks, `CalendarAssumption`), every limit of rows
(`RowLimitAssumption`) and every feed version, with any services, exceptions, trips,
times and time zones, whose rows are well typed (`FeedAssumption`) and whose trips are
finitely many and end no earlier than they start, as `stop_time_sequence.go:69` asks
(`VersionAssumption`):

* `SimplifyKeepsService`: `Simplify` changes on no day whether a service runs. The
  weekdays it picks do not matter; what does is that every day on which the service
  or the simplified calendar runs lies in the service period, where each difference
  becomes an exception (`RunsInPeriod`).
* `NoServiceIsExact`: the shortcuts of `HasAtLeastOneDay` are right, as a calendar of
  a week holds every weekday (`WeekHasWeekdays`).
* `ImportKeepsDays`: what is stored for a service runs on the days that the rows say.
* `ImportsRunAsWritten`, `LevelsAreService`, `WindowIsNeverPoor`, `NoWeekIsBusier`,
  `DatesAreServedAsWritten`: `Spec => []` of the five invariants of the run. `NoWeekIsBusier` does
  not put the fallback week into the window, where it need not be.

The state needs little: `ServiceInv` says that levels, calendars, window and answer are
each what the step that made them computes from the ones before. The work is in what
the steps compute.

* Sums. The library's induction theorems take an operator as a parameter, but an
  induction over the members of a *set* can be stated without one: a set of numbers
  that holds 0 and every successor holds all numbers (`AllNumbers`), and a set that
  holds every part of `S` whose parts with one member less it holds, holds every part
  of the finite set `S` (`AllSubsets`). With these the recursive function behind
  `SumFunctionOnSet` is shown to exist and to unfold (`SummingExists`, `SumRecursive`), and
  the laws that matter follow: a sum does not depend on the order in which the members
  are taken (`SumWithout`), and may be taken group by group (`SumByGroup`), which is what
  `fvsl.go` does when it sums trips into services and services into days.
* Weeks. Mondays are `WeekLength` apart (`WeeksApart`), a day is in the week of its
  Monday (`WeekOfDay`), and weeks of the calendar are whole.
* Rows. Every week from the first to the last of a row has service, and the same
  (`RowIsWhole`, by the first week after which that is so), every week is in a row
  (`WeekHasRow`, by the earliest alike week from which no row starts), and rows do not
  overlap (`RowsApart`). So the level found for a day is that of its own week
  (`LevelOfDay`), which is the sum over the trips that the rows of the feed say run
  (`LevelsSay`).
* Windows. Of finitely many rows one is the highest (`OneIsHighest`), and as rows are in
  order those that a window overlaps are those from its first to its last
  (`RowsOfWindow`); all of these the window has grown over, so none is poor
  (`WindowGrows`).
* Dates. A fallback week begins on a Monday, the zero date included, so that a mapped
  date keeps its weekday (`MappedDate`), and the lateral join of `trip.go` agrees with
  `IsActive` (`StoredSays`).

`AccessCheckerProofs` proves, for every set of users, entities, requests and calls,
and every store at the start that the authorization model allows
(`AccessAssumption`):

* `TypeCorrect`: `Spec => []TypeOK`; what is stored is always assignable, since
  requests are and `TenantCreateGroup` writes an assignable parent.
* `ReplacementsLeaveNoGap`: `Spec => NoGapInAccess`, by the invariant `GapInv`. For a
  replacement that has met no other on its slot, whatever an earlier one left there and
  whichever requests fail, it says: once it deletes, its own
  tuple is stored (`Present`), it is the only one at work there (`Apart`), what it
  is to delete is in its slot and is not its own tuple (`RivalsOnly`), and before it
  has read, it has nothing to delete (`NotYet`); the group it works on exists
  (`Known`), so that no creation shares its slot. The tuple it has written is then
  what holds the slot while the others go.

* `SlotsHoldOne`: `Spec => []SettledSlotsHoldOne` under `OrderlyStart`, by `SlotInv`, which
  adds to `GapInv` that a replacement which is alone and has heard of no error has every
  other tuple of its slot among those it is still to delete (`Covered`), and that a
  slot on which nobody is past its first write, and whose last replacement ended well,
  holds one (`Settled`).
* `RightsAreGiven`: `Spec => []GainsAreGiven` under `OrderlyStart`, by `GivenInv`. Who may do
  what to an object depends only on the tuples about the objects above it at the start,
  its cone (`ConeClosed`, and `SameMember`, `SameGroup`, `SameFeed`, `SameVersion`,
  `SameRights`, one for every kind of relation). As long as nobody who controlled the
  object has changed a tuple, the tuples of the cone are those of the start, and every
  call that is past its check and would change one is by somebody who controlled the
  object then (`GivenOf`). The check that is stale when the write follows is in it: what
  a call was allowed at its check it was allowed at the start.

`OrderlyStart` says that the store at the start holds one tuple per slot and none about
a group whose row is not there yet, as the calls leave it; `KindsAssumption`, that ids of
different types of entity differ, since an entity key carries its type
(`authz/tk.go`). Without either, the properties fail for want of a proper start, not
because of the calls. `MCAccessChecker` has TLC check both on its instance.

`RegistrySyncProofs` proves the properties of `RegistrySync_registries` for every set of
feeds, operators, agencies, versions and registries and every number of syncs and
activations, from `RegistrySyncAssumption`. All of them speak of the step that commits; the
invariant `SyncInv` says what the transaction has settled after each statement before it:

* `Typed`: types, and that what is still to be done is part of what was asked for
  (`TypeCorrect`: `Spec => []TypeOK`).
* `Following`: of the rows committed before, the transaction has changed those of the feeds
  and operators it has dealt with, as the registry says, and hides only in its last
  part (`SettledUpsert`, `SettledHide`). From it `OnlyUnseenHidden`.
* `KnownStates`: every feed has its row of `feed_states`, since `EnsureFeedState` follows the
  write of the feed. So a feed in the sync's tables always has an active version to ask
  for, the one that the commit leaves unless the feed was activated meanwhile
  (`AgenciesKept`, `AgenciesMoved`, `ActiveSeen`). The stale row that
  `SetFeedStatePublic` writes back is no exception: a sync reads agencies only
  after all feeds are written, and by then it holds that row.
* `Associating`: the keys of an operator dealt with are those that the registry resolves
  to. For the one in progress they are the matched ones and those inserted beside the
  ones it had; it does not matter that `oiflookup` does not see the inserted ones
  (`MatchStep`, `DropStep`). From it, with `Generating`, `AssociationsFollow`.
* `Generating`: every agency of a feed dealt with has an association, and its generated
  ones are of its agencies, one each, whichever row the lookup has found
  (`GeneratedHere`). From it `AgenciesServed`.

`SyncInv` was checked with TLC on the instance of the run before it was proved.

Model-checked only:

* Liveness under fairness (`AcceptedJobSettles`, `DrainCompletes`,
  `TopicIsEventuallyServed`, `PeriodicsEnd`), which is out of the proof system's reach.
* Of `Copier`, `NothingLeftOutWithoutCause`: that a reference which is missing when a row is
  checked stays missing to the end is known of stop_times (`StopTimesAssumption`, `Lateness`);
  for the rows of every file it needs an assumption on which file refers to which, and that
  no two files share the lines of their rows.

## What is left

A theorem of `NothingLeftOutWithoutCause`: an assumption on the references of every phase,
read off the `UpdateKeys` and `target` tags of the types, and an invariant on what of a phase
is taken, written or left out, like that on the stop_times of written trips (`FollowInv`).

## Not modelled

* The job router: it fans Run, Stop, Shutdown and Wait out to its backends and joins
  their errors, so that the error of a backend that fails at its start is heard when
  all the others have ended (`router.go:53`); it has no state of its own.
* The validator, its rules, the CSV and GTFS types, the query layers and the
  directions router: sequential code over large data with little control to check.
* The SQLite adapter, which allows fewer interleavings than the one modelled;
  generated and vendored code. `PROJECT.json` gives the reason for each part.
