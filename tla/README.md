# gtfs-realtime in TLA+

A TLA+ development of the gtfs-realtime server: the asyncio process that polls
GTFS-Realtime sources and streams vehicle positions over SSE, and the Celery
workers that ingest the static schedules it joins them with. It models the
parts that are hard to test (coroutines that interleave at their awaits,
shared budgets, loader threads, crashes between two steps of an ingestion),
checks them with TLC on small instances, and proves what matters most of them with
TLAPS for every instance.

Paths below are relative to the repository, i.e. `services/x.py` is
`src/src/services/x.py` in the `source` fields of `PROJECT.json`.

## 1. Inventory

How the parts interact:

    browser --SSE--> transit_feed() ---get()---> RealtimeFeedCache --fetch--> source
                        |    |                        ^   |  try_consume
                        |    +--update()/get()-->     |   +--------> SharedFeedQuota
                        |        RecentEventsCache    |                   ^
                        +--get()--> ScheduleCache     +--get()/set()--+   | try_consume
                        +--get()--> TransferCache         schedulers -+---+
                                       |  to_thread(_load)
    Celery beat --> fetch_all_systems, ensure_schedule_data --> Fetcher --> Postgres

| component | state it keeps | operations | what is hard | correct when |
|---|---|---|---|---|
| SharedFeedQuota (`services/shared_feed_quota.py`) | a deque of spend times per quota group, in process memory | `try_consume` | rolling window boundaries; a restart empties it | no rolling window holds more than the limit; refused only in a full window |
| RealtimeFeedCache (`services/realtime_feed_cache.py`) | feed, fetch time and asyncio.Lock per key | `get`, `set`, `peek` | callers interleave around the lock and the fetch; failure, timeout, cancellation; budget checked before an await | one fetch per key at a time, spaced by the interval, never an older feed over a newer, every call ends, only cold starts exceed the budget |
| QuotaGroupScheduler, RegionalFeedScheduler (`services/quota_group_scheduler.py`, started in `main.py`) | cursors, tick count, `next_update_at` | `run`/`tick` of each | pacing against the budget, failing or refused turns, two schedulers on one budget | pacing never meets a spent budget, turns are equal and on time, the announced time is near |
| transit_feed (`main.py`) and RecentEventsCache (`services/recent_events_cache.py`) | position of each SSE generator; the recent event of each trip | connect and burst, poll loop, `update` | a generator is suspended at each event for as long as its client takes | no client goes back in time; ended trips age out; newest position kept |
| ScheduleCache, TransferCache (`services/schedule_cache.py`, `services/transfer_cache.py`) | twelve (four) dicts and `_loaded_at` per system | `get`, `_load` in a thread | the thread writes while the loop reads without the lock; cancellation frees the lock but not the thread; several SELECTs under READ COMMITTED | a fresh cache is the whole of one load, no stampede, no dict goes back |
| Fetcher and tasks (`commands/fetcher.py`, `tasks.py`) | `tmp_dir`, `real_dir`, marker file, the tables and `last_fetched_at` | `fetch_all_systems`, `ensure_schedule_data`, `fetch_metadata_update`, `do_upserts` | crash at any step, ephemeral files against a durable database, stale files, exceptions swallowed inside a transaction | only diagnosed feeds promoted, tables in reference order, one download a day, an empty system repaired, the newest feed ingested |
| Regional demultiplexing (`services/regional_feed.py`, `commands/regional_feed_diagnose.py`) | none | `split_feed_by_agency`, `compare_feeds`, `compare_alert_feeds` | trip updates carry their agency as a prefix, alerts as a field; native ids may contain colons | each entity goes to the system of its agency, with its own ids; the report lists what the two answers of the source differ in |
| Positioning (`services/positioning.py`) | none | `get_location` | missing times, stops without a dwell | a vehicle under way is always placed, between two adjacent times |
| Row helpers (`services/schedule_utils.py`, batching in `commands/fetcher.py`) | none | scan of `stop_times.txt`, deduplication, batched upserts | rows in any order, fields missing, a key twice in or across batches | both ends of a trip found; last write wins and no statement touches a row twice |
| Views of a feed (`main.py`, `services/trip_detail.py`, `transfers.py`, `transfer_cache.py`, `service_alerts.py`) | none | the events of the stream, `trip_detail`, `get_lines`, `service_alerts`; transfers inside and between systems | a trip without an id, rows and names that are missing, loops and turnbacks, ids of another system | the page agrees with the event it was opened from, the filter has the line of the map, an alert shows what looking up each id would, the tail completes the feed, a transfer is offered both ways |
| Regional stop areas (`commands/regional_stop_areas.py`, its task) | `stop_area`, `regional_stop_match` | the daily run | nearest stop within a distance, stale matches | the crosswalk is what the last run that saw a stop found nearest |
| Registry and migrations (`models.py`, `alembic/`) | `transit_system`, the tables that reference it, the revision | `alembic upgrade`/`downgrade` | rows inserted by an early fetch, rollbacks, a key that is missing, foreign keys | one registry at the head, pace and group together, a deploy is never stuck |
| Settings, telemetry, generated code, deployment | configuration | - | - | - |

`PROJECT.json` lists, under `hazards`, every place in this code where something
can go wrong that a test would hardly reach, with the properties that would
catch it or the reason why none does.

## 2. Modules and their correspondence to the code

| module | models | granularity |
|---|---|---|
| `RollingWindow` | the abstract promise of the quota: a grant happens only with room in the window | one action per grant |
| `SharedFeedQuota` | `try_consume` and a restart of the process | `try_consume` has no await: one atomic step |
| `SharedFeedQuota_proofs` | the theorems about it | |
| `RealtimeFeedCache` | `get` and `set`; `INSTANCE SharedFeedQuota` over its own variables | one action from each await of `get` to the next |
| `SingleFetcher` | the abstract promise of `get` for a key: one fetcher with one request at a time | one action per request, answer, storing and giving up |
| `RealtimeFeedCache_proofs` | the theorems about it; `INSTANCE SharedFeedQuota_proofs` | |
| `QuotaGroupSchedulers` | both schedulers of one group, HTTP requests and the lock of each key; `INSTANCE SharedFeedQuota` | one action from each await of `tick` and of `get` to the next |
| `QuotaGroupSchedulers_proofs`, `TransitFeed_proofs`, `ScheduleCache_proofs`, `ScheduleFetcher_proofs`, `Migrations_proofs` | the theorems about these modules | |
| `TransitFeed` | the generators of the clients of one system, `RecentEventsCache`, `peek` | connecting, burst, merge, sleep, the two ends of a fetch; the events of one poll are one suspension |
| `ScheduleCache` | `get` and the loader threads of `ScheduleCache` and, with other constants, of `TransferCache` | one SELECT or one assignment of a dict is one step of the thread |
| `Subsequences` | the loop that appends the entries satisfying a condition, which the algorithms below use | recursive functions over a set of places, so that facts about them can be proved for any condition |
| `RegionalFeed` | `split_feed_by_agency`, the two comparisons and the diagnosis made of them | operators; an id is the sequence of its parts between colons |
| `Positioning` | `get_location` | operators |
| `StationTransfers` | the dicts of `TransferCache` and `resolve_inter_system_transfers` | operators over sets of rows |
| `ScheduleRows` | the scan of `stop_times.txt`, `dedupe_rows_by_columns`, `_upsert_batched`, `upsert_stop_times` | operators; a row is its key, the columns a re-fetch refreshes and those it keeps |
| `TripDetail` | `_tail_stops_after_anchor` | operators |
| `ScheduleDicts` | what the twelve dicts of `ScheduleCache` hold of the rows of a schedule, `query_intra_transfers` | operators |
| `TripViews` | the event of a trip, `trip_detail` and `get_lines` over one feed and one schedule | operators; `INSTANCE TripDetail` |
| `ServiceAlerts` | `extract_referenced_ids`, `get_alert_hydration_data`, `build_service_alerts` | operators |
| `RegionalStopAreas` | the daily run over a zip and the database | operators; a place is a point on a line |
| `FeedAlgorithms` | what these promise, over one input of one of them | the input is the only state |
| `FeedAlgorithms_proofs` | the theorems about them | |
| `Migrations` | `alembic upgrade` and `downgrade`, and ingestion at the head revision | one command is one transaction, made of one `UpgradeStep` or `DowngradeStep` per revision |
| `ScheduleFetcher` | both Celery tasks on one system in any number of workers, the directories, the transaction | one step per file renamed, per table upserted, per gate |

`MC<module>` gives a module's constants their values for TLC. `PROJECT.json`
maps each definition to the lines it translates. In every module:

- **State.** A variable carries the name of the attribute it stands for
  (`timestamps` is `_timestamps`, `fetchedAt` is `_fetched_at`, `tripCursor` is
  `_trip_updates_cursor`). Variables marked *history* exist in no attribute;
  properties need them to relate a state to earlier ones.
- **Data.** A feed or a table is the version of the source's data that it was
  made from, a position is the version and the timestamp, a dict of
  `ScheduleCache` is the version of each table it was built from.
- **asyncio.** A coroutine runs alone between two awaits. An `asyncio.Lock` is a
  FIFO queue whose head owns it; a free lock is acquired without suspending.
  Cancellation removes a task from the queue wherever it is.
- **Time.** `now` is `time.monotonic()`/`time.time()`; in the scheduler module it
  does not pass a due task or a fetch that has reached its timeout (`OnTime`).
- **Mutants.** A definition whose comment begins with "Mutant:" is no part of the
  model. It is a plausible bug that the property named in `PROJECT.json` detects
  when it takes the place of the definition after it.

`ScheduleCache` covers two classes. They have the same `get`, the same double
test and the same `to_thread(_load)`; `ByName`, `Selects` and `Writes` are what
differs (`TransferCache` has three SELECTs, four dicts and no lookup by name). The
run uses the four SELECTs of the first and five of its twelve dicts, one for each
combination of tables, the first and last assigned among them.

Two modules repeat as much of `get` as their properties depend on. In the scheduler
module a direct turn and the HTTP requests for its key hold one lock over their fetches:
a tick that finds it taken waits, and then, its interval being 0, fetches again itself. Any
waiter may be the next holder there (the real queue is in order). In the endpoint module a
fetch begins and ends: it answers with a feed that was the newest at some moment in
between; only one `get` fetches at a time, while the combined fetch of a regional
scheduler runs beside it and `set` stores without the lock, so that the older of two
answers may be stored last (`overtaken`).

## 3. Runs

| run | what it asks | states |
|---|---|---|
| `quota` | window bound, agreement of deque and history, refinement of `RollingWindow`, one budget per process across restarts | 374,781 |
| `cache_budget` | two keys of one group, one also written by `set`: the excess over the budget is one cold start per key while nothing fails, and an older answer stored over a newer feed does not stay (`RacesHeal`) | 774,667 |
| `cache_contention` | three callers of one key with failures and cancellations: they implement `SingleFetcher`, spacing of refreshes, no older feed, interval 0 means current, every call ends | 54,075 |
| `schedulers` | the round robin alone: never refused, equal turns, the predicted time; a group in migration, with both schedulers and HTTP requests on one budget and, for a key, on one lock: the budget holds although turns are refused | 1,271,540 |
| `transit_feed` | two slow clients of a system that is fetched for itself or belongs to a regional feed: no stream goes back unless an answer of `get` has replaced a newer one of `set`, ended trips age out, the cache keeps its size | 654,636 |
| `schedule_cache` | two callers, two loader threads, commits between SELECTs, one cancellation: fresh means whole, no stampede, no older dict, every call ends | 300,125 |
| `schedule_ingest` | two workers whose fetches do not overlap, five kinds of feed, two mishaps anywhere: only diagnosed feeds are promoted, table order, daily gate over restarts, an empty system is repaired | 402,223 |
| `feed_algorithms` | the pure algorithms against their docstrings and against each other, over every input of a bounded size | 190,507 |
| `migrations` | every sequence of upgrades, downgrades and ingestions: one registry at the head, pace and group together, no deploy stuck | 5,112 |

Three runs expect a violation; each is a disagreement between the code and what its
comments or documents say (`findings` in `PROJECT.json`):

- `recent_events`: the docstring of `RecentEventsCache` promises the most recent
  position of a trip. A slow client merges its older poll over a newer one.
- `fetch_daily_gate`: README.md promises one fetch per system and UTC day. A download
  that needs no update sets neither gate, and is repeated at the next run.
- `fetch_new_feed`: the task is to keep the database up to date. `should_update` tests
  the dates of the feed just downloaded, so a new feed published while valid is
  downloaded but not ingested until its own dates end or the container is replaced.

### Bounds, and why they are enough

- `quota`: limits 2 and 1, a window of 3, 8 instants, a third group that is not
  configured. A window slides over its own length twice, two groups cannot be
  confused, one restart shows the excess across processes. The theorems need no
  bound.
- `cache_*`: a window of 2 and intervals of 2 within 3 or 4 instants let a feed expire
  and the budget refill; three callers are the holder, a waiter and one that
  overtakes; two mishaps are a failed holder and a cancelled waiter. `Changing` names the
  keys whose source publishes new versions: in `cache_budget` the regional one, which is
  the one that `set` races for, twice.
- `schedulers`: the initial state is what the database may hold when the process starts
  (`Startups`): three systems fetched directly, two of them with alerts (`DirectOnly`), one
  system alone, whose turn is as late as `PredictionNearTurn` allows (`Single`), or one group in
  migration, two systems fetched directly beside a regional one (`Migrating`). Each has a
  bound for its clock. A budget of 3 in a window of 6, so that four ticks fall into
  some window if the pause is one instant too short; 12 instants are a whole rotation of
  three members with its alerts ticks and half of the next. `ALERTS_TICK_EVERY` is 3 where the
  code has 5, so that alerts ticks fall at two places of a rotation within the horizon.
  `MaxLatency` 1 is half a tick, so that a tick behind a request's fetch is a whole tick
  late. One `get` fails, at any moment. One HTTP request is made in the first two cases, which
  is enough to hold the lock that a tick needs, two in the third: they can wait for each
  other and for a turn. Requests are interchangeable and the properties are safety
  properties: symmetry is sound.
- `transit_feed`: with two clients one can be slower than the other; one slot in
  the cache and two trips make every merge truncate; two feeds let a slow answer be
  overtaken by a new one (three in `recent_events`, of a system fetched for itself). The clients and the trips are interchangeable and both
  properties of the run are safety properties: symmetry is sound.
- `schedule_cache`: two callers and one cancellation give two threads at once, two
  versions let every SELECT fall before or after a commit.
- `schedule_ingest`: two versions are the promoted and the newer feed; three of the five
  kinds of feed are published when their dates are over or without dates, so that they
  need no second copy of each state for the day on which they expire; two mishaps
  can hit both steps of any pair; two workers are one that has listed the system and one
  that fetches it meanwhile. The constraint `Alone` stops at states in which two fetches have
  overlapped, of which the properties say nothing. Four files and four tables stand for the ten and
  the six (one that headsigns need, one that is scanned, the first and the last).

- `feed_algorithms`: two entities of two known agencies and an unknown one, with blank,
  colon-bearing and code-like ids; three stops with any of their times missing at
  every instant; every area and stop table over three stop ids and two systems, with
  and without a crosswalked stop; three rows in any order; files of five rows over
  three keys in batches of one to three; schedules of five stops over three ids with
  every subset reported live. A loop, a turnback, a key that comes back in the same,
  the next and a later batch all fit. Feeds of two entities of any shape over schedules
  of two trips and two routes with any name, row or direction missing; two alerts that
  inform of stored, unstored and blank ids; a direct feed whose entities have gone, changed
  or stayed when the combined one is fetched; two rows of one route, and a route with one
  of its colours; a stop in an area by its own id that has a match elsewhere; a crosswalked
  system beside one whose ids the region uses, with places nearer and farther than the limit and stale matches.
- `migrations`: the whole chain and the whole registry; every pair of revisions is a
  command. `Ingested` and `Early` name the systems whose rows and early rows differ in
  what the steps do with them, `Shape` the traits of a schedule that a restored
  constraint rejects.

### Fairness

- `RealtimeFeedCache`, `ScheduleCache`: weak fairness of the steps of a task that is
  ready and of a thread: the event loop resumes every ready coroutine, and
  `requests.get(timeout=30)` ends with a response or an exception. None for the
  arrival of calls, failures, cancellations and the clock.
- `RealtimeFeedCache`, for `RacesHeal` (`RegionalFairness`): the regional scheduler fetches
  the combined feed again and again (`run` is a loop that logs every exception), and
  its source mentions each regional key in some of the answers.
- `ScheduleFetcher`: weak fairness of the steps of a started task (Celery runs it to its
  end) and of midnight; strong fairness of starting each task, because Celery beat
  queues both again and again while they compete for workers. None for
  publications, failures, crashes.
- The other modules state safety only and assume no fairness.

## 4. Proofs

`SharedFeedQuota_proofs` proves, for all groups, limits, window lengths and bounds
allowed by `QuotaAssumption` (limits are naturals, the window is positive):

| theorem | states |
|---|---|
| `TypeCorrect` | `Spec => []TypeOK` |
| `QuotaInvariant` | `Spec => []QuotaInv` |
| `WindowBoundHolds` | `Spec => []WindowBound` |
| `DequeAgrees` | `Spec => []DequeAgreesWithHistory` |
| `RollingWindowImplemented` | `Spec => ImplementsRollingWindow` |
| `RestartsCostABudget` | `Spec => []BudgetPerProcess` |

`WindowBound` speaks of the history of spends and is not inductive: `try_consume`
looks at the deque only. The strengthening `GroupInv` says what ties the two: the
deque is the youngest part of the history (`DequeIsSuffix`), everything before it
has expired, the history is ordered, and it is within budget. Then, if the deque
is shorter than the limit when a spend is appended, the spend that is `limit`
places earlier lies outside the deque and has expired, which is exactly the new
instance of `WithinBudget`. Two lemmas carry the step: pops keep `GroupInv`
(`PopsKeepGroupInv`, everything popped had expired) and appending `now` with room keeps
it (`SpendKeepsGroupInv`); the clock keeps it because expiry is monotonic.
Refinement follows: with `GroupInv`, room in the deque is room in the window.
`RestartsCostABudget` carries, in `ProcessesInv`, the spends of the processes that have ended:
they are within one budget per restart, and stay so because a restart joins an ordered
history within `n` budgets with one within a single budget (`JoinedBudgets`).

`RealtimeFeedCache_proofs` proves, for all keys, callers, intervals, groups, limits and
versions allowed by `CacheAssumption` (which contains `QuotaAssumption`):

| theorem | states |
|---|---|
| `LockHeld` | `Spec => [](LockTypes /\ LockDiscipline)` |
| `NeverOlderHolds` | `Spec => NeverOlder` |
| `BudgetHeldInCache` | `Spec => []Quota!WindowBound` |
| `TypeCorrect` | `Spec => []TypeOK` |
| `SingleFetcherImplemented` | `Spec => ImplementsSingleFetcher` |

`LockDiscipline` is inductive together with `LockTypes`, the types that do not depend on
the clock. Every step changes the queue and the calls in one of three ways, each
with its lemma: a task joins the end of the queue and fetches only if it was empty
(`JoiningKeepsLock`), leaves its place wherever that is, as the owner that returns or
as a cancelled waiter (`LeavingKeepsLock`), or stays and starts or ends its request
(`StayingKeepsLock`). `NeverOlder` needs one more invariant, `AnswersFresh`: an answer
that waits to be stored is no older than the cached feed. It is inductive only
because of the lock, since two answers for one key at once would let the older be
stored last (`OneFetch`).

The lemma `QuotaUsed` notes that each step of the cache is one step of `SharedFeedQuota` or
leaves its variables alone. With it the theorems of the quota are used and not
proved again: `BudgetHeldInCache` is `WindowBoundHolds` instantiated, and `TypeCorrect`
takes the types of the clock and of the deques from the quota's theorem.

`SingleFetcherImplemented` is the other refinement: for each key that only `get` writes, the
set of requests in flight is the abstract fetcher's. Every step of the cache does to a
key one of the few things that `KeyStep` lists, because at most one task fetches it
(`OneFetch`); each of them is a step or a stutter of `SingleFetcher`.

About the clock, the versions and the history of requests the same module proves, from these:

| theorem | states |
|---|---|
| `RefreshesAreSpaced` | `Spec => RefreshSpacing` |
| `ZeroMeansCurrent` | `Spec => ZeroIntervalIsCurrent` |
| `ColdStartsAreTheExcess` | `Spec => []ExcessOnlyFromColdStarts`, if `Key` is finite |

- `SpacedInv`: the feed that a fetching task found stale is still stale when its answer
  comes, since only the owner of the lock stores a feed of such a key and time only ages it.
- `SinceInv`: no answer in a task's hands is older than what its source served when the task
  called; `StampInv`: nothing is cached in the future, so that interval 0 is never fresh.
- `ExcessInv` counts. A function that does not go back leads each request to the number of
  spends granted by then (`Matches`), and there are at most as many requests without a spend as
  keys that have been started (`Started`). A window of requests is then a window of spends,
  which `BudgetHeldInCache` bounds, and at most one more request per key.

`QuotaGroupSchedulers_proofs` proves, for every rotation, budget, interval and latency allowed by
`SchedulerAssumption`:

| theorem | states |
|---|---|
| `TypeCorrect` | `Spec => []TypeOK` |
| `TurnsAreEqual` | `Spec => []EqualTurns` |
| `BudgetIsRespected` | `Spec => []BudgetRespected` |
| `PacingEnforces` | `Spec => []NoTurnDenied` |
| `PredictionsHold` | `Spec => PredictionNearTurn` |

`EqualTurns` is the projection of `TurnInv`: each of the two rotations is a round under way, the
members before its cursor one turn ahead of the others (`RoundUnderWay`).
`BudgetRespected` follows from the window bound of the quota, because the requests that were
sent under it are `Among` its grants. `PacingEnforces` is the pacing argument of the docstring:
`PaceInv` says that the grant `n` places from the last is at least `n` ticks old and the last
one a whole tick when the scheduler wakes, so a window of `budget` ticks holds fewer
than `budget` of them; with `DequeAgreesWithHistory` the deque has room and
`try_consume` says yes.
`PredictionsHold` is about a single step, the turn of a member, but rests on all the ticks since
its last one. A tick may end as late as twice `MaxLatency` after it was due: it waits for the lock
while a request fetches and fetches then itself (`Spacing`). `PredictionInv` says, for every member at every moment, between which times its
turn can come given its place in the rotation (`Ahead`), the ticks until then with the alerts ticks
among them (`TicksUntil`) and the soonest and latest moment of the next tick, and that
`nextUpdateAt` was set to agree with that. A tick moves each member one place ahead and takes one
tick off what is left of the way; a failure ends what the property promises.

`TransitFeed_proofs` proves, for any number of clients and trips and any size of the cache:

| theorem | states |
|---|---|
| `StreamInvariant` | `Spec => []IInv` |
| `NoClientGoesBack` | `Spec => ClientNeverGoesBack` |
| `TripsAgeOut` | `Spec => EndedTripsAgeOut` |

Its invariant `OrderInv` orders what the parts hold, until an answer has been stored over a newer
feed: what a client has been shown is no newer than what it is being sent, and nothing is newer
than the cached feed. `LockInv` says why that lasts for a system which is not regional: one
`get` fetches at a time, and what is cached is no newer than what it may answer. A client has seen
nothing when its burst is sent, so that the events which other clients merged late, and which
may be old, cannot take it back.

`ScheduleCache_proofs` proves, for any number of callers, threads, SELECTs and dicts:

| theorem | states |
|---|---|
| `LoadInvariant` | `Spec => []IInv` |
| `LoadTypeCorrect` | `Spec => []TypeOK` |
| `FreshCacheIsWhole` | `Spec => []FreshIsWhole` |
| `LoadsAreBounded` | `Spec => []NoStampede` |
| `DataMoveForward` | `Spec => NeverOlder` |

`ThreadInv` says that one thread at most is awaited, by the head of the queue, and that each of
the others was left by a cancelled caller; that bounds the threads. `DataInv` speaks of the time
while nobody has been cancelled: a thread that reads or writes does so while the cache is
stale, what it has read is no older than what it replaces (`Progress`), and when none is
writing the dicts are those of the last whole load.

`ScheduleFetcher_proofs` proves:

| theorem | states |
|---|---|
| `TypeCorrect` | `Spec => [](TypeOK /\ TransactionHeld)` |
| `IngestInvariant` | `Spec => [](alone => IngestInv)` |
| `DiagnosisGates` | `Spec => []DiagnosedBeforePromotion` |
| `TablesInOrder` | `Spec => []UpsertsInOrder` |
| `GateSurvives` | `Spec => GateSurvivesRestart` |

The number of workers, versions, failures and crashes is arbitrary. What the properties need is that
no two fetches of the system overlap: the history variable `alone` says that this has been so up to
now, and each of them is stated while it is true. The code does not see to it (section 5 says what
fails otherwise). While it is true, one worker is at work (`OneAtATime`) and the others are between
fetches. The invariant is about the files that an interrupted run leaves: those still in
`tmp_dir()` and those already promoted from it are of one version, no older than what the
tables hold (`OneVersion`), so that the next run promotes and ingests one feed and not a
mixture of two. TLC has checked `IngestInv` as well. `GateSurvives` needs one more,
`GateOpen`: the gate that `fetch_all_systems` has passed is still open while it waits for its
download, because only a commit closes it and no other fetch is at work.

`Migrations_proofs` proves, for any registry of systems that onboarding adds and any that an
early fetch has left:

| theorem | states |
|---|---|
| `DatabaseFollowsRevision` | `Spec => []RevisionDetermines` |
| `HeadCanonical` | `Spec => []HeadIsCanonical` |
| `PacingFollowsGroup` | `Spec => []PacedIffGrouped` |
| `DeployNeverStuck` | `Spec => []UpgradeNeverStuck` |

The three properties speak of one revision or of one command, and none is inductive: what a
downgrade restores decides what the next upgrade meets. `RevisionDetermines` says for each
revision which systems there are, what the row of each may hold (`RowAt`, by the
kind of system) and which tables hold rows of them. It is kept by each of the 25 steps
upwards (`DatabaseUpgraded`) and downwards (`DatabaseDowngraded`), and so by a command, whose steps are
a recursive function along the chain: the least step of the path at which the invariant failed
would be one of those (`UpgradePathKept`, `DowngradePathKept`). The three properties are then
about the rows of one revision, and every step of an upgrade is possible from them.

`FeedAlgorithms_proofs` proves, for inputs of any size:

| theorem | states | assuming of the inputs it is about |
|---|---|---|
| `VehiclesArePlaced` | `Spec => []VehicleIsPlaced` | the known times of a trip are in order (`LiveTripShape`) |
| `TransfersAreMutual` | `Spec => []TransfersGoBothWays` | the rows are pairs (`StationTablesShape`) |
| `DemuxIsExact` | `Spec => []DemuxRestoresFeeds` | the entities are of the two kinds and carry a code; the ids of an alert do not look prefixed with its own (`PartsShape`) |
| `ReportIsExact` | `Spec => []ReportListsChanges` | the same, and an agency uses an id once in each answer (`DiagnosedShape`) |
| `ScanKeepsBothEnds` | `Spec => []ScanFindsBothEnds` | a `stop_sequence` is a natural number or missing (`ScannedRows`) |
| `LastRowStays` | `Spec => []LastWriteWins` | the batch size is positive (`RowFileShape`) |
| `TailIsComplete` | `Spec => []TailCompletesTrip` | the feed reports some stop of the schedule (`CoveredTripShape`) |
| `DetailAgreesWithStream` | `Spec => []DetailMatchesStream` | stored names, routes and colours are missing rather than empty (`TablesShape`), a vehicle is at one of its stops (`ViewedFeedShape`) |
| `LineFilterIsComplete` | `Spec => []LineFilterCovers` | the same |
| `AlertsAreHydrated` | `Spec => []AlertsHydrated` | a named route is not "missing" (`AlertFeedShape`) |
| `CrosswalkStaysCurrent` | `Spec => []CrosswalkCurrent` | a system has a stop once, places are numbers (`StationRunShape`) |

Each assumption is a definition of the module; the inputs of the run satisfy all of them, so
what is proved includes what is checked. `input` never changes, so each theorem is a fact about
one input of any size. These facts are by induction along the input. The library's
induction theorems take an operator as a parameter and cannot be used; instead a recursive function
is led by `Recursion` to what its steps do, and a fact about all its steps is the set of the
steps at which it holds (`UpTo`, from the least element of its complement). What a filter keeps
is the increasing sequence of the places in a set (`PlacesEnumerated`, `Selected`), which is why
`Subsequences` has them as sets and not as conditions. On these rest:

- `VehiclesArePlaced`: the first stop of the trip that is ahead of the vehicle. With all times known,
  the vehicle is at that stop or on the way to it; and times in order leave none between the
  two that `get_location` returns.
- `DemuxIsExact`: each part of a combined feed is attributed to its agency and stripped to itself
  (`RestoredPart`), and a system's entities are at the same places of the combined feed and of its parts.
- `TailIsComplete` counts. The visits of the last stop and the reports of it are two increasing
  sequences of places; one embeds in the other, so that as many reports as visits (`IncreasingBound`)
  is the same as every visit reported.
- `LastRowStays`: `Deduplicated` says what the dict of `dedupe_rows_by_columns` leaves, `FileInBatches` that
  each row is in one batch and the batches are in order, `LastWritten` what the statements so far have
  left of a key. A row written last in its batch with no later batch writing its key is the
  last of the file, both ways the fetcher batches.
- `CrosswalkStaysCurrent`: some place is nearest (`NearestIsNear`: a least distance, and a first stop
  at it), so that a regional id is matched exactly to the stops it is wanted for, and the
  upsert leaves one of the matches of each stop and touches no other.

Every invariant and every action property that a passing run checks is stated by a theorem. Only
model-checked are the liveness properties (`GetReturns`, `RacesHeal`, the end of a call of
`ScheduleCache`, `EmptySystemRepaired`), because they rest on fairness, which the prover does not
handle.

## 5. Not modelled, and known limits of what holds

Things the models show that are not stated as properties because the code does not
provide them:

- A restart of the server forgets the spent budget (`services/shared_feed_quota.py:34`), so
  "can never exceed the budget by construction" (`services/quota_group_scheduler.py:17-18`)
  holds per process; `BudgetPerProcess` is what holds in general.
- `set` takes no lock (`services/realtime_feed_cache.py:86-98`): a `get` under way may store
  an older answer after it. `NeverOlder` and `RefreshSpacing` are stated for keys that
  are not written by `set`, and `ClientNeverGoesBack` excepts the streams of a regional member
  once this has happened: such a client may be sent an older poll than it was shown.
- A member that its combined feed no longer mentions is not refreshed by the regional scheduler,
  and nothing announces it. `RacesHeal` is about members that are mentioned again.
- `next_update_at` ignores the alerts ticks, the first, immediate tick, and the time that a tick
  waits for the lock of a request and fetches; `PredictionNearTurn` bounds the error.
- Both schedulers on one budget refuse each other turns, as the code's comment says;
  `NoTurnDenied` is for one scheduler alone.
- After a cancelled caller a loader thread runs on, and two threads may leave dicts of
  two loads (`NoStampede` bounds the threads, not this). Independently, four SELECTs can straddle a commit, so one load may mix
  two versions of the schedule until the TTL ends (`NeverOlder` does not say otherwise).
- `do_upserts` catches exceptions inside `engine.begin()` (`commands/fetcher.py:571-583`), so a
  Python exception commits the tables upserted before it and `last_fetched_at`,
  although the comment at lines 996-1001 expects a rollback.
- A crash between promotion and upserts leaves a feed that the files call ingested.
  It is repaired only for a system that has no data (`EmptySystemRepaired`).
- `ensure_schedule_data` passes `force=True`, where README.md:184,
  docs/architecture.md:81-84 and tasks.py:34-36 describe the daily gate for every fetch.
- Nothing keeps two workers from fetching one system at once: both tasks are queued on the
  hour, `docker-compose.yml:51` starts Celery with its default concurrency, and the workers share
  `tmp_dir`. Without the condition that fetches do not overlap (`alone`) TLC refutes all four
  properties of `schedule_ingest`. `DiagnosedBeforePromotion`: one worker diagnoses its feed,
  another starts and downloads one that was just published and is not usable, and the first
  promotes that. `UpsertsInOrder`: a download of another falls
  between two renames of a promotion, and the files of two versions are upserted together.
  `GateSurvivesRestart`: a commit falls between another's gate and its download.
  `EmptySystemRepaired`: a forced fetch removes the files of the other, again and again.
- A file without a usable row returns from its upsert without an error
  (`commands/fetcher.py:666-667`, `:823-824`): the fetch is committed as complete and that table
  stays as it was. `UpsertsInOrder` allows for it, and `EmptySystemRepaired` is about sources
  whose feeds have rows for all tables in the end: without any usable route a system counts as
  empty for ever.
- An upsert of an existing row refreshes neither `route_id` of trips nor `trip_id` of stops
  (`commands/fetcher.py:831`, `:904`): `kept` in `ScheduleRows`. `LastWriteWins` speaks of the rest.
- The id of an alert loses a prefix that looks like the code of its agency
  (`Restored` in `FeedAlgorithms`); all other ids of demultiplexed entities are exact.
- When the live feed no longer reports an earlier visit of its last stop, the scheduled
  tail shows stops again; `TailCompletesTrip` states exactly when it does not.
- A vehicle is on the map at no instant that equals one of its times, nor next to a
  missing time: `VehicleIsPlaced`.

- `TransferCache` looks into the crosswalk before the area of a stop's own id
  (`services/transfer_cache.py:151-153`), where the comment at `models.py:554-557` says the
  reverse: a stop that is in an area by its own id and has a match loses the transfers of
  its own station, and `match_regional_stops` (`commands/regional_stop_areas.py:188-207`) does
  match such stops. `TransfersGoBothWays` therefore says that a transfer is offered back by
  every stop that is looked up at the station, and that there is none only in this case.
- The page of a trip shows a route's `color` without its `text_color`
  (`services/trip_detail.py:84-90`); the dicts of the stream keep a route's colours only as a pair
  (`services/schedule_cache.py:134-138`) and the event then has none or those of another route
  at its stop. Two rows may have one `route_id` (only the short name is unique); the page then
  takes any of them, the stream the last with the field. `DetailMatchesStream` says what
  both views still share.
- `regional_feed_diagnose` makes two requests. A trip that drops a passed stop, or an alert that is
  edited, in between is listed where `services/regional_feed.py:216-218` says "anything here is a
  real demux bug, not explainable by churn". `ReportListsChanges` says that exactly such
  changes are listed.
- A cold start that fails is made again, unmetered, by the next caller
  (`services/realtime_feed_cache.py:80`), so the headroom that the comment on
  `QUOTA_GROUP_LIMITS` expects holds only while nothing fails.
- The page of a trip and its event may differ when two entities claim one identity, or
  when an entity without a trip id has an id that the schedule knows: `DetailMatchesStream`
  excludes both.
- A downgrade fails when ingested rows do not meet the constraint it restores, or
  reference a system it deletes; it then changes nothing. A downgrade that drops a table
  leaves `last_fetched_at` as it was, so the daily gate holds although the rows are gone.

Not modelled: the chains of `or` and the parsers of `schedule_utils.py`, which a model
would repeat; texts, times and other fields that a view copies from one row; floating
point (a place is a point on a line); the CLI and `diagnose_only`; SELECTs that only
answer a request; rows inserted into the registry by hand; configuration, telemetry,
generated code and deployment, of which the models use only that there is one API
process, Celery workers with ephemeral files, and one Postgres at READ COMMITTED.

## 6. Plan

Done, in this order: `SharedFeedQuota` with its abstract specification, `RealtimeFeedCache`,
`QuotaGroupSchedulers`, `TransitFeed`, `ScheduleCache`, `ScheduleFetcher` and the pure algorithms of feeds,
rows and positions; then the views of a feed (`ScheduleDicts`, `TripViews`, `ServiceAlerts`), the report
on the demultiplexing, `RegionalStopAreas`, `Migrations`, the abstract `SingleFetcher` with its
refinement; and proofs of the safety properties of all modules.

Next:

1. The members that a combined feed mentions, taken by the regional scheduler from
   `split_feed_by_agency` instead of an arbitrary set.
2. Two overlapping fetches of one system: what still holds of the promoted files and of the tables.
3. The steps of the liveness arguments that are safety: what each waiting task is ordered behind, as
   an invariant that a fairness argument on paper can start from.
