# A TLA+ development of Consul Timeline

Consul Timeline follows a Consul datacenter with blocking queries, turns the
differences between consecutive answers into events, stores them and serves
them, live and back in time. This directory holds TLA+ modules that model the
parts where the program decides something, TLC configurations that check them
on small instances, and TLAPS proofs of the properties that matter most for
every value of the constants.

Run everything from this directory:

    tlc -workers 2 -config MCWatcher.cfg MCWatcher    # a model-checking run
    tlapm WatcherProofs.tla                           # a module of proofs

`PROJECT.json` lists the components, the runs, the mutants (a deliberate bug
per property, which the run must find), the source lines behind every
definition, the findings, the hazards and the theorems.

## Inventory of the system

| Component (source) | State | Operations | Interacts with |
|---|---|---|---|
| Watcher (`watch/watch.go`) | maps `services`, `nodes` under `mu`; per goroutine `idx`, `first`, `last`, `marks`; the readiness counter; two output channels | `watchServices`, `watchNodes`, `syncServices`, `syncNodes`, `watchService`, `watchNode`, `readiness` | blocking queries of Consul; channels to `main`; `Ready`, `ServiceNames`, `NodeNames` for the API |
| Comparison (`watch/compare.go`) | none; `marks` belong to a watch | `compareService`, `compareNode`, `compareChecks`, `announce`, `fingerprint`, `aggregate` | called by the watches, sends on the channels |
| Storage writer (`storage/writer.go`) | two batches, ticker | `RunWriter`, `flush`, `drain`, `persist` | channels from `main` and the watcher; `StoreEvents`, `UpsertInstances` |
| MySQL storage (`storage/mysql`) | tables, daily partitions, rollup | writes in chunks, queries, `Maintain` | the database |
| Memory storage (`storage/memory`) | ring buffer, instance map | the same interface | – |
| Distributed storage (`storage/distributed.go`) | `leader` flag | `lockLoop`, `Stop`, writes that look at the flag | a Consul lock shared by several processes |
| Filters, cursor (`storage/storage.go`) | none | `Match`, `Validate`, `Cursor` | storages and stream |
| Live stream (`server/stream.go`) | hub of clients with bounded buffers | `Publish`, `subscribe`, `Close`, `handleStream` with replay | `main` publishes; storage `Since`; browsers |
| HTTP API (`server/api.go`, `server/server.go`) | none | `parseQuery`, handlers, `Run` and its shutdown | storage, watcher |
| Consul client (`consul/consul.go`) | server list | RPCs, server discovery, `Lock` | Consul |
| Wiring (`main.go`) | channels, context | publisher goroutine, `maintain`, shutdown | all |
| Front end (`web/src/hooks.ts`) | event list, cursor, `seen` | `useEvents`, `useLive` | API and stream |

What is hard here: goroutines that start and stop each other while blocked in
queries or on full channels; answers that are old when they are handled, an
index that falls back, and errors with a pause in which a stop may arrive; a
counter that is counted down before it is counted up; map iteration without an
order; a shutdown that races with a flush, a retry or a drain; a storage that
has committed part of what it reports as failed; a live stream that has to be
joined to a storage which lags behind it; two storages that should answer alike
although one keeps nanoseconds and the other milliseconds, one compares bytes and
the other under a collation; maintenance that several instances run on the same
tables. The list with source lines is `hazards` in `PROJECT.json`.

What makes each modelled part correct:

* watcher: the events add up to the state last seen, with no change lost or made up; one live watch per name;
  ready when, and not before, every name of the start was fetched; no goroutine
  waits for ever;
* comparison: each difference is one event, counts are Consul's, the instance
  registry follows the registrations;
* writer: nothing received disappears uncounted, order is kept, duplicates are
  bounded, the shutdown flush is complete, and the writer returns;
* distributed storage: instances write at the same time only in the window that
  reading the flag before the write leaves open; a stop hands the lock over; some
  instance leads again after crashes and lost sessions;
* storages: the ring is a log of the newest events; pages descend without holes;
  a filter means the same in Go and in SQL; the registries hold the same records;
  counts are those of what is stored;
* live stream: nothing is forwarded after a hole; an event a browser never gets
  has a known reason; every handler ends;
* maintenance: acts on lists that are still true, deletes only what has expired and
  all of it in the end, keeps a partition for the day once a run succeeded, releases
  its lock.

## Modules

| Module | Models | Used by |
|---|---|---|
| `Writer` | `storage/writer.go`, and the chunked writes of `storage/mysql/storage.go` as the writer sees them | `WriterProofs` |
| `Compare` | `watch/compare.go` and the statuses of `timeline/event.go`, as operators | `ServiceDiff`, `Watcher`, `CompareProofs` |
| `ServiceDiff` | one service watch as a sequential program with rich data and a clock | `MCServiceDiff`, `ServiceDiffProofs` |
| `Watcher` | `watch/watch.go` with all its goroutines | `MCWatcher`, `WatcherProofs` |
| `Distributed` | `storage/distributed.go`, the start and the end of `main.go`, several processes | `DistributedProofs` |
| `Rows` | times, order and limits of stored events, `Since` | `Query`, `Stream` |
| `Query` | `parseQuery` of `server/api.go`, filters of `storage/storage.go`, their SQL in `storage/mysql/query.go` | `Reads` |
| `Reads` | the reads of both storages, as operators | `Storage` |
| `EventLog` | abstract: a log that keeps its newest events | `MemoryStorage` |
| `MemoryStorage` | `storage/memory/storage.go`, the ring, the map, the mutex | `Storage` |
| `Storage` | both storages fed with the same batches, and a client that pages | `MCStorage`, `StorageProofs` |
| `Stream` | `server/stream.go`, the publisher of `main.go`, `useLive` of `web/src/hooks.ts` | `StreamProofs` |
| `Maintain` | `Maintain` of `storage/mysql/storage.go`, several instances | `MCMaintain`, `MaintainProofs` |
| `MCServiceDiff`, `MCWatcher`, `MCStorage`, `MCMaintain` | small instances | the runs |
| `CompareProofs` | lemmas: what a comparison sends, in whatever order | `ServiceDiffProofs`, `WatcherProofs` |
| `WriterProofs`, `WatcherProofs`, `ServiceDiffProofs`, `DistributedProofs`, `StorageProofs`, `StreamProofs`, `MaintainProofs` | inductive invariants, lemmas, theorems | – |

### Writer

The i-th item ever put on a channel is the number i. A channel is first in,
first out and a batch is only appended to and emptied, so three counters per
channel (`sent`, `recv`, `batch`) say which items are where; `Held(k)` are
those in the batch. `pc` is where `RunWriter` is: in the `select`, draining, in
a call of the storage (`persist`), waiting to retry (`backoff`), returned.
`Receive`, `Tick`, `Stop` are the cases of the `select` (Go may pick any that is
ready, also after the cancellation), `Drain` and `Drained` the drain,
`WriteOK`, `WriteDrop`, `WriteRetry` the three ways `persist` goes on after a
call, `Retry` and `Abandon` the end of a backoff. `Flush` is the order of the
two batches. A failed call has committed any number of whole chunks
(`Committable`), all of them if only the answer was lost. `faulted`,
`lastFailed`, `lastFrom` and `lastUpto` are history variables for the
properties.

### Compare

Checks are a function from check ids to statuses; a service state is a function
from instance keys to `[reg, ip, checks]`. `CompareService`, `CompareNode` and
`AnnounceService` return the set of message sequences the code may send, one per
iteration order of the Go maps. `Fingerprint` keeps what matters of the hash:
the sections are written one after the other with the same terminator, and the
node address is not written. `Learn` is the reader of the timeline: what one
knows after an event.

### ServiceDiff

`First`, `Changed`, `TimedOut` and `Left` are the four ways an iteration of
`watchService` handles an answer or a stop. `registry` is the instance table as
the upserts leave it, `timeline` what a reader knows.

### Watcher

One record of variables per list goroutine (`lpc`, `lidx`, `lfirst`, `lresp`,
`todo`, `added`) and per watch goroutine (`wpc`, `stop`, `first`, `countReady`,
`loc`), the mutex `mu`, the maps (`watched`), the counter (`ready`), and the
fill of the two channels. A query is two steps: `ListReply`/`WatchReply` is the
moment Consul takes the answer, and handling comes later, so answers may be old.
A sync holds the mutex over several steps; watches start one at a time, and
`NodeRegistered` sends an event while the mutex is held. After a comparison a
watch has an `outbox` and sends it message by message (`WatchSend`), blocking on
a full channel. `WatchStop`, `WatchCancelled`, `WatchQuery` are the `select` at
the top of a watch, `WatchError`, `WatchWake`, `WatchAbort` the pause after an
error. Consul (`Change`, `Reset`) is external: a change raises the index of its
list; a reset lowers it, and the next change waits until everybody has noticed
(see `numeric_edge` in the hazards for what this leaves out). `timeline` is a
ghost: the facts the events sent so far add up to; the first answer of a watch
of the start is its baseline, as in the code.

### Distributed

Per instance: where `lockLoop` and `main` are (`lp`, `main`), the flag (`leader`),
the WaitGroup (`done`), the callers that have passed the flag and are in the
database (`busy`), and two variables of the Consul client: whether its `Lock`
considers itself held (`isHeld`) and whether the channel it returned is closed.
`holder` is Consul's side: whose session has the key. The client is not part of the
repository, so `LoseSession`, `Expire`, `Notice`, `WatchFails` and `AlreadyHeld` are
external: they say what the code relies on or meets (a `Lock` is held until
`Unlock`; its channel closes when the session lost the key, and also when the
query that watches the key fails). Times are left out; in particular Consul's lock
delay, which makes overlaps rarer, not impossible. A call that finds the flag
cleared returns and changes nothing, so it is not an action. `Stop(p)` may come
before the writer is done, since `main` waits 10 seconds for it and no longer.
A crash ends a process anywhere; a process may start again under its old name
while its old session is still there.

### Rows, Query and Reads

Times are counted in ticks of half a millisecond, the finest difference that
matters: cursors, frame ids and columns hold whole milliseconds. `StoredTime` is
what a backend makes of a time: the ring keeps it, MySQL rounds it, MariaDB cuts
it (external). Strings are atoms; `Starts` says which names begin with which,
`Fold` what the collation of the database compares. A list that is sorted and cut
is the set of the elements with fewer than so many before them. `Filters` is the
merging of the `f` parameters, `Match` and `MatchOne` the filter in Go, `Where`,
`FilterSQL` and `SQLOne` what the generated SQL selects. `EventsPage`, `Shape`,
`CountRows`, `CountRollup`, `FacetValues`, `Suggest` and `HandleSuggest` are the
reads; where the two storages differ in a line of code the operator has a case for
each. A sample taken by `ORDER BY time LIMIT` is any of the sets that order allows.
`From` is the lower bound of the database: an absent one, or one before `minTime`,
becomes `minTime`, and a histogram of such a range covers the last hour, as one
without a lower bound does. Time zero of the model is a moment after `minTime`;
events are not earlier. `CountRows` takes the time zone of the session: the driver
writes UTC into the columns, and `UNIX_TIMESTAMP` reads them as local time.

### MemoryStorage, EventLog, Storage

A write of the memory storage takes the mutex (`StoreEvents`,
`UpsertInstances`), works through its batch (`StoreNext`, `UpsertNext`) and unlocks;
readers look only while the mutex is free. `EventLog` promises what the package
comment does, "keeps the most recent events", and `RingIsLog` is the refinement,
with `kept` mapped to what the loop of `matching` sees. `Storage` gives every batch
to the tables too (a transaction is one step) and lets one client page through
either storage while writes go on, by the cursor as it travels through the URL; the
range the client asks for moves from page to page (`Moved`). Each database has its
own `registry`: `InstanceRow` is what its columns keep of the times, `PrimaryKey`
what its collation compares of datacenter, node and service id, and `Duplicate` the
`ON DUPLICATE KEY UPDATE`, which leaves `first_seen` and the letters of the key.

### Stream

`Publish` is `Hub.Publish`; `Stored` and `Dropped` are the writer, later. Per
client: where its handler is, its channel, the overflow flag, the rows still to
replay, and the browser's side: the last event id, the `since` of its URL, the
latest time seen, what it received. `Open`, `Subscribe`, `ReadSince` or `SinceFails`,
`ReplayNext`, `ReplayDone`, `Take`, `Write` and `ChannelEnds` are the handler in its
order; `Break` is a lost connection, `CloseHub` the shutdown. A frame is received
when it is written; one lost with its connection is one not written. The history
variables say why an event may be missing.

### Maintain

Every statement of `Maintain` is a step of an instance, and the lists it works
from (`existing`, `next`) are its own. A table is the set of days it has rows of;
`Within` says which of them a partition holds (external: RANGE partitions).
`Fail` is a statement that fails, after which the next step is tried as in the
code; `SessionEnds` is a crash, a timeout or a lost connection, with which MySQL
releases the lock. `Midnight` and `StoreEvents` go on all the time.

## Runs

| Run | Instance | Checks |
|---|---|---|
| `writer` | batches and chunks of 2 and 1, channels of 1, 3 attempts, 2 items per channel | `Accounted`, `WrittenInOrder`, `WritesBounded`, `LastFlushComplete`, `StopsAfterCancel`, `EveryBatchFlushed` |
| `service_diff` | two instance keys, seven instances that differ in checks, maintenance or address, refresh after one tick | `TimelineTruthful`, `EventsMinimal`, `HealthyAsConsul`, `RegistryCurrent`, `AnnouncedOnTime` |
| `watcher` | one service that is there or not, two changes (it leaves and comes back), an index reset, cancellation, channels of 1 | `TypeOK`, `ReadyNotEarly`, `OneLiveWatch`, `TimelineTruthful` |
| `watcher_live` | one node that is absent, passing or critical, two changes, an error, never cancelled | `TimelineTruthful`, `Converges`, `MuReleased`, `ReadyUnlessStopped` |
| `distributed` | two instances, two faults, one restart | `TypeOK`, `Exclusive`, `StopHandsOver`, `Failover` |
| `storage` | a ring of 3, up to 4 events of 4 kinds in batches of up to 2, pages of 1 of a range that may move, one upsert of records two of whose keys differ by case, samples of 3, facets of 1 value (2 by default), sessions in two time zones | `RingIsLog`, `RegistriesAgree`, `PagesComplete`, `PagesDescend`, `SameFilters`, `HistogramTruthful`, `UnsampledComplete`, `SuggestComplete` |
| `stream` | one client, a channel of 1, replays of 2, 4 events of which 3 match, two times half a millisecond apart, one break, one storage error, memory or MySQL | `HubConsistent`, `NoHoles`, `LossExplained`, `CaughtUp`, `StreamsEnd` |
| `maintain` | two instances with retentions of 1 and 2 days, 4 days, one batch per call, one failure | `ListsCurrent`, `DayHasPartition`, `OnlyExpired`, `ExpiredGoes` |

The type invariants of `Writer`, `Stream` and `Maintain` are proved and not part of a
run.

The bounds: two items fill a batch and leave a partial commit; one place per
channel makes every send block; one service with two changes is enough for two
watches of one name to overlap; one error is enough for a stop to arrive in the
pause; one reset for an index to fall between two answers (`watcher_live` has none, as with
one it no longer ends in minutes; that resets lose no change is `TimelineTruthful`,
proved for any number of them); two faults let a lost
session meet a crash or a failed request. Four events wrap a ring of three and
leave three pages; their times share a millisecond or straddle one. A channel of
one place overflows at the second event, and the replay of two is full while
there is more. Four days let every partition of the first two expire for both
instances; one batch per call leaves rows to the next run. The counts of the
writer, of the readiness, of the ring, of the channels and of the rollup, the number of
instances and checks of a service and the length of a listing, where larger numbers
could matter, are covered by the proofs.

Deadlock is checked in every run but `service_diff`, which ends when the service
leaves, `watcher` and `stream`, where the cancelled goroutines end, and `storage`,
which stops at its bounds. `service_diff` uses the symmetry of the instance keys.
The MariaDB of `Rows` cuts times as the millisecond of a frame id does, so for
`Stream` it is the memory storage, and only MySQL is run beside it.

Four runs are expected to fail; each states what a comment or the README says and
the counterexample is a behaviour of the code:

* `writer_shutdown_loss`: "a shutdown does not lose the events already received"
  – a flush under way at the cancellation, or begun just after it, has the cancelled
  context; its batch is dropped. (For the same reason `Accounted` is stated up to the cancellation:
  a backoff that is cut short gives its batch up without counting it.)
* `watcher_readiness`: "readiness counts the initial fetches still outstanding" –
  a watch stopped before its first answer stays counted and `Ready` never closes.
* `watcher_gone`: "the service left the catalog: whatever we still knew is
  gone" – not if the stop arrives in the pause after an error.
* `distributed_available`: "Run more than one instance for availability" – an
  instance whose lock channel closed never unlocks, so its client refuses to lock
  again, for ever; if the session is still renewed nobody else gets the lock.
  `Failover` says what does hold.

### What the models show beside that

* A service that appears after the start has no registration events (its first
  answer is the baseline; nodes do have one).
* A node that leaves is reported twice if its watch gets the empty answer before it is
  told to stop, the second time from missing to missing, although a test of
  `compareNode` says "a node leaving the catalog is one event". `TimelineTruthful` is
  about what the events add up to and allows this.
* `fingerprint` leaves the address of the node out and ends tags, meta and node
  meta with the same byte, so a changed node address, or a word that moves from the
  tags to the meta, is not sent before the daily refresh, although
  `timeline/event.go` says the record is "updated when the registration changes".
  `RegistryCurrent` is stated up to the fingerprint for this reason.
* The live stream is less than the "so nothing is lost either" of `hooks.ts`.
  `Explained` in `Stream` has the four ways a browser that always reconnects does
  not get an event: it was not yet stored when the missed ones were replayed (the
  writer gathers batches); it was stored with the millisecond the browser resumed
  from, or an earlier one; the connection broke before the first frame, so there
  was no id to resume from; or the browser was told, by a warning or a gap notice.
  Each of the four is needed: without it TLC finds a behaviour. There is no fifth.
* The two storages do not filter alike in the cases of `Differ` in `Query`: a prefix
  of a check type, letters of either case, a time moved over a bound when it was
  stored, an event later than now, a text in the part of an output that was cut.
* The registry of the database is that of the memory storage with rounded times and
  with one record for keys that differ only by case, which has the key and the
  `first_seen` of one of them and the rest of one of them (`Agree`).
* A histogram made from rows is shifted by the time zone of the database session, as
  nothing sets it; from the rollup it is not (`HistogramTruthful` says by how much).
* A range that moves while a client pages loses what it moves past: a page does not
  have what is older than the lower bound has become (`PagesComplete`).
* A page of the memory storage may leave out events of the millisecond its cursor
  names, since the ring orders by finer times (`PagesComplete`).
* Histograms are exact for ranges that start at a whole second (a whole minute when
  the rollup is read); otherwise buckets are shifted against their labels, the
  rollup counts the whole last minute, and the default range of the memory storage
  counts events of up to one width before it in its first bucket.
* The database cuts its list of suggestions in the order of its collation, and the API
  sorts by bytes: with service names of mixed case a name may be left out for one that
  comes after it. `SuggestComplete` leaves these names out. It
  is about limits of up to `MaxSuggest`; the API turns a larger one into the default.
* A negative limit of the suggestions is not caught before a slice expression, and
  `RetentionDays` is not validated; `Reads` and `Maintain` say so where they assume
  otherwise.

### Fairness

`Writer`: weak fairness of the goroutine as a whole (calls of the storage end:
each has a 30 s limit; timers fire), of `Tick` and of `Stop` (a `select` picks at
random among its ready cases, so a case that stays ready is taken). `Watcher`:
weak fairness of each goroutine (a blocking query is answered after a change or
the wait time; pauses end) and of the readers of the channels, which `main.go`
provides while the context is alive; hence the liveness run does not cancel.
Errors, changes and resets are never forced to happen, and `Converges` is checked
without resets. `Distributed`: weak fairness
of each `lockLoop` and of the end of `main`, of the end of sessions nobody renews
and of the client's noticing. Faults are bounded, so what is shown is that the
instances recover once faults stop. `Stream`: weak fairness of each connection (a
browser keeps trying, the goroutine of a handler runs, a call of the storage ends
with an answer or an error; a write to a client that has stopped reading ends, which
the network has to see to, as the server sets no `WriteTimeout`); none of the publisher, the writer or the shutdown.
`Maintain`: the timer of some instance fires while nobody is at work, and a run that
holds the lock goes on (each statement ends, as the context of `maintain` in
`main.go` has a deadline). `Storage`, `ServiceDiff` and the run `watcher` check
safety only.

## Proofs

Every invariant and every action property that a passing run checks is also a
theorem, for every value of the constants under the named `ASSUME`s of the modules,
which TLC evaluates in the runs. They say:

* sizes, limits and units are positive, names are finitely many, service and node
  names differ, a second divides a minute;
* what Consul answers is finite, its checks have Consul's statuses, and a maintenance
  check is never passing, as Consul registers it critical (`RepliesAssumption`,
  `AnswersAssumption`);
* an event has a natural time, its tags and values are names, no two names are equal
  in the order of Go's strings (`EventAssumption`, `RankAssumption`); instance records
  have the fields of `timeline.Instance` the model keeps, and finitely many keys
  (`InstanceAssumption`); time zero is not before `minTime` (`MinTimeAssumption`);
* a filter parameter has a minus or not and bounds are numbers (`RequestsAssumption`), and an absent bound or
  cursor is not a number or a cursor (`NoneAssumption`, `ReadsAssumption`).

Two techniques recur. Where a definition is recursive (`LearnAll`, `Upserted`,
`FlattenSeq`, `MapThenSumSet`) the induction is written out: the set of
counterexamples, or of their sizes, has a smallest member (`LeastNumber`,
`Smallest`, from the well-foundedness of the naturals), and the step below it gives
the contradiction; that the recursive function exists is shown the same way or by a
witness. And a list that is sorted and cut is handled as the elements with fewer
than n before them: `FirstsRows` (they come first, and there are n of them unless
nothing was cut) serves facets and suggestions, `NewestRows` the pages.

`WriterProofs` proves `TypeOK`, `Accounted`, `WrittenInOrder`, `WritesBounded` and
`LastFlushComplete`. None is inductive alone. `IInv` adds `Places` (held items were
received, received ones sent), `Attempts` (where `persist` may be with which
attempt number and flags), `Writes` (an item held has at most as many rows as
attempts made, nothing unreceived has any), `Counted` (the count of what is
missing, over the settled items) and `LastFlush` (each item of the last flush is
either held and unwritten, or written once). One lemma per kind of step; the
cardinality argument is `CardinalityUpTo`.

`CompareProofs` has the lemmas about `Compare`, for any iteration order of the maps.
`ServiceMessages` and `NodeMessages` say which messages a comparison sends: one per
changed check, per new and per gone instance, no two events about the same thing.
`ServiceEventsTrue` and `ServiceEventsTellAll` (and the same for nodes) say that each
is true of the new state and that all that differs is among them. `AgreeAtLast` is
the reading: a reader whose knowledge agrees with the facts but for what the events
still to come are about, agrees with them once they have come. `Telling(known,
facts, rest)` is that intermediate state, and `TellingStep` the effect of one message.

`ServiceDiffProofs` proves `TimelineTruthful`, `EventsMinimal`, `HealthyAsConsul`,
`RegistryCurrent` and `AnnouncedOnTime` for any set of instances Consul may report.
`TimelineInv` (what the reader knows are the facts of `last`, which is one of the
possible states) is carried over a comparison by the lemmas above. `RegistryInv`
pairs marks and records: a mark for exactly the known instances, with the
fingerprint of the record, made at the time the record was.

`WatcherProofs` proves `TypeOK`, `ReadyNotEarly`, `OneLiveWatch` and `TimelineTruthful`.
The argument for readiness is an equation: `pending` plus what the lists have started
and not yet reported is the number of outstanding first answers (`Counts`), so when
both lists are in and `pending` is zero none is outstanding; it stays so because only
a list that is not in starts watches that count. `Live` pairs the maps with the stop
channels, which needs that the names a sync still has to start are unwatched and its
own (`Answers`) and that unstarted watches are untouched (`Fresh`). The timeline has
an invariant of its own, `TInv`, on top of the first: answers on their way are states
Consul may report (`Held`, `Locals`); an index that equals the present one means the
present state, in spite of resets (`Current`), so an answer that looks unchanged is
unchanged; and a watch that is the only one of its name is telling what it still has
in its outbox (`Told`, by `Telling`).

`DistributedProofs` proves `TypeOK`, `Exclusive` and `StopHandsOver` for any set of
instances. `IInv` says of each instance that the flag is set only while its loop
leads, under a Lock not yet unlocked (`FlagUnderLock`), that Unlock comes only after
Stop (`UnlockAfterStop`), and that a call without the flag has one of these two
reasons (`CallsUnderLock`). Of two active instances one is not the holder, and that
one is excused. `CountedIn` ties the WaitGroup to the loop.

`StorageProofs` is about both storages:

* the ring implements `EventLog` for every size (`RingImplementsLog`, and with readers
  and tables beside it `StorageKeepsLog`). `RingInv`: the j-th slot back from `next`
  holds the j-th newest event, and `size` is the smaller of `MaxSize` and the events
  stored; the arithmetic of the remainder is in `Remainder`, `SlotOf` and `NextSlot`,
  and `Shifted` is the effect of one store on every position;
* the instance records agree (`RegistryInv`: some state of the table agrees with the map,
  and the table is that state with the rest of the batch written to it; `Filed` says
  that the map has every record under its own key, and `PutAgrees` that a record
  written to both keeps the agreement), and filters mean the same (`FilterOf`, `RequestMeans`,
  `FiltersAgree`, from the operators alone);
* pages descend and lose nothing. `PagerInv`: what was there at the start is received,
  excused, or still ahead of the cursor; a range that moves on only excuses more
  (`MovedOn`). `HeldInv` (the ring and the table hold
  finitely many events, each with a number of its own, and new ones are numbered
  higher) makes the order total; `PageRows` and `AnswerLeaves` are about one page;
* a facet that is not marked as sampled is exact (`FacetTop`); the suggestions are the
  first of the stored and the live names together (`FirstsAgain`: cutting one of two
  lists first changes nothing, if enough of it is left);
* histograms count the events of their slots: `DivSlot` and `MinuteSlot` are the
  arithmetic of buckets and whole minutes, `RollupInv` says the rollup has every key of
  the table with the number of its events, and `SumOfCounts` that adding up the counts
  of some keys counts the events under them.

`StreamProofs` proves `TypeOK`, `HubConsistent`, `NoHoles` and `LossExplained` for any
number of clients and any buffer. `NoHoles` rests on `Bounded` (what is on a channel,
taken or written was published) and `Dropping`: after a drop the flag is set, and all
that is on the channel, taken or written on this connection came before the dropped
event; the channel is full then, and once a place is free the client is being sent
away. `LossExplained` rests on `Accounted`: of a connected client, every event it wants
since it joined is received, explained, or still `Coming` (on the channel, taken, to be
replayed, or not before a dropped one, so that the reset makes the client ask again);
`NoteTypes` types the history that this needs.

`MaintainProofs` proves `TypeOK`, `ListsCurrent`, `DayHasPartition` and `OnlyExpired` for
any number of instances, retentions and failures. `Mutex` (only the holder of the
lock is in a run) makes the lists current (`Listed`); from today on there is no gap
below a partition (`Contiguous`), so a day that is not after the latest one has its
own; `Assured` carries that to the days after a successful run, and `Clock` (what a
run calls today is not later than today) keeps the cutoffs honest.

Only model-checked: the liveness properties (`StopsAfterCancel`, `EveryBatchFlushed`,
`Converges`, `MuReleased`, `ReadyUnlessStopped`, `Failover`, `CaughtUp`, `StreamsEnd`,
`ExpiredGoes`), since fairness and `ENABLED` are out of the prover's reach; and the
four runs that are expected to fail, which are counterexamples.

## Not modelled

Rendering, the text of SQL statements, JSON, flags, logging, metrics other than the
dropped rows, the choice of a Consul server, the load generator. `ServiceNames`,
`NodeNames`, `Instance` and `Datacenters` are lookups. The derived fields (team, app,
version) only fill an event.

The list the browser keeps (`useEvents`) is not modelled. Two things in it are known
and listed as hazards: a first page that arrives late replaces the live events shown
in the meantime, and the key by which it recognises an event holds a time the
database changes.

One module with watcher, publisher, writer, leader flag and server under one context
is not written: its states are the product of those of its parts. What the parts
assume of each other is in their modules: the readers of the watcher's channels
(`Consume`), the senders of the writer's (`Send`), the callers of the leader flag
(`Begin`), the publisher of the hub (`Publish`). One effect only such a composition
would show: a follower's write returns without an error, so rows of a batch whose
leader lost the lock between two attempts are neither stored nor counted.

## What is left

1. The writer under the leader flag, as one module with both.
2. The browser's list under live events, late pages and aborted requests.
3. Of the liveness properties, the safety part that could be proved: that some action of
   the right goroutine is always possible, stated without `ENABLED`.
