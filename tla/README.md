# QuakeFlow in TLA+

QuakeFlow collects earthquake reports of four agencies (AFAD, KOERI, EMSC, USGS), keeps
every response and every report (bronze), turns the reports into one format (silver),
merges the reports of one quake into one row (gold) and copies those rows to
Elasticsearch. Four Airflow DAGs, a NiFi flow and a backfill container share one Postgres
database and one MinIO bucket, each on its own schedule, without any lock of their own.
This directory models what they do to that shared state: TLA+ modules checked with TLC on
small instances, and proofs checked with TLAPS for all instances.

Paths below are relative to the repository; `db.py`, `mapping.py`, `dedup.py`,
`sources.py` and `minio_client.py` are in `src/common/`.

## 1. Inventory

| Component | State it keeps | Operations | Talks to |
|---|---|---|---|
| Agency clients (`sources.py`) | none | `fetch_*`, `parse_*_bytes`, `daterange_days` | the agencies' HTTP services |
| MinIO archive (`minio_client.py`) | blobs by key, write-once | `archive_key`, `put_blob`, `get_blob`, `list_keys`, `ensure_bucket` | called by live ingestion and backfill |
| Live ingestion (`dags/live_ingest_dag.py`) | none of its own | every 5 minutes per source: fetch, `_archive`, `upsert_raw` | MinIO, `raw.<source>_events` |
| NiFi flow (`nifi/scripts/install_flow.py`) | queues of flow files | poll, split, `PutSQL` with `ON CONFLICT DO NOTHING`, one row per transaction | `raw.<source>_events` |
| Backfill container (`src/backfill/ingest.py`) | none of its own | `run_historical` (chunks of days), `run_replay` (archive read again) | MinIO, `raw.<source>_events` |
| Raw tables (`sql/01_raw_tables.sql`) | row per `event_id`: `received_at`, `payload`, `archive_uri` | written through `db.upsert_raw` and PutSQL | read by harmonize and quality checks |
| Harmonize (`dags/harmonize_dag.py`, `mapping.py`) | `harmonized._watermarks` row per source | every 2 minutes per source: SELECT after the watermark, map, `upsert_harmonized`, `set_watermark` | raw tables, `harmonized.events` |
| Deduplication (`dedup.py`) | clusters of one call | `dedupe`, `_Cluster.to_mart_row` | pure, called by the dedupe DAG |
| Dedupe DAG (`dags/dedupe_dag.py`) | none of its own | every 2 minutes: SELECT the last 30 days, `dedupe`, `upsert_mart` | `harmonized.events`, `mart.fact_earthquakes` |
| Elasticsearch sync (`dags/sync_es_dag.py`) | watermark `sync_es::mart` | every 2 minutes: SELECT after the watermark, `helpers.bulk`, `set_watermark` | mart, the index |
| Quality checks (`dags/quality_check_dag.py`) | none | every 15 minutes: reports of the last hour, two counts that may fail a task, a histogram | raw, harmonized, mart |
| NiFi installer (`nifi/scripts/install_flow.py`) | the process groups and services on the canvas | at every start: drain and delete old groups, remove the service, build anew, enable, start | NiFi's REST API |
| Init containers (`docker/es-init`, `docker/kibana-init`) | index mapping, dashboards | one-shot scripts | Elasticsearch, Kibana |
| Views (`sql/00_schemas.sql`, `sql/04_views.sql`) | none | read-only | mart |

### What is hard in it

* **Time and visibility.** `received_at` and `updated_at` are `NOW()`, which Postgres
  fixes when a transaction begins, while rows become visible at commit. Two watermarks
  are built on them.
* **Ties and limits.** All rows of one `executemany` carry the same timestamp, and both
  readers cut with `LIMIT`.
* **Concurrent writers.** `live_ingest`, backfill and NiFi upsert the same events with
  different `ON CONFLICT` clauses; row locks are taken in the order of the responses.
* **Crashes and retries.** Every task is several transactions (or requests); Airflow kills
  and retries it anywhere in between. Elasticsearch may apply a request whose client has
  given up.
* **An order-dependent algorithm.** Clusters move as they grow, compete for rows and are
  walked with an early exit; `event_uid` is computed from members that may still change.
* **Loops that go on after some failures and not after others.** The backfill guards the fetch
  of a chunk, but not its put and upsert, for two sources, and all three for two others.
* **An installer without a memory.** Each start finds the canvas as earlier starts left it,
  half-built or with calls carried out whose answer was lost, and must not be stopped by it.
* **Sliding window.** Reports arrive late, in any order, while the 30-day cutoff moves.

### What makes each part correct

* Raw tables: first-seen `received_at` and `payload` never change; an `archive_uri` names a
  blob that holds the event, and is filled whichever writer came first; writers never block
  each other for ever.
* Harmonize: whatever the watermark passes has been handled; silver never invents a row,
  loses one or loses its audit handle; every row is settled in the end.
* Deduplication: a partition of the reports, no silence longer than the window inside a
  cluster, distant quakes in distinct clusters with distinct uids.
* Dedupe DAG: each pass brings all its reports into the mart, leaves rows in time buckets
  before the cutoff's alone, and repeats without effect.
* Backfill: a run that comes to its end has stored all it fetched or listed; what a handle names
  is in the archive; a replay rewrites nothing, whatever its parser makes of the blobs.
* Quality check: it fails for a reason, which is not a wrong one of harmonize.
* NiFi installer: a clean log means one group, complete and writing; nothing half-built ever
  runs; leftovers neither stop a start nor pile up without failures; it comes to an end.
* Sync: a document is never ahead of its row and not behind it without a reason; a row that is not
  bumped any more gets there.

## 2. Modules

| Module | Models | Depends on |
|---|---|---|
| `RawTable` | the contract of a raw table: transactions with a `NOW()` of their begin, atomic upsert at commit | |
| `RawWriters` | the writers in detail: response, blob, statements, row locks, deadlocks, crashes | implements `RawTable` |
| `RawWritersProofs` | theorems about `RawWriters`, the refinement among them | `RawWriters` |
| `Mapping` | the fate of a payload in `mapping.py` and `harmonized.events` | |
| `Harmonize` | one `harmonize_<source>` task beside the writers | `RawTable`, `Mapping` |
| `RawTableProofs` | lemmas about `RawTable` | `RawTable` |
| `QualityCheck` | the two counts of `no_orphan_harmonized` beside all that | `Harmonize` |
| `HarmonizeProofs` | theorems about `Harmonize` and `QualityCheck` | `QualityCheck`, `RawTableProofs` |
| `Backfill` | the backfill container, both modes, beside live ingestion and NiFi | `RawTable` |
| `BackfillProofs` | theorems about `Backfill` | `Backfill`, `RawTableProofs` |
| `Clustering` | `dedup.py` as operators | |
| `Dedup` | the loop of `dedupe`, on every sorted input | `Clustering` |
| `DedupProofs` | lemmas about `Clustering`, theorems about `Dedup` | `Dedup` |
| `DedupeDag` | the dedupe task, its window and the mart | `Clustering` |
| `DedupeDagProofs` | theorems about `DedupeDag` | `DedupeDag`, `DedupProofs` |
| `SyncEs` | the sync task beside passes of dedupe | |
| `SyncEsProofs` | theorems about `SyncEs` | `SyncEs` |
| `NifiInstall` | the installer's calls over a canvas that outlives it | |
| `NifiInstallProofs` | theorems about `NifiInstall` | `NifiInstall` |
| `MCHarmonize`, `MCQualityCheck`, `MCRawWriters`, `MCBackfill`, `MCDedup`, `MCDedupeDag` | instances for TLC (`SyncEs` and `NifiInstall` need none) | |

Operators under a comment that starts with "Mutant" belong to no specification. Each is a
plausible mistake in the definition below it; with it in place some property fails, which
shows that the property can fail.

### RawTable and RawWriters

`RawTable` is the abstract specification. `raw` is a function from the `event_id`s present
to `[received_at, payload, archive_uri]`; `tx` holds the open transactions with the time
they began, their rows and their uri; `now` is the database clock, which need not move
between two transactions. `BeginUpsert` is `upsert_raw` with the records of a response,
`BeginPutSQL` is one PutSQL statement, `Commit` applies
`COALESCE(existing.archive_uri, EXCLUDED.archive_uri)` to rows that exist and inserts the
others, `Abort` drops everything.

`RawWriters` has `blobs` (MinIO) and `job`, the Python frame of each writer: response in
hand (`"archived"`) or transaction open (`"writing"`), the order of the records, the next
statement, the row versions written and not yet committed. `FetchAndArchive` is
`fetch_*` followed by `_archive` (a failed fetch has changed nothing);
`Statement` waits while another writer holds an uncommitted version of the row
(`Blocks`; `DO NOTHING` does not wait for an update of a row that exists); `DeadlockVictim`
is Postgres' answer to a circle of waiting writers; `Crash` may come at any point, and the
retry is a new fetch under a new key. `OpenTx` maps the writers' frames to `tx`, and
`ImplementsTable` states that the writers so seen satisfy `Table!RawSpec`.

### Mapping and Harmonize

A payload is abstracted to what decides its fate: whether its coordinates are numbers and
whether its time field is absent, garbled or valid. `MapsToNone`, `EventTime` and
`Accepted` say what the four mappers and the `NOT NULL TIMESTAMPTZ` column make of it.

`Harmonize` extends `RawTable`. The task runs `Fetch` (SELECT ... WHERE received_at > wm
ORDER BY received_at LIMIT), `Upsert` (all canonical rows in one transaction, or
`UpsertRefused` when the database refuses one of them), `SetWatermark`; `Crash` may strike in
between. `get_watermark` is part of `Fetch`: only this task writes its watermark
(`max_active_runs=1`). Two history variables name the ways a row can be left out:
`overtaken` (committed at or below a watermark that never saw it) and `cut` (seen, left out
by the LIMIT and then passed). `seen` is what the SELECT could see.

### QualityCheck

`QualityCheck` adds one variable to `Harmonize`: `rawTotal`, the count of raw rows the task
holds between its two transactions. `CountRaw` is the first, `CheckPasses` and `CheckFails` are
the second with its two outcomes, `CheckCrash` the death of the worker in between. The code
sums four raw tables in one statement; each harmonized row has its raw row in the table of its
own source, so one table stands for the sum.

### Backfill

`Backfill` is the turn of one source in the container's run, over the transactions of
`RawTable`. `blobs` is the archive: a body per uri. A parser (`FetchParser`, `ReplayParser`) is
any partial function from bodies to records, so that nothing is assumed of how two parsers are
related: a new one may find other events in an old body, give them other payloads, or raise.
`version` is the version of the parsers each process runs; `Ship` deploys another one for a
process that is not running. `hand[w]` is the blob a Python writer is busy with and the records
its parser found there. `FetchChunk` is a fetch that succeeded, put under a new key;
`UpsertContainer` the call of `upsert_raw`, which returns early without records
(`NothingToWrite`); `FetchFails` and `SkipBlob` are the `continue` and the warning. What an
exception does differs by source and mode: `UpsertRaises` goes on to the next source where the
upsert is inside the `try` (`Guarded`: USGS and KOERI in historical mode) and ends the run
everywhere else; `Killed` ends it at any point, and the next `StartHistorical` or `StartReplay`
is a new run. `StartReplay` lists the archive once. `ReadBlob` takes the parser shipped by then,
`SkipBlob` is also the parser that raises. `Parsed` is what this run's parser reads in a blob:
`fetch_*` and `parse_*_bytes` differ for KOERI today (`sources.py:204-205` and 212 decode the
page differently). `owed` is a history variable: the blobs this run must have stored when it
ends.

### NifiInstall

The canvas `nifi` has groups and services, named by the start that made them; it outlives the
installer. `pc` is the installer's next REST call, and there is one action per call of `main()`,
in its order, with what the code does about its failure: `pass`, a warning, a fallback, or an
exception nobody catches (`Raise`). A failed call may have been carried out (`Failed`): its
answer was an error or lost. NiFi itself moves too: `Flow` fills and empties the queues of
groups at work; `Enabled` is the connection pool coming up, in time or not.

To stop a group and to drop its flow files are requests. NiFi answers them at once (`StopGroup`
makes the group STOPPING, `DrainQueues` its queues dropping) and carries them out when it can:
`WindDown` is the end of the group's last thread, which may be reading a response or waiting for
a row lock, `DropFiles` the empty queue. The installer looks at neither and sleeps two seconds,
so both may be late, with every call answered: then `DeleteGroup` is refused, which is a
warning, and `DisableService` may be refused as well, since the group still uses its service.
`trouble` says that a call of this start has failed or has come before NiFi had done what it was
asked (`AnsweredOf`). `Restart` ends an installer anywhere and starts the next; NiFi comes back
without threads and without drop-requests (`Resumed`). `warned`, `trouble` and `failures` are
history variables.

The call that starts the group (`StartGroup`), if answered, is taken to start every processor of
it. The repository's `README.md:310` tells of that call losing a race against validation; in the
model that is the call that failed and is logged.

### Clustering, Dedup and DedupeDag

`Clustering` translates `dedup.py`: a cluster is the sequence of positions of its members.
`Walked` is the loop over `reversed(clusters)` with its `break`, `Candidates` the two
`continue`s, `Best` the strict `<` on the score (so the newest among equals), `Assign` the
loop body, `ToMartRow` the mart row. Places are points of a line and arithmetic is exact;
comparisons with an average are multiplied out. Twice the distance window separates any
point between reports of one quake from those of another, on a line as on a map, so the
properties are not helped by the missing dimension.

`Dedup` reads one more row per step (`LoopNext`), so that its states are the states of the loop
after each prefix of each input. `DedupeDag` takes the same loop as a recursive function,
`Clusterings`. It is the task: `Select` takes the cutoff and the rows (in any order among equal
times: the SELECT has no ORDER BY and the sort is stable), `UpsertMart` clusters them and puts
the rows into `mart` one after the other (`Upserts`), where a later cluster with the same
`event_uid` overwrites an earlier one and `first_seen_at` stays. `Arrive` adds a report of any
age, `Tick` moves the clock, `Crash` ends an attempt. `last` is the batch of the last committed
pass, for the properties.

### SyncEs

`mart` is a function from `event_uid` to `[version, updated_at]`. A pass of dedupe is a
transaction over some set of rows that bumps all their `updated_at` to the time it began and
changes the content of some. The task runs `Fetch`, `BulkIndex` (some documents may be
refused: `raise_on_error=False`) or `BulkRaises` (some are written, some may be written later
by `LateWrite`), `SetWatermark`. `why` records the reason for which a document was last left
stale: cut by the LIMIT, refused, or overwritten by a late write. `BumpedAt(u, t)` says that the
last pass to bump u was that of time t, for `RowsReachTheIndex`.

## 3. Runs

| Run | Configuration | Shows |
|---|---|---|
| `harmonize` | `MCHarmonize.cfg` | watermark, silver and audit handles are right through crashes, retries, late commits and ties |
| `harmonize_live` | `MCQualityCheck.cfg` | every committed row is settled, unless a refused row blocks the task; the quality check fails only when rows came in between its counts |
| `harmonize_lost` | `MCHarmonizeLost.cfg` | **violated**: a late commit is never read |
| `harmonize_no_time` | `MCHarmonizeNoTime.cfg` | **violated**: a row without time is not skipped |
| `ingest` | `MCRawWriters.cfg` | the writers implement `RawTable`, handles resolve, all transactions end |
| `dedup` | `MCDedup.cfg` | the loop partitions its input and recovers two quakes; the breakdown holds the latest reports, and only a better source renames a row |
| `dedup_early_exit` | `MCDedupEarlyExit.cfg` | **violated**: the early exit misses a cluster that matches |
| `dedupe_dag` | `MCDedupeDag.cfg` | passes over a sliding window with late reports: the mart shows them, and rows in time buckets before the cutoff's keep what they say |
| `dedupe_dag_twice` | `MCDedupeDagTwice.cfg` | **violated**: one quake, two rows |
| `sync_es` | `SyncEs.cfg` | a stale document has a named reason, and a row that is not bumped again reaches the index |
| `sync_es_skipped` | `SyncEsSkipped.cfg` | **violated**: the LIMIT skips rows for ever |
| `nifi_install` | `NifiInstall.cfg` | three starts of the installer with failing calls, lost answers, groups that are slow to stop and to empty, and restarts |

`tlc -config <cfg> <module>` repeats a run; the whole set takes some minutes.
`MCBackfill.cfg` is not in the table: it is there for whoever changes `Backfill`, whose
properties (`HandlesResolve`, `EndMeansStored`, `RowsKept`) are all proved for every instance.

### Bounds, and why they are enough

* `harmonize`: three events (usable; never usable; usable or without a time), a Python writer and
  NiFi, a clock of two values, `BatchSize` 2. Three events are the least with which a LIMIT of two
  can cut between rows of one transaction and still leave a row of another; two clock values tell
  earlier from later, and the clock may also stand still, which gives ties. The proofs remove
  these bounds for all safety properties, of this module as of the others.
* `harmonize_live`: two events, batches of one, so that every batch may be cut; two raw rows are
  also what it takes to count one, then both as harmonized.
* `ingest`: two events and two Python writers, the least that deadlock; NiFi as a third that fits
  between any two steps; two uris, that is two fetches; one payload per event, since `received_at`
  already tells who was first.
* `dedup`: four reports with times, places and magnitudes around each window (two are within it,
  at its edge or beyond) and a report without magnitude. Three suffice for competition between two
  clusters, the fourth is the victim of it.
* `dedupe_dag`: six reports: a quake reported by three agencies and by one of them again, two of
  the reports at the same time; two quakes with one time bucket, one place and different
  magnitudes, whose uids collide. A window of 3 and a clock of 7 values move the window through
  the first quake and past it.
* `sync_es`: three rows, two passes, batches of two, one late write: a pass larger than the batch,
  a second pass that bumps it again, a late write that meets a newer one. `MaxPasses` ends the
  passes, so `RowsReachTheIndex` is stated for each row and each time it was bumped: it claims
  nothing of a row that is bumped again. A row that is bumped again and again can wait for ever:
  bump {a, b}, bump {c}, fetch {a, b} (the LIMIT), bump {a, b}, bump {c}, fetch {a, b} and so on;
  c is always the youngest. That other rows' passes alone cannot keep a row waiting is what
  `NoOvertaking` proves for any number of passes (section 5).
* `nifi_install`: three starts. The third finds what a failure in the second made of the leftovers
  of the first; the installer keeps nothing else from one start to the next. Any group may be slow
  to stop and to empty, in any start. The proofs are for any number of starts.
* `MCBackfill`: a window of two days in chunks of one, an event on the border of the chunks
  (fetched twice) and one at the end, two uris, so that a replay finds blobs of live ingestion and
  of an earlier run; two versions of the parsers, of which the second gives other payloads,
  overlooks an event in one body and raises on another.

`MaxTime`, `MaxRows`, `MaxClock`, `MaxPasses`, `MaxLate` and `MaxStarts` bound counters and
exist in the models only. Where such a bound ends all activity the configuration has
`CHECK_DEADLOCK FALSE`.

### Fairness

* Tasks (`Harmonize`, `DedupeDag`, `SyncEs`): strong fairness of the steps of the task. Airflow
  starts the task every two minutes for ever and retries it; a step is disabled by a crash and
  enabled again by the retry, and the assumption is that not every attempt is killed at the same
  step. `DedupeDag` asks only that a pass ends now and then. Nothing is assumed of the writers,
  the clock or arrivals. `SyncEs` does not make dedupe run or stop; see `RowsReachTheIndex` under
  the bounds for what endless passes may do to a row.
* `RawWriters`: strong fairness of `Statement` (Postgres grants row locks in the order they were
  asked for), weak fairness of `Commit` and `DeadlockVictim` (an open transaction goes on; the
  deadlock detector runs). Nothing makes a writer start.
* `QualityCheck`: the fairness of `Harmonize`; the check itself need not run.
* `NifiInstall`: weak fairness of the installer. Each of its calls has a timeout and each of its
  polls a deadline, so it always goes on to something. Nothing is assumed of NiFi: it may refuse,
  lose, delay or never finish whatever it is asked.
* `Backfill`: none; only safety is stated.

## 4. Findings

1. **A late commit is lost** (`harmonize_lost`, `dags/harmonize_dag.py:48`). Transaction A begins,
   B begins later, commits and is harmonized; A commits. A's rows lie below the watermark and are
   never selected.
2. **A report without a time blocks its source** (`harmonize_no_time`, `mapping.py:63`). The AFAD,
   EMSC and USGS mappers do not return None for it, contrary to the contract at `mapping.py:5-9`;
   the database refuses the batch, again on every retry.
3. **The early exit** (`dedup_early_exit`, `dedup.py:209`). Clusters are walked in the order they
   were opened, and an expired one ends the walk in front of an older one that has been extended
   since. `EarlyExitSoundInOrder` shows when it is sound, `QuakesRecovered` that it does no harm
   to well separated quakes.
4. **Two rows for one quake** (`dedupe_dag_twice`, `dedup.py:151`). A late report that comes
   earlier or from a preferred source changes `event_uid`; the old row stays.
5. **Rows skipped by the sync** (`sync_es_skipped`, `dags/sync_es_dag.py:67`). The rows of a pass
   share `updated_at`; a LIMIT that cuts the pass leaves the rest at the watermark. They come back
   only if a later pass bumps them, which ends when their quake leaves the 30-day window.

Met while modelling, without a run of their own:

* `install_flow.py:6-7` says the script exits if the group exists already; `main()` deletes and
  rebuilds it (lines 514-521), which is what `NifiInstall` models. Its header also lists a
  `PutS3Object` that the chain leaves out (lines 319-322).
* `ingest.py:11-13` says a replay re-writes rows; `upsert_raw` keeps the payload of a row that
  exists (`ReplayRewritesNothing`), so a new parser only adds rows that are missing.
* `quality_check_dag.py:65-66` says a failure "indicates a bug in the harmonize DAG"; it means
  that rows were ingested and harmonized between the two counts (`FailsOnlyByGrowth`), which
  harmonize is right to do.
* `install_flow.py:528` looks for one service; a second one, left by a lost answer, stays for
  ever. `ServicesGrowByFailureOnly` bounds how many there can be.
* `install_flow.py:474-479` says that old groups are stopped and drained before they are deleted;
  lines 480-496 ask for both and wait two seconds without looking. `LeftoversNeverInTheWay` says
  when that is enough; when it is not, the old group stays beside the new one, with a warning.
* `live_ingest_dag.py:7-8` and the DAG's description (72-73) say that both writers use ON CONFLICT
  DO NOTHING. `db.py:78-83` has DO UPDATE with COALESCE, and it matters: under DO NOTHING a row
  NiFi was first to insert would never get a handle (`WritersReconcile`, whose mutant is just
  that).
* `dedupe_dag.py:39` drops reports at the cutoff one by one. While a quake's time bucket is being
  cut, its row may be rewritten from the reports that are left (AFAD and KOERI, then KOERI alone:
  agreement 2, then 1), or by a later quake of the bucket and cell. No text in the repository says
  otherwise; `OldRowsKept` is about the buckets before the cutoff's only.
* `dedup.py:24-25` gives 30 s and 20 km as default windows; the constants are 90 s and 50 km
  (lines 56-57). The windows are parameters of `Clustering`.

In the passing runs these behaviours are allowed and named (`overtaken`, `cut`, `why`,
`Poisonous`), so that the properties say that nothing else can go wrong.

## 5. Proofs

Every safety property and action property of the passing runs is a theorem, and so is the
refinement.

### RawWriters

`RawWritersProofs` proves, for any number of writers, events, uris and clock ticks: `TypeCorrect`
(`TypeOK`), `HandlesResolve` (`UriResolves`), `Implementation` (`ImplementsTable`),
`Reconciliation` (`WritersReconcile`) and `FirstSeenStays` (`FirstSeenKept`).

Assumptions: `WritersAssumption` (NULL is no uri, the two kinds of writers are disjoint, finitely
many events, so that a response is a finite list).

The detailed writers upsert row by row, between statements of others; the table of `RawTable`
takes a whole response at once. What makes the two agree is in `IInv`:

* `ListsRows`: the statements are the records of the response, each once;
* `Archived`: the blob of a Python writer is in MinIO under its uri, with these records, before
  the transaction starts; this also gives `UriResolves`;
* `Exclusive`: no two transactions hold versions of one row, which is what waiting for the row
  lock (`Blocks`) achieves;
* `WrittenSoFar`: a version, once written, is the one the table's upsert would make of the row
  now. A statement reads the row when it runs and the table's upsert reads it at commit;
  between the two nobody else changes the row (`Exclusive`) and no row disappears, so it is the
  same. Of the rows a `DO NOTHING` leaves alone it says that they exist.

`StepInvariant` has one lemma per action. Each also says which step of `RawTable` the action is:
the first statement's transaction `BeginUpsert` or `BeginPutSQL`, `Commit` is `Commit`
(`CommitUpsertsAll`: after the last statement the versions are the whole upsert), a deadlock
victim or a crash in a transaction is `Abort`, and everything else leaves the table alone.

### Harmonize

`HarmonizeProofs` proves, for any events, writers, uris, batch size and clock:
`TypeCorrect`, `Covered` (`WatermarkCovers`), `OnlyTiesAreCut` (`CutIsATie`),
`SilverFollowsBronze` (`HarmFromRaw`), `WatermarkMonotone` (`WatermarkNeverRegresses`) and
`HandlesKept` (`AuditHandleKept`).

Assumptions: `RawAssumption` (NULL is no uri, the two kinds of writers are disjoint, the
bound of the clock is a natural number) and `HarmonizeAssumption` (a known source, a
batch size of at least one, finitely many events).

None of the properties is inductive. They follow from `IInv`, which adds what an attempt
knows about its batch while the writers go on:

* `BatchFromRaw`: fetched rows are still in the table with the same `received_at` and
  payload, above the watermark, and their handle is NULL or the present one;
* `BatchIsFirst`: rows the SELECT saw and left out are not older than those it returned. This
  is what `SetWatermark` needs to conclude that a passed row that was seen is a tie;
* `UpsertDone`: at `"upserted"` every row of the batch is handled;
* `BatchKeepsHandles`: a handle silver has is in the batch about to overwrite it, so that a
  retry with newer rows never takes one back;
* `HistoryPassed`: rows recorded as overtaken or cut lie at or below the watermark;
* `SeenInRaw`: rows do not disappear.

`CommitOnlyAdds` (`RawTableProofs`) is the lemma about the writers: a commit adds rows and fills
handles, and nothing else. There is one lemma per step of the task, `NextInvariant` combines
them, and the two action properties use the same facts.

`FailuresExplained` (`FailsOnlyByGrowth`) is about `QualityCheck`: since harmonized rows have
their raw rows (`HarmFromRaw`) and both tables are finite, there are never more of them at one
time, so a check that fails has seen the raw table grow. It needs no more than `IInv` and that
the quality check changes nothing.

### Backfill

`BackfillProofs` proves, for any events, uris, writers, sources, windows and numbers of runs,
from `RawAssumption` and `BackfillAssumption` (the container is a Python writer, the window is
not empty, a parser maps the bodies it does not raise on to records): `ArchiveCovers`
(`HandlesResolve`), `RunsAreComplete` (`EndMeansStored`) and `ReplayRewritesNothing`
(`RowsKept`). Nothing is assumed of how parsers are related, nor of when which version is
shipped: `ArchiveCovers` says that *some* parser that was shipped finds the event in the blob
its handle names, which is all that is left when a later one does not. The invariant has, beside
the types, `HandIsRead` (the records in hand are what a shipped parser finds in the blob in
hand), `WritesItsBlob` (an open transaction of a Python writer names the blob in hand and writes
the records in hand, so a commit only adds handles that resolve), `NifiHasNoUri`, `Idle`,
`HandIsOwn` (the container's hand holds what this run's parser finds, `Parsed`), and
`OwedOrStored`: a blob owed is in `keys`, in hand, or its records are stored. `ParsedKept` is
why a run has one parser: `Ship` waits for its end. At the end of a run hand and keys are empty,
which leaves the third. The lemmas about transactions are those of `RawTableProofs`.

### NifiInstall

`NifiInstallProofs` proves all safety properties of `NifiInstall` for any number of starts:
`TypeCorrect`, `CleanLog`, `LeftoversHarmless`, `WritersKeepTheirService`,
`OnlyCompleteGroupsRun` and `LeftoverServicesBounded`. The invariant has three kinds of parts.
`OwnGroup`, `OwnService` and `Targets` say what this start has made by each `pc`. `Untroubled`
and `CleanSoFar` say what is known as long as no call has failed or come too early for NiFi (the
target has been told to stop when its queues are to be dropped, and when its DELETE is sent it has
stopped and its queues are empty or about to be), or nothing was logged (which groups are left).
`RunningIsComplete`, `WritersServed`, `OwnChains` and `ServicesCounted` carry over from one
start to the next: a group only uses the service of its own start, a service is disabled only
while no group at work uses it, and a start that could not remove the old service had trouble: its
call failed, or a group still winding down used the service. `CalmerKeeps` is the lemma about
NiFi's own steps: a group that stops, empties or goes disturbs none of this.

### Dedup

`DedupProofs` proves, for any set of reports, any windows and inputs of any length:
`TypeCorrect` (`LoopTypeOK`), `Partition` (`EveryRowInOneCluster`), `SilenceBounded`
(`NoLongSilence`), `EarlyExitInOrder` (`EarlyExitSoundInOrder`), `BreakdownHoldsLatest`
(`BreakdownIsLatest`) and `RenamedByBetterSource` (`OnlyABetterSourceRenames`),
`OneClusterPerQuake` and `OneUidPerQuake` (below), from `ClusteringAssumption` (windows are
natural numbers, times and places integers, None is no number, a report has a known source).

The inductive invariant is `ClustersInv`: types, the input sorted by time, the partition, the
bounded silences and the clusters in the order they were opened. They need each other: clusters
list their rows in input order and the input is sorted, so that the end of a cluster is the time
of its last member (`EndIsLast`); a cluster the walk reaches is not expired, so the new row
comes within the window of that member. `BestIsCandidate` shows that the loop's minimum exists:
among the candidates some end latest, and of these one is the newest. `RowOpensCluster` and
`RowJoinsCluster` are the two branches of the loop body. For the mart rows, `StartIsFirst` and
`PreferredIsFirstOfBest` use the order of the input again: the earliest member is the first, and
`min()` by (priority, time) is the first member of the best source, so a row appended later
wins only with a better source, and cannot move the time bucket.

`OneClusterPerQuake` (`QuakesRecovered`) and `OneUidPerQuake` (`QuakesHaveOwnUid`) are about
inputs with two quakes that are apart. A cluster of one quake has a centroid and an average
magnitude that move with every member. `IsSum` characterises the sums (`SumsExist`: a finite set
has exactly one), `SumBounds` bounds them by their terms, and so the mean of values near a point
is near it (`NearMean`) and that of values far from it on one side is far (`FarFromMean`). Hence
a report is a candidate for the cluster of its own quake (`CloseMatches`) and for no cluster of
the other one (`ApartDiffers`). What is left is the early exit: it may stop at a cluster of the
*other* quake, but never on the way to the own one. The first report of that is within the
window of the new one, a younger cluster was opened later than it (`OpenedInOrder`) and ends no
earlier than it was opened, so it is not expired either (`OwnCluster`). `TurnRecovers` concludes
that the turn keeps one cluster per quake. `OneUidPerQuake` then needs buckets as wide as the
window (`BucketWidth`) and cells narrower than the distance that sets quakes apart, `GRID <= 2 *
DIST_WINDOW + 1`, which is a hypothesis of the theorem: `dedup.py:149-150` rounds to two
decimals, about a kilometre, and twice `DIST_KM_WINDOW` is a hundred.

The lemmas are about operators of `Clustering`, with the rows and clusters as parameters, so
that they serve the next component too.

### DedupeDag

`DedupeDagProofs` proves, for any set of reports, any windows and any number of passes:
`MartTypeCorrect` (`TypeOK`), `LateReportsReachTheMart` (`PassReflected`), `FirstSeenStaysNear`
(`FirstSeenWithinWindow`), `OldRowsStay` (`OldRowsKept`), `RerunIsIdempotent`
(`RerunChangesNothing`) and, under the hypothesis of `OneUidPerQuake`, `RowPerQuake`: after a
pass over two quakes apart in time or space each has a row of its own. It rests on
`ClusteringAssumption` and `DedupeDagAssumption` (the sliding window and the bound of the clock
are natural numbers). The module extends `DedupProofs` for its lemmas; the machine of `Dedup`,
its variables and its theorems play no part.

`Clusterings` and `Upserts` are recursive functions. The library's induction theorems cannot be
used, since they take an operator, but a recursion over `0..n` needs only that a *set* of
numbers that has 0, and with each number below n the next one, has n: `BoundedInduction`, proved
from the least number outside it. With it `ClusteringsRecursion` and `UpsertsRecursion` show
that a function as defined exists, `PrefixInvariant` that the clusters of each prefix of a batch
satisfy `ClustersInv`, `ClusteredQuakes` that they are the quakes, and `UpsertsResult` what the
mart is after n rows (`AfterRows`): of each `event_uid` the last row, with the first
`event_time` in a new entry.

`DagInv` adds to the types that the batch and the last batch are sorted and injective, that the
rows of the batch lie in the window of its cutoff (`BatchInWindow`), that each entry begins its
key with the bucket of its `event_time` and of its `first_seen_at` (`OneBucket`, from which the
two are near each other), and that the mart has of the rows of the last pass the last one of
each uid (`LastUpserted`). `OldRowsKept` follows from `OneBucket`, `BatchInWindow` and
`BucketsInOrder`: the reports of a batch are in the cutoff's bucket or a later one, so no row it
upserts has the key of a row in an earlier bucket. For `RerunIsIdempotent`, a batch without
equal times is determined by its rows (`SameRowsSameBatch`), so the second pass upserts the rows
of the first in the same order.

### SyncEs

`SyncEsProofs` proves, for any set of `event_uid`s, any batch size and any number of passes and
late writes: `TypeCorrect`, `IndexBehindMart` (`IndexFollowsMart`), `StalenessExplained`
(`StaleDocsExplained`) and `NoOvertaking`, from `SyncAssumption` (finitely many uids, a batch
size of at least one).

`StaleDocsExplained` alone is not inductive: between SELECT and `set_watermark` a pass may
bump the rows of the batch. `SyncInv` adds

* `RowsArePast` and `WatermarkIsPast`: timestamps of rows and the watermark are older than a
  pass whose transaction is still open. This is where one pass at a time is used;
* `BatchFromMart`: a row of the batch is as it was selected, or was bumped since and is then
  newer than every row of the batch (`BumpedSince`), hence than the next watermark;
* `BulkDone`: after the bulk request a document of the batch is current, or stale for a
  reason, or its row was bumped since.

There is one lemma per action. `IndexFollowsMart` is what `LateWriteInvariant` needs: a late
write cannot be ahead of its row, so if it leaves a current document stale it was older.

`NoOvertaking` is the safety half of `RowsReachTheIndex`, without a bound on the passes:
`Ahead(u)` is the set of rows the sync task has to take before u, those above the watermark that
are not younger. No step adds a row to it that u is not itself a part of (`CommitJoinsBehind`: a
pass that commits is younger than every row it does not bump, since passes run one at a time),
and a run that stores its watermark raises it (`WatermarkRises`). So a row that is bumped no
more has ever fewer rows in front of it; that runs happen at all is the fairness TLC checks
with.

### Only model-checked

Liveness, since fairness and ENABLED are outside the prover's reach: `EveryRowSettled`
(`harmonize_live`), `UpsertsEnd` (`ingest`), `EveryReportDeduped` (`dedupe_dag`),
`RowsReachTheIndex` (`sync_es`; its safety half is `NoOvertaking`) and `InstallerEnds`
(`nifi_install`). The five violations are
counterexamples, which only TLC can give.

## 6. Not modelled

* HTTP and parsing of responses, field formats other than time and coordinates: a response is a
  set of records in some order; in `Backfill`, where one body is read by several parsers, it is a
  body and a parser is any function.
* Floating point and the sphere: see Clustering above.
* The schedule's minutes: tasks start whenever they are idle, which covers every timing.
* Two runs of one DAG at a time: `max_active_runs=1`.
* Views, configuration, images, init containers, Kibana: no state that code of the pipeline
  depends on, except for the index: `es-init` installs its mapping, and nothing makes `sync_es`
  wait for it, so a first bulk request may create the index without. What Elasticsearch then
  infers is not in the repository.
* The order of the sources in one run of the backfill: they write different tables; a run that
  ends early for one source is `Killed` for those after it.
* `nifi/flows/quakeflow.json`: a description of the flow that no code reads.
* Tests and sample data were read for intent only.

## 7. Plan

Modules come in the order of the data's way through the system, the shared tables first.

Done, all with proofs: `RawTable`, `RawWriters`, `Mapping`, `Harmonize` and `QualityCheck`,
`Clustering`, `Dedup`, `DedupeDag`, `SyncEs`, `Backfill`, `NifiInstall`.

Next, proofs:

1. How the two violated expectations of `Harmonize` and `SyncEs` are bounded: a row is
   overtaken only by a transaction that was open when the watermark passed it.

Next, models:

1. `DedupeDag`: what equal times may do between two passes over the same rows (no ORDER BY).
2. A composition of `DedupeDag` and `SyncEs`: stale rows of old uids in the index.
