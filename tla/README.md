# FrankensteinDB: TLA+ models and proofs

FrankensteinDB keeps rows in SQLite and searches them with Tantivy. SQLite is the source of
truth; a durable *outbox* in SQLite carries every change to the Tantivy index of its table. An HTTP
server adds concurrent searches, persistent jobs, imports and schema migrations. This directory
holds the models of that machinery, the TLC configurations that check them, and proofs that TLAPS
checks. Source paths below are relative to the repository.

## 1. Inventory

| Component | State | Operations | Interacts with |
|---|---|---|---|
| `Database` (`src/lib.rs`, `database_api.rs`, `database_mutation.rs`, `database_index.rs`, `database_read.rs`) | SQLite rows, `__aq_outbox`, `dirty` marks; per table an `IndexWriter` and `IndexReader`; `deferred_outbox_ids`, `staged_outbox_ids` | bulk writes, typed mutations, batches, `flush`, `recover`, reads | index directories, every caller with `&mut` |
| Catalog and index directories (`database_admin.rs`, `database_index.rs`) | `__aq_tables`; final, building and retired directories | create, drop, aliases, reindex, `rebuild_table`, `swap_index_generation` | `Database`, filesystem |
| Schema changes (`database_schema.rs`) | shadow SQLite table | column plan, conversion of every row, rebuild | catalog, jobs, locks |
| Optimizer, backup, restore (`database_admin/optimize.rs`, `database_backup.rs`) | segments; archive and manifest | merge groups, archive, restore renames | `Database`, filesystem |
| `SearchService` (`search_service.rs`, `search_runtime.rs`) | published handles with generations, aggregation cache, JSON path types, wide-query limiter | `publish_catalog`, `handle`, `aggregate`, `read` | called by every request; published to by the writer |
| Queries (`query/`, `filter.rs`, `segment_ranges.rs`) | none (per query) | compile, collect, top-k, cursors, projection | Tantivy segments |
| Aggregations, geo, similar, facets | none (per query) | compile, execute, merge | `SearchService` |
| Server state (`bin/server/state.rs`) | database mutex, `locked_tables` | `with_writer`, `with_search`, `start_job` | all handlers |
| Jobs and imports (`jobs.rs`, `job_api.rs`, `import_api.rs`) | `__aq_jobs`, spawned tasks | create, run, cancel, retry, restart | server state, `Database` |
| Row API (`api_rows.rs`, `row_concurrency.rs`) | ETags | insert, PUT, PATCH, DELETE | `with_writer`, `SearchService` |
| Auth, metrics, HTTP types, CLI, benchmark | counters | - | - |

The hard behaviours are: two storage engines without a common commit, with errors and crashes
between their steps; a writer that outlives the call that filled it; a cache keyed by generations
that publications move; a mutex and named locks shared by jobs, row writes and restarts; directory
swaps. `PROJECT.json` lists each hazard at its line.

What makes each component correct:

- `Database`: whatever is lost in a crash, the outbox brings the index to SQLite's rows; a call that
  publishes returns Ok only when searches see its rows; no commit publishes a mixture.
- Directories: a table not marked dirty has its complete index in place at every moment.
- `SearchService`: no stale cached answer, no lost wake-up, an Ok publication publishes everything.
- Jobs: a completed job is searchable, final states stay, locks are released, records settle.
- Queries and aggregations: a compiled query selects what its filter means; each collector and each
  merge of partial results returns what one pass over all documents would; a listing page by page
  shows every untouched row once.
- Row API: no conditional write loses an update or is refused without one; the index holds the same
  document whether it came through the outbox or a rebuild; a migration keeps the meaning of cells.
- Backup: a restored database is one that SQLite had committed; the old one exists until replaced.

## 2. Modules

| Module | Models |
|---|---|
| `IndexedStore` | abstract: what a caller may assume of store, index and snapshot |
| `Outbox` | `Database`: rows, outbox, writers, readers, all calls |
| `OutboxInvariant` | the inductive invariant of `Outbox` |
| `OutboxProofs` | proofs about `Outbox`, and that it implements `IndexedStore` |
| `IndexFiles`, `IndexFilesProofs` | catalog and directories, and proofs about them |
| `SearchCache`, `SearchCacheProofs` | `SearchService`: publication, aggregation cache, limiter, and proofs |
| `Jobs`, `JobsProofs` | job records, tasks, mutex, table locks, PUT, and proofs |
| `SegmentRanges`, `CollectorProofs` | ranges of segments for parallel collectors; lemmas on ranges, finite orders and ranks |
| `TypedReads`, `TypedReadsProofs` | `execute_typed_read` page by page: collectors, cursors, merges of the optimizer, and proofs |
| `Values` | the life of a value: JSON, row value, SQLite cell, Tantivy field, JSON |
| `SchemaPlan` | the column plan of a schema change |
| `RowApi`, `RowApiProofs` | row API with ETags, other writers and schema changes, and proofs |
| `Filters` | filter trees, their two compilers, and what Tantivy does with a query |
| `Aggregations` | reads by filter, facets, grouped rows, named aggregations, shards |
| `Backup`, `BackupProofs` | backup against the job store's connection, and restore, and proofs |
| `MCOutbox`, `MCIndexFiles`, `MCSearchCache`, `MCJobs` | symmetry sets for TLC |
| `MCTypedReads`, `MCRowApi`, `MCAggregations` | definitions, requests and layouts for TLC |

`TypedReads` and `Aggregations` extend `SegmentRanges`; `Aggregations` extends `Filters`; `RowApi`
extends `SchemaPlan`, which extends `Values`.

### Outbox

A `Database` method takes `&mut self`, so one call runs at a time: `pc`, `kind`, `then`, `todo` and
`cur` are its program counter and locals. `rows`, `outbox`, `nextId`, `dirty` are SQLite and survive
a crash; `committed` is each index's last commit and survives; `reader`, `writer`, `deferred`,
`staged` are memory. Calls start with `Begin`: those in `RecoverFirst` call `recover()`, those in
`FlushFirst` call `flush()`. `recover()` is `DropHandle`, `Swap`, `Clean` per dirty table, then
`Replay`. `apply_outboxes` is `StageTable`, `Commit`, `Reload`, `Acknowledge` per table, then
`Applied`. The bodies are `BulkWrite`, `MutateTyped`, `MutateBatch`, `Reindex`, `ChangeSchema`,
`Optimize`, `Backup`. `Fail` and `StageFails` return an error from any step; `Crash` loses memory
between any two.

A row is an opaque value. Several operations of one record or one writer on one key are represented
by the last of them, because `stage_row_operations` deletes the key's documents before it adds one.
A commit of Tantivy is atomic; a failing `prepare_commit` is a `Fail` before it.

### IndexFiles

One action per filesystem call of `rebuild_table` and `swap_index_generation`; `RemoveFails` leaves a
directory half removed. A generation remembers its table and whether SQLite still describes it.
`Base` and `Dotted` name two tables such that the second's name is the first's with the extension
`retired`; they are used by one run only.

### SearchCache

A row set is the number of commits it has seen, and an answer is the number of its snapshot.
`StartPublish`, `PublishTable` per table, `PublishDone` are `publish_catalog` under the write lock of
the catalog, `PublishError` its error return. Callers go through `Lookup`, `Probe`, `Acquire`,
`Search`, `Release`, `Store`, `Answer`; clones of a handle share the reader, as `Arc` clones do.
The LRU list is the set `cache` of its entries and the relation `older`, the pairs of entries of
which the first was used before the second: only what is evicted next depends on the list's order.
`floor` is a ghost variable.

### Jobs

`jobs`, `defs`, `effect` are durable, the rest is lost in `Restart`. A task is `Running`,
`LockDatabase`, its body (`ImportBatch`, `ImportEnd`, `Maintenance`, `Migrate` + `Unlock`), `Publish`,
`Record`. `Busy` is SQLITE_BUSY on the job store's own connection. A PUT is `Admit`, `PlanReplace`,
`Replace`. The data a job changes is abstracted to `effect`: none, deferred, indexed, published.

### TypedReads and SegmentRanges

A listing plans its request once (`stable_typed_order`, choice of collector), then alternates pages
and writes. A page is `Start` or `Again` - a searcher and the ranges of its segments -, one `Collect` per range in
any order, and `Finish`, which merges the bounded buffers, cuts the window and makes the cursor of
the next page. Between pages `Upsert` and `Delete` write rows, and `Optimize` merges the groups of
`BalancedMergeGroups`. `start` and `touched` are ghosts. The score of a document is a fixed
function of it; block ordinals are compared inside a segment and resolved to values at `Harvest`, as
the segment collectors do. `BlockSlack` and `MaterializedSlack` are the growth factors of the
buffers. `Sorted` is the sequence of a finite set along a relation, `Buffered` and
`BalancedMergeGroups` are recursive functions over the documents of a range and over the segments in
merge order, `Optimized` is what the merges of the groups leave. A request asks for at least one row.

### Values, SchemaPlan and RowApi

`Values` keeps seven column types, one for each distinct treatment in `mutation/values.rs`,
`mutation/json_values.rs` and `tantivy_schema.rs`. Numbers count halves so that a real may have a
fraction; `MaxInt` is `i64::MAX`; a text is what it spells (a number, a Boolean, an instant, a word)
and whether it is spelled canonically. Every conversion may yield `Err`. `SchemaPlan` applies a list
of changes one by one (`PlanChange`, a recursive function over the list in `Build`) to the target
definition, the source column and the default of each column. `IsJson`, `IsChange`, `IsMutation` and
the assumptions that use them say what a request that was parsed can hold.

In `RowApi` what runs under the mutex is one step. `rows` is SQLite, `index` the published documents,
`queue` the writer. A client reads a row with its ETag (a hash stands for the row), edits, and sends
it back with `If-Match`; others insert, update, delete, defer, flush, send batches and migrate. A
migration whose plan has lost the default of a column panics with the mutex held: the mutex is
poisoned and the table stays locked. `job` holds the changes of the migration that waits for the
mutex, if any; a batch is one transaction (`Transaction`, `BatchStep`).

### Filters and Aggregations

`Filters` gives each filter its meaning on a document (`Holds`) and, independently, the query each
compiler makes of it; `Matches` and `Score` are Tantivy. A column that is NULL is absent from the
document, an array is a set, a JSON value maps paths to typed values. `search` stands for the text
predicates both compilers know, `regex` for those of searches only.

In `Aggregations` one request is answered over one snapshot. `Plan` splits it into tasks,
`CollectRange` and `CollectGroup` end in any order and may exceed the memory limit, `Finish` merges,
and `SearchSerially` is the repetition without workers. `CollectIntermediate` and
`MergeIntermediates` are the path of several shards, which refuses intermediates of another request.

### Backup

`main` is data.sqlite3, page by page; `wal` is its log, for every transaction the pages it wrote and
the state it committed. A page's value is the number of its last write. The job store commits (`JobWrite`) and
checkpoints (`StartCheckpoint`, `MovePage`) through its own connection at any time. A backup is
`Checkpoint`, `OpenFile`, `HashPage` for every page, `CopyPage` for every page; the restore of a
stopped server is `StartRestore`, `Stage`, `VerifyManifest`, `MoveAside`, `MoveIn`,
`RemovePrevious`, with errors (`Abandon`) and crashes between them. `SlowCheckpoint = FALSE` is an
assumption of the run: a checkpoint of the job store is not half-way while a page is read, so a copy
is torn only by a checkpoint between two reads, which the checksum catches.

## 3. Runs

| Run | Checks | Bounds |
|---|---|---|
| `OutboxSafety` | types, recoverability, inductive invariant, publication, reads, refinement | 2 tables, 2 keys, 2 values, 3 records, crashes |
| `OutboxLiveness` | recovery completes, also with deferred typed mutations | 2 tables, 1 key, 2 records |
| `OutboxDeferTyped` | expects a violation, see below | 1 table, 1 key, 3 records |
| `IndexFilesCrash` | complete index of clean tables, leftovers, recovery rebuilds | 2 tables |
| `SearchCacheAnswers` | fresh answers, limiter, wake-ups | 3 callers, limit 1, cache of 1, 1 commit, 2 publications |
| `SearchCacheCatalog` | Ok publishes everything | 2 tables, 2 definitions, 3 publications with errors |
| `TypedReads` | ranges partition segments, pages are windows, untouched rows once, cursors advance, merges keep rows | 4 rows, 10 requests, 3 workers, 1 write or merge per listing |
| `RowApi` | readable rows, one encoding, no lost update, no needless refusal, migrations | 2 keys, 7 types, 2 writes, 1 migration of 16, 1 conditional client |
| `JobsSafety` | completed work, migrations, final states | 1 table and an alias, 2 jobs of any kind, panics, busy store |
| `JobsSettle` | no orphan records, locks released, jobs settle | 1 table, 2 jobs, panics, restarts |
| `Backup` | restored database is a committed one, old one until replaced | 3 to 6 pages, 3 job writes, 2 restores |
| `Aggregations` | selected rows, scores, facets, merged aggregates | 8 documents in 4 layouts, 2 workers, filters of up to 3 levels |

Three records are the fewest with which a deferred, an immediate and an acknowledged record of the
same key coexist, and let a batch over both tables follow a deferred write. Two keys let a record
touch a key that another does not. Two publications and a cache of one make eviction, overtaking and
a late insert for the earlier generation happen; three callers make two wait at once. Two jobs give
every pair of kinds in conflict over the mutex, a lock or the store. Tables, keys, values, callers,
requests and definitions are only compared for equality, so the safety runs use symmetry.
`SearchCacheCatalog`, `RowApi`, `Backup` and `Aggregations` do not check deadlock: the bounded writes
and publications are used up, or the one request is answered.

Four rows with two values give ties inside and across segments and a page boundary inside a tie;
buffers of `top_n * 2` overflow with four rows; one document per range makes ranges outnumber rows.
The requests of `MCTypedReads` reach every branch of the planner. Two keys let a batch touch a row
the conditional client does not hold; two writes are a deferred and an immediate one around the
client's read. A file whose later pages change or grow, and three job writes, allow a write before, between
and after the two passes over the file. In `Aggregations` no range holds more distinct keys than ten
times the requested buckets, so the cut that Tantivy makes per segment never bites; what it does
beyond that is approximate by design. `Keys` of `RowApi` are symmetric; keys of `TypedReads` are
ordered and are not.

### Where the code departs from its documentation

`OutboxDeferTyped` is kept as a run: a deferred typed update of a row, an immediate update of the same row and a
crash make the reopened database replay the older row into the index, while
`docs/wiki/Core-concepts-and-guarantees.md:36-38` says recovery closes the gap.

Six further configurations lie beside the runs. Each differs from a passing run by the assumption it drops,
and TLC finds the property it names violated. They delimit what the passing runs claim.

| Configuration (module) | Property | What happens |
|---|---|---|
| `SearchCacheStale` (`MCSearchCache`) | `FreshAnswers` | a redefinition resets the generation to 1 (`search_service.rs:279`); a late insert for the old definition is served for the new one. The README (158-159) says trees are cached by table generation |
| `RowApiEtag` (`MCRowApi`) | `UnchangedAccepted` | a timestamp not spelled as searches return it: the ETag of GET never equals the one computed from SQLite, and every conditional write of the row gets 412. `docs/API.md:65`: "A stale value returns `412`", and the row is not stale |
| `BackupTorn` (`Backup`) | `RestoredIsCommitted` | a checkpoint of the job store is half-way during both passes: hash and copy agree on a file that mixes two transactions. `docs/wiki/Core-concepts-and-guarantees.md:84` calls the copies consistent; `database_backup.rs:11` asks for externally serialized writes, which `jobs.rs:67` does not give |
| `JobsStuck` (`MCJobs`) | `JobsSettle` | the update of a record meets a busy store, its error is dropped (`state.rs:141`), the record stays running |
| `JobsReplace` (`MCJobs`) | `ReplaceIsComplete` | a PUT is completed from one definition (`api_rows.rs:165`) and written under the next |
| `IndexFilesDotted` (`MCIndexFiles`) | `OthersUntouched` | rebuilding `x` deletes the index of a table named `x.retired` (`database_index.rs:212`) |

More divergences are part of the models without a configuration of their own. Any commit of a
table's writer publishes the deferred operations queued in it (`Commit`), so deferred writes are not
always invisible until `flush`. The lock of a migration is kept under the name in the request path
(`Admit`, `ChangeSchema`), so a write through an alias is admitted. A field spelled in another case
passes `ensure_known_fields` and is then written as NULL by an insert (`database_mutation.rs:120`). An
intermediate result carries the hash of its aggregations but not of its filter
(`aggregation_api.rs:99`), so shards asked with different filters are merged.

### Fairness

- `Outbox`, `IndexFiles`: `WF(Internal)`. A running call, or the open after a crash, takes its next
  step; there is no wait inside. Clients need not call. Liveness is claimed once faults stop.
- `SearchCache`: weak fairness of the publisher and of each caller's own steps. Arrivals, writes and
  spurious wake-ups are not fair. `notify_one` may wake any waiter and a newcomer may overtake it,
  so the property is that callers drain once arrivals stop.
- `Jobs`: weak fairness of each task's steps (the runtime polls spawned tasks). Row writes hold the
  mutex within one step, and the jobs that compete for it are finitely many, so weak fairness of
  taking it suffices. `ImportBatch` is left out of the fairness: a file ends, so `ImportEnd` comes.

## 4. Proofs

`OutboxProofs` proves, for every set of tables, keys and values and every number of records:

- `TypeCorrect`: `Spec => []TypeOK`, without further assumption.
- Under `DeferTyped = FALSE` (clients defer bulk writes only; run `OutboxDeferTyped` shows the
  assumption is needed): `Inductive`, `Recoverable`, `Published`, `ReadsPublishNothing`,
  `ImplementsStore`.

`RecoverableIndex` alone is not inductive: whether a commit leaves the right row under a key depends
on what is queued in the writer. `IInv` adds `Ledger` - the newest record of a key resolves to
SQLite's row; a key no unqueued record mentions has the right row after the writer's next commit;
queued records are older than all others and say only "refresh" - and two phase conjuncts that say
what each step of a call has established (`OutboxPhase`, `TablePhase`). "Refresh" is what makes the
skipping of staged ids and the order of replay harmless: the row is read when it is staged, and
the newest record decides. `IInv` is also an invariant of the run `OutboxSafety`. The refinement maps
`rows`, `committed`, `reader`, `dirty` to the abstract `store`, `index`, `view`, `stale`; every
commit of a table that is not dirty is an abstract `Publish`, because of `TablePhase`.

`IndexFilesProofs` proves `TypeCorrect`, `CrashSafeSwap` and `LeftoversBelongToMarked` under
`Dotted \notin Tables` (no table is named after another's retired directory; `IndexFilesDotted` shows
why). Its `IInv` adds `Phase`: a table is marked dirty throughout its rebuild, the build directory is
complete before the swap begins, and the retired path is free when the mark goes.

`JobsProofs` proves, for every set of tables, every number of jobs and clients, with panics, restarts
and a busy store: `TypeCorrect`, `CompletedIsSearchable`, `MigrationsExclude`, `FinalStatesStay`. The
inductive invariant adds that ids are given out in order (`Numbered`), that a task works on a record
that is active or was cancelled meanwhile (`Tasked`), and what a task has done when it publishes or
records (`Progress`). Cancellation is the reason for `Tasked`: it ends a record without ending its
task. `NoOrphans` proves `ActiveHasTask` under `SlowTransactions = FALSE`: no write transaction
outlasts the busy timeout of the job store. `JobsStuck` shows what happens otherwise.

`BackupProofs` proves `OldIsKept` without assumption, and `RestoresCommittedState` under
`SlowCheckpoint = FALSE` (`BackupTorn` shows why), for any number of pages and writes. Pages only
grow in value, so two passes over the file enclose every state of the file between them (`Below`):
when hash and copy agree, each equals the committed state that the file held between the passes
(`Between`). `Log` and `File` say how far a checkpoint has brought the file along the log.

`SearchCacheProofs` proves, for any tables, callers, limit, capacity, commits and publications:
`TypeCorrect` and `WideQueriesAreLimited` (from `Sound`, which ties the limiter's counter to the
callers that hold a permit); `PublishedIsSearchable`, also after failing publications and
redefinitions, because handles of two tables never share a reader (`Separate`) and a publication has
reloaded each table it has passed (`Built`); and `AnswersAreFresh` while definitions stay and
publications succeed (`Redefines = FALSE`, `PublishFails = FALSE`). Its invariant `Fresh` relates
every cached answer and every caller's floor to the newest generation: an answer under the newest
generation is as new as its reader, one under an older generation is as new as the floor of every
caller that still holds that generation. Both assumptions are needed: a redefinition
(`SearchCacheStale`) or an error starts a table again at generation 1.

`CollectorProofs` and `TypedReadsProofs` prove every checked property of `TypedReads` for any keys,
values, requests, growth factors, pool size, segment layouts, writes and merges:

- `TasksPartition`: the ranges of `SegmentDocRanges` have no gap and no overlap.
- `OptimizeKeeps`: `BalancedMergeGroups` places every segment in one group; merging the groups leaves
  at most the target number of segments, and every live row once.
- `PagesAreWindows`: each page is the window of the snapshot it reads, whichever collector ran and in
  which order its tasks ended. A bounded buffer holds the best `TopN` of what it has seen, or all of
  it, and a hit its threshold rejects is not among them (`Keeps`); ordinals of a segment's dictionary
  order its documents as their values do; the native comparator is the order of the answer; the best
  of the union of the tasks' best are the best of all.
- `BoundaryAdvances`: the cursor of a page lies strictly behind the boundary the page was asked with.
- `UntouchedRowsOnce`: a row that no write touches during a listing by cursor is listed exactly once,
  although other rows are written and segments merged between the pages. `Untouched` says that such a
  row is listed if and only if it does not lie behind the boundary; the primary key in a cursor's
  order makes boundaries and rows comparable without ties, so the next window loses and repeats none.

A finite order is handled through `Rank`, the number of elements before one, and `Top`, the elements
of rank below n. Inductions over ranges and buffers go by the least counterexample, since induction
rules with a predicate parameter are out of the prover's reach. `Layout` (types, one task per
document), `Pages` (what finished tasks have harvested), `Cursors` (boundaries are rows' keys, one
live document per key) and `Untouched` together are the inductive invariant.

`RowApiProofs` proves every checked property of `RowApi`, for any definitions, keys, clients,
requests, batches and lists of changes that satisfy the modules' assumptions:

- `TypeCorrect`, `Readable` and `Agrees` without further hypothesis.
- `ConditionalWrites` (`NoLostUpdate`) and `NoFalseConflict` (`UnchangedAccepted`) under
  `CanonicalTimes`: instants are sent to the millisecond, spelled as searches return them.
  `RowApiEtag` shows that the second needs it. So does the first: a text column altered to a
  timestamp keeps the client's spelling in SQLite while searches return another.
- `MigrationKeepsMeaning` (`MigrationFollowsColumns`) under `SmallNumbers` and `OneSpelling`.
  `SmallNumbers`: numbers fit i64, since `convert_value` turns a whole real beyond it into the
  nearest i64 (`as i64`, `database_schema.rs:202`). `OneSpelling`: definitions and changes spell a
  column in one way. `SchemaPlan::build` (`database_schema.rs:95-127`) finds a column
  case-insensitively but keys `sources` and `defaults` by its spelling: renaming `A` to `b` where the
  column is stored as `a`, then adding `a` with a default and dropping `b` leaves the source of `a`
  behind, and the new column takes the old cells instead of the default. Row bodies may use any
  spelling.

The values and numbers of the run `RowApi` satisfy `CanonicalTimes` and `SmallNumbers`; its change
lists contain two spellings of `a`, so there TLC goes beyond the theorem.

The argument has three layers. About values: what `json_to_row_value` or `convert_value` yields is
`Accepted` by its column, its cell is a `GoodCell`, a `GoodCell` is read back as a value that would
be stored as it, both encoders make one document of it, and it says what it was made from
(`Meaning`). About writes: the operations of every write account for all differences it makes to the
rows (`Follows`), and operations that do so, staged over what the writer holds, keep the index on
track (`Tracks`); batches by induction over their mutations. The inductive invariant `IInv` says that
the rows are good rows of the definition, that index and queue track them, and that a waiting client
or job carries a request that was sent. `IndexAgrees` alone is not inductive: a delete or update that
is staged must also override what is queued for its key, and a conversion must meet cells of the old
type. About plans: a step of `SchemaPlan::build` keeps sources and defaults over exactly the target
columns (`Covers`), and where it takes a column from is where `Origin` finds it, reading the changes
backwards (`StepTraced`, `BuildTraced`).

Only model-checked:

- all liveness (`RecoveryCompletes`, `RecoveryRebuilds`, `QueriesDrain`, `LocksReleased`,
  `JobsSettle`): outside the prover's reach;
- `Filters` and `Aggregations`: filter trees and partial results are folded by recursive operators,
  and what those compute for every input is an induction over data;
- `MigrationFollowsColumns` for change lists that spell a column in two ways, on the lists of the
  run only: there is no general form of it (see `OneSpelling` above).

## 5. Not modelled

Power loss that drops committed SQLite transactions (`synchronous` NORMAL or OFF); failing Tantivy
commits that leave a writer unusable; the executor pool, warm-up and the cache of JSON path types;
text analysis, phrases, fuzziness and BM25 (Tantivy's); floating-point geometry; histograms, ranges,
composite and percentile aggregations (compiled to Tantivy requests); the order Tantivy gives to
groups whose ordering metric has no value; highlighting, explanations, similar documents and the JSON
of answers; access decisions, which keep no state; HTTP, metrics, CLI and benchmark code.
`PROJECT.json` has the reason for each component.

## 6. Plan

1. Done: `Outbox` with its abstraction; `IndexFiles`; `SearchCache`; `Jobs`; `TypedReads` with
   `SegmentRanges`; `RowApi` with `Values` and `SchemaPlan`; `Backup`; `Filters` and `Aggregations`.
   Proofs for `Outbox`, `IndexFiles`, `Jobs`, `Backup`, `SearchCache`, `TypedReads` and `RowApi`.
2. Possible extensions: JSON path types and warm-up in `SearchCache`, histogram and range
   aggregations, quadkey cells of geo indexes.
