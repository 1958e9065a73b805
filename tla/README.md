# A verification development for `ask`

`ask` is a small semantic-search server: it walks folders and Git repositories,
splits text files into chunks, has an external provider embed them, stores
everything in one SQLite file with a `sqlite-vec` virtual table, and answers
`POST /search` from it. This directory holds TLA+ models of the parts whose
correctness depends on order, concurrency, crashes or boundary arithmetic, the
TLC configurations that check them, and TLAPS proofs about them. Every
definition is translated from the Rust and SQL sources; `PROJECT.json` names the
lines of each.

Paths below are relative to `src/crates/`. `tlc -config X.cfg MC….tla` runs a
configuration, `tlapm …Proofs.tla` checks a proof.

## 1. Inventory

| component | source | state | operations | modelled in |
|---|---|---|---|---|
| Job queue | `ask-core/src/repository.rs` 1057-1180, `models/job_queue.rs` | table `job_queue` (id, type, payload, `claimed_at`) | enqueue (insert, or reset of a stale claim), claim, complete, defer | `JobQueue`; coarser in `Repository` |
| Workers | `ask-server/src/worker/mod.rs` | the claimed entry, a clock reading | tick: claim, dispatch, complete / defer / leave the claim | `JobQueue`, `EmbedPipeline` |
| Tables and transactions | `ask-core/src/repository.rs` | `documents`, `document_embeddings`, `document_embedding_vec` | upsert, replace pending, mark stale, delete, list, replace embeddings, seed jobs | `Repository` (statements), `EmbedPipeline` (transactions) |
| Ingest handlers | `ask-server/src/worker/ingest.rs` | hash, prefix and plan of the current file | walk, hash, read, upsert; replan; backfill | `EmbedPipeline` |
| Embed handler | `ask-server/src/worker/embed_document.rs` | loaded document, listed rows, vectors | load, check the hash, drop or replan, list, read, embed, store | `EmbedPipeline` |
| Startup | `ask-server/src/startup.rs`, `bin/ask-server.rs` | the configured model | find or insert the model, backfill, seed | `Startup`, `ServerStart`; one step in `EmbedPipeline` |
| Vector index | `ask-server/src/vector_index.rs` | vec table, `embedding_search_state` | decide on rebuild, drop, create, record, fill | `Startup` |
| Content prefix | `ask-server/src/worker/ingest.rs` 787-874 | – | bounded read of a UTF-8 prefix | `ContentPlan` |
| Chunk planner | `ask-server/src/worker/chunking.rs` | line scanner, splitting loop | breakpoints, ranges with overlap | `ContentPlan` |
| Search | `ask-server/src/http/search.rs`, repository 728-804 | the page being built | validate, embed the query, vector search, collapse | `Search` |
| HTTP ingest, mark-stale | `ask-server/src/http/ingest.rs`, `documents.rs` | – | enqueue; mark and seed | actions of `JobQueue` and `EmbedPipeline` |
| Embedding client | `ask-server/src/embeddings.rs` | batches sent, vectors collected | batches, order and number of the items, error classes, retry | `EmbeddingClient` |
| Progress statistics | `ask-server/src/http/progress.rs` | what has been read | eight reads without a transaction, set arithmetic | `Progress` |
| Response paths | `ask-server/src/http/response_paths.rs` | two roots with display directories | root order, prefix, join | `ResponsePaths` |
| Git plan | `ask-server/src/worker/ingest.rs` 370-560 | stack, repositories, skipped roots | enclosing repository, search, tracked files, walk | `GitPlan` |
| Migrations | `ask-core/src/migrations.rs` | table `migrations`, the schema | one transaction per version | `Migrations`, `ServerStart` |
| Connection pool | `ask-server/src/lib.rs`, every `pool.get()` | who holds and who waits for a connection, the write lock | get, give back, time out | `ConnectionPool` |
| Frontend | `frontend/www/app.js`, `frontend/nginx/` | `apiOnline`, two in-flight flags, the page | two pollers, their answers | `Frontend`, `Serving` |
| Router, health | `ask-server/src/http.rs`, `http/health.rs` | – | start of a request, health answer | `Serving` |
| Configuration | `ask-server/src/config.rs` | – | parse and validate the environment | not modelled |

**How they interact.** HTTP handlers and workers share nothing but the SQLite
file. An ingest request enqueues an ingest job. A worker claims it, walks the
root, and for each new or changed file commits one IMMEDIATE transaction: the
`documents` row, the removal of old vectors, the new pending rows, and an
`embed_document` job per recoverable (document, model) pair. Another worker (or
the same, later) claims that job, compares the file with the recorded hash, and
then drops the document (file gone), replans it (file changed) or calls the
provider and commits the vectors. A job row is unique per (type, payload), its
claim is a lease without renewal, and the row is deleted by id at the end. A
mark-stale request undoes embeddings in one transaction and seeds jobs again.
At startup the model row is found or inserted, rows of every document are
backfilled for a new model, jobs are seeded and the vector table is rebuilt if
it belongs to another model; only then do workers and HTTP start.

**What is hard.** (a) Between claim and completion a handler makes two or three
independent reads of the file and of the tables, and an HTTP call that may take
minutes; other workers and requests commit in between. (b) The queue's
deduplication treats a claimed job as if it were still to come. (c) The vec
table is outside foreign keys and triggers, and `documents.filepath` is not
unique in the schema. (d) Startup is not a transaction. (e) The lease arithmetic
uses a strict comparison, a synthetic claim time and a clock read before
waiting for a lock. (f) Prefix reading and overlap are byte arithmetic over
UTF-8. (g) The vector LIMIT is applied before filter and collapse.
(h) A document's vectors come in batches, in any order, from a provider that may
fail half-way. (i) Which files a Git-aware job ingests is decided by three routes
that must not overlap or leave gaps, and a job that failed repeats them over what
it has already done. (j) Migrations rename, copy and drop tables in a process that
may die, over databases of any earlier build. (k) Workers and requests share a few
connections and one write lock; the page's pollers depend on answers that may be
late, lost or given up by the proxy.
`PROJECT.json` lists these under `hazards`, each at its line.

**What correctness means**, component by component: the queue gives a payload to
one worker at a time, never loses a row it was not told to delete, and honours
retry delays; the tables have one document per path, no orphan rows, whole plans
and an index that equals the embedded rows of the active model; vectors are not
older than the hash they are filed under; work that is queued gets done and the
queue drains; startup ends, over the database of any earlier build and with none
of its rows lost, queues all work and leaves a sound and complete index; a
Git-aware job ingests exactly the promised files, each by one route; the chunk plan
covers the content and is accepted when it is read back; every chunk is stored with
its own vector, all of one attempt; a search page is the best page the index allows,
its paths name the user's files, and the statistics count no document twice; nobody
waits for somebody who waits, and the page keeps polling and shows what the server is.

## 2. Plan

Done, in this order:

1. `JobQueue` with its proofs; `WorkSet`, the abstract queue it implements.
2. `Repository`, `EmbedPipeline` with proofs about the tables.
3. `Startup`; `Migrations`; `ServerStart`, which composes them, with the proofs of all
   three.
4. `ContentPlan`, `EmbeddingClient`, `GitPlan`, each with its proofs; `FileJourney`, which
   composes them.
5. `Search`, `ResponsePaths`, `Progress`; `Requests`, which composes them, with the proofs
   of all three.
6. `ConnectionPool` with its proofs, `Frontend`; `Serving`, which composes them.

Left:

7. An abstract index ("search sees exactly the embedded rows of one model") that
   `EmbedPipeline` implements up to its leftover jobs.
8. `config.rs`, as operators from the environment's texts to a configuration or an
   error.

`EmbedPipeline` EXTENDS `Repository`; the composing modules EXTEND their parts and
state how one part's result becomes the other's input; `MC…` modules EXTEND the module they
instantiate and define only constants; `…Proofs` modules EXTEND theirs and
`TLAPS`, some of them through `OrderLemmas`, which has what several proofs need about
least and greatest numbers and about sorting. No module uses a RECURSIVE operator, so all of them can be proved about.
Definitions introduced as "Mutant of X" are deliberately wrong variants of X,
used to confirm that a property notices such a bug; no specification uses them.

## 3. Modules

### WorkSet and JobQueue

`JobQueue`: `jobs` is the table (id → payload, `claimedAt`), `lastId` its
AUTOINCREMENT, `now` the clock in seconds, `worker` each worker's program counter
with the entry it claimed and the clock reading of its tick. `EnqueueNew` and
`EnqueueReset` are the two branches of `enqueue_job`'s upsert, `ClaimJob` the
picked-and-stamped update, `CompleteJob`, `DeferJob`, `AbandonJob` the three ends
of `dispatch_job_with_resolver`, `ReleaseJob` the embed handler's early
`complete_job`, `Crash` the death of the process. `ClockLag` lets a caller use a
clock reading older than its transaction. `retryAt` is a history variable: when
a deferral promised the row back. `MaxRun` bounds a tick. The code has no such
bound; exclusivity depends on it (section 6).

`WorkSet` is what the queue promises, without rows, claims or clocks: payloads that
wait, and for each worker the payload it is doing. `JobQueue` implements it with
`waiting <- Waiting` (payloads with a row that no worker is at) and
`doing <- Doing`. Resets, deferrals' delays and the clock are stutters; a failure and
a crash are `GiveBack`; a second copy of work under way is never accepted.

### Repository and EmbedPipeline

`Repository` gives each SQL statement as a function of tables.
`EmbedPipeline` composes them: one action per transaction, one per unprotected
read. A worker's locals (`hash`, `plan`, `list`, `read`, …) hold what it read.
A file's content is a version number, its hash is that number (no hash
collisions), and its plan is the set of chunk indexes `ContentChunks[version]`;
version 0 is "content could not be read", i.e. a filename-only plan. `rows` maps
(document, model, chunk) to the state, the version the range was planned from
and the version that was embedded. The arithmetic of the lease is replaced by
its result in `JobQueue`: claims may turn stale, one or several at a time, only when
nobody works on their jobs (`ClaimsExpire`). A version of a file never comes back: a file
put back to earlier content is not covered. `Fault` is any I/O error, pool timeout, provider failure or
panic at any step. `Restart(m)` kills everything and starts with model `m`.

### Migrations, Startup and ServerStart

`Migrations` has one action per SQL statement of the seven scripts. `db` is what is
committed, `tx` the open transaction's view of it, `mig` the loop of
`apply_pending_migrations` (its control point, the versions it loaded, its position
in the script), `held` a history variable: what the database held at the first
start. A row is the tuple of the columns that identify it or refer to others, the
other columns are a table's "shape". SQLite's semantics of DROP, RENAME, INSERT …
SELECT and cascading foreign keys are external definitions. Two of them matter:
dropping a table deletes its rows first, with the cascades, and migration 6's
`PRAGMA foreign_keys = OFF` has no effect inside the transaction that runs it; its
order of statements is what keeps the rows. `Installed(k, rows)` is the database of a
build that knew the first k migrations: what an old file may be, and what
`RecordedMeansApplied` compares with. It is stated by tables and indexes, apart from the
scripts; k = 0, a new file, is among the initial states, so that the scripts are seen to
build each of the others.

`Startup`: every statement of `reconcile_embedding_startup` and
`ensure_active_search_model` is a step, since none runs in a transaction; the
process may die between any two and return with another model. Serving is
reduced to its effects on the tables, but not to whole jobs: what a handler commits
(`DropDocument`, `EmbedPair`) and the deletion of its job (`CompleteJob`, which may fail)
are two steps, with the job in `ending` between them, and a replan deletes its job
(`ReleaseJob`, the pair is then in `replans`) before it writes a plan or fails
(`FinishReplan`). Mark-stale requests, ingests and crashes fall in between; `used` has the
document ids that were given out. What stays in outline is the file: a handler may find it
changed, gone or as it was at any time. `torn` and `cut` are history variables
that say whether a crash fell into the rebuild of the index or into a backfill,
`corpus` the documents that were there before the first start.

`ServerStart` runs one after the other: `FirstBoot` turns the tables the migrations
left into the state `Startup` begins with, and a crash in either part begins anew. An old
database may hold an index (`IndexAsLeft`) and a model whose backfill an old build left
incomplete, which counts as `cut`.

### GitPlan, ContentPlan, EmbeddingClient and FileJourney

`GitPlan` decides which files a Git-aware job reaches. `marker` says of each
directory whether it is a repository, a submodule or plain, `failing` which of them
cannot be read or used with git, `ingested` which file was handed on by which route
(a repository's tracked files, or the walk of the root around them). `misjudged` is a
history variable: `git rev-parse` failed where an enclosing repository exists, which
the code cannot tell from "no repository". Three facts the properties have to allow
for: a repository nested in another one that is not its submodule is never ingested
(its directory is neither tracked nor walked); the walk skips hidden entries, while
repositories inside hidden directories are found and ingested; a job that fails in
one repository has already ingested the ones before it, and does so again.

`ContentPlan`: a file is a sequence of byte classes: ASCII, newline, NUL, the lead
bytes of two- and three-byte scalars, continuation bytes, and one class each for the
line starts that make a heading, a list item, a fence. `ReadPrefix` is the bounded
reader, `ScanFence`/`ScanLine` one iteration of `scan_breakpoints`, `Split` one
iteration of the splitting loops, `Prepare` the embed handler's reread. The decay
of a breakpoint's score is compared as a fraction, without floating point.

`EmbeddingClient` is one embed job's use of the provider. `Answers` is what a provider
may return for a batch: the right items in any order, a wrong index, a vector of
another size, one item too few or too many, no indexes at all. `faithful` records
whether the answers told which vector is whose; `ChunkGetsOwnVector` is about those.
Refusals to connect, timeouts, errors while sending and 5xx answers let the job come
back soon; everything else, "too many requests" and a body that breaks off included,
leaves the claim to become stale.

`FileJourney` follows one file: `ReadCandidate` reads it when the plan has selected it
(in place of `ContentPlan`'s own `Init`), and `BeginCall` takes over the number of
chunks that `Prepare` accepted.

### Search, ResponsePaths, Progress and Requests

`Search`: `Nearest(n)` is what the vector table may return for LIMIT n (ties in any
way); `HitsOf` is the SQL around it, `SeenHit`/`NewHit` one iteration of
`collapse_to_documents`. A request ends early as bad (400), with the provider's failure
(502, `EmbedQuery`) or with one of the server (500, `EmbedQuery` and `QueryFails`).

`ResponsePaths`: a stored path is a sequence of components, a displayed path a
sequence of pieces (separators, names, a drive); roots are ordered, matched by prefix
and joined with the display directory as the code does, Windows drives included. A display
directory is any text.

`Progress`: `req` is the request with what it has read; each SELECT is an action
(`ReadTotal` … `ReadCounts`), the set arithmetic of
`load_embedding_stats_snapshot` follows as operators. The writers are the
transactions of the other modules reduced to documents, the state of a document's
rows under the active model, and its job. `commits` and `inserted` count what was
committed during the request.

`Requests` is a client: a search whose results are translated to the user's paths
before they are sent, then the statistics.

### ConnectionPool, Frontend and Serving

`ConnectionPool` leaves the tables out. `phase` is where in its code a worker or a
request is, `holder` who has which connection, `waiting` who is inside `pool.get()`,
`writer` whose write transaction is open. `NextPhases` is the order of the blocks in
each handler, `SameConnection` the ones that keep the connection across: the orphan's
deletion, and the replan, which deletes its job, stats, hashes and reads the file
(`reread`) and writes the plan, all on one connection. A connection may thus be held for as
long as a file takes to be read, by as many tasks as there are workers; the write lock may
not, each statement before the upsert being its own transaction. A wait for a
connection or for the lock may time out, a statement may fail (`StatementFails`). The README of the repository (line 52) asks
for a pool larger than the number of workers; `PoolSize` is a parameter.

`Frontend` is `app.js`: two pollers with an in-flight flag each, split at their
`await`; the answer is handled when it comes. `Serving` puts both together. The proxy
gives up on an answer after ten seconds (`ProxyGivesUp`), a task may wait thirty seconds
for a connection, so the tasks of abandoned answers remain while the page polls again: the
page may have several tasks running (`PageTasks`). `StatsLost` is the other way to lose an
answer: the server is gone, and the proxy reports an error. The server may go
down and return at any time.

## 4. Runs

Passing runs. They list no type invariant that section 6 proves; only
`pipeline_workers` also checks its own.

- **job_queue** – 2 workers, 2 payloads, `Stale = MaxRun = 2`, delays below, at
  and above the stale age (0, 1, 3), clock to 6 (three leases), 3 rows. Checks
  `ExclusiveWork`, `RetryWindow`, `OnlyOwnRowDeleted` and the refinement
  `ImplementsWorkSet`. Three ids are enough for a row to be completed, enqueued again
  and met by a late worker.
- **pipeline_workers** – 2 workers, 1 path, 2 models of equal dimensions (the
  harder case: with different dimensions the vec table rejects foreign vectors),
  a file that shrinks from two content chunks to one and may become unreadable (the
  filename-only plan), 4 outside events. Checks `TypeOK`, `OneDocPerPath`,
  `RowsHaveDocument`, `WholePlanPerPair`, `IndexMatchesRows`.
  One path is enough because no statement relates two paths; two workers with
  four events reach ingest against embed, delete against store, replan against
  ingest and restart in the middle of each.
- **pipeline_single** – 1 worker, 1 path, versions with one, two and no content
  chunk, 2 models of different dimensions, 5 outside events (edits, requests, faults,
  restarts with either model): liveness (`QueueDrains`, `QueuedWorkIsDone`),
  and `EmbeddingNotOlder`, which holds with one worker
  (`ASK_SERVER_EMBEDDING_WORKER_COUNT=1`; the default is four) and fails with two.
  The two liveness properties except *stranded* work (`Stranded`). A file that changed is
  replanned under one model, while the rows of every other registered model turn stale
  with the ranges of the old plan, and are queued. If the file shrank, the embed handler
  refuses those ranges (`embed_document.rs` 277-286); if the vector table has other
  dimensions, the store fails. Either way the job comes back each time its claim turns
  stale and fails again, until the file changes once more (then the job plans the pair
  anew) or, where only the dimensions are in the way, its model is the active one. The run reaches both cases: without either
  disjunct of `Stranded` TLC refutes `QueueDrains`. After a switch back to the first
  model even a document of the active model can be stranded, if it was replanned under
  the other one meanwhile. With a single registered model nothing is ever stranded, by
  the definition. `QueuedWorkIsDone` starts from a state in which every recoverable pair
  has its job, as after a restart; how a job is lost is the subject of
  **pipeline_stale_race**.
- **startup** (`ServerStart`) – the database files of every earlier build, with 0 to 7
  migrations applied, holding as much of an old corpus as their tables can (a document
  that is embedded, or waits with its job, or has a second model's backfill cut short);
  2 documents of 2 rows, 2 models of different dimensions, 2 crashes: enough for
  a crash in a migration and in a startup, in each of two startups, or between two
  commits of a handler and in the startup that follows. One worker here; the proofs are
  for any number of workers and crashes. Checks
  `RecordedMeansApplied`, `MigratingLosesNothing`, `QueuedWhenServingStarts`, `IndexSound`,
  `CleanIndexComplete`, `BackfillCoversCorpus`, `StartupCompletes`. Deadlock is not
  checked in this run and the two violation runs of `Startup`: a server without documents
  or jobs, its ids used up, idles.
- **file_journey** – the root, a directory, one in that, a hidden one, with every
  choice of markers; at most one thing that fails, two runs of the job. Every byte
  string of at most 5 bytes, every text of at most 4 scalars and every text of at most
  4 lines of six kinds, budgets 2, 7, 20 (inside, near and beyond the content), chunk
  sizes 2, 3 and 5 with overlaps 1, 0 and 4; widths up to 3 bytes against chunk size 2
  reach the case of a scalar wider than a chunk. Up to 5 inputs in batches of 1, 2 and
  4 (a last batch that is full, partial, single), two attempts. Checks
  `SelectionIsExact`, `OneRoutePerFile`, `PrefixIsExact`, `RangesWellFormed`,
  `RangesCoverContent`, `PlanSurvivesReread`, `LoopsAdvance`, `ChunkGetsOwnVector`,
  `StoredWholeFromOneAttempt`, `BatchesTileInputs`.
- **requests** – indexes of up to 4 vectors, the legal limits 1 and 2 and the
  illegal 0 and 3, a raw cap that bites; equal, nested and separate roots, display
  directories of all the forms the code distinguishes; 2 documents, one of them there
  from the start without rows, stale age, lockout and rate window of 1 with a clock to
  2, 2 commits during a statistics request (any number before it): enough for a
  document to be inserted, claimed, embedded or deleted between any two of the reads.
  Checks `PageIsBest`, `ShortPageExhaustsRawLimit`, `LocationIsNearestContent`,
  `ShownPathNamesFile`, `LockedIsUnclaimable`, `RemainingNotDoubleCounted`,
  `QuietStatsAgree`.
- **serving** – 1 worker, 3 request tasks, 2 of them the page's, a pool of 2: the
  smallest pool larger than the number of workers, with more tasks than connections
  and one abandoned task beside the current one. Checks `NoRequestBehindWorkers`,
  `WaitersHaveRunner`, `PageFollowsServer`, `PollingGoesOn`.

Runs that exhibit a disagreement between code and documentation (each checks
the one property, `findings` quotes the text):

- **pipeline_lost_update** – an embed job reads the old file; an ingest commits
  the new hash; the job commits the old vectors under the new hash. Every later
  ingest finds the hash unchanged.
- **pipeline_stale_race** – rows marked stale between the commit of the vectors
  and `complete_job`: their job is deduplicated against the one about to be
  deleted.
- **startup_torn_index** – a start with model 2 drops and creates the vector table and
  dies before it records `embedding_search_state`, which still names model 1. The next
  start, with model 1 again, asks whether a table exists and whether the state names its
  model, finds both, and serves model 2's empty table, of other dimensions. (A crash one
  statement later, before the table is filled, has the same effect on a start with the
  same model.)
- **startup_cut_backfill** – a crash in the backfill of a new model: the next
  start finds the model registered and skips the rest.
- **progress_empty** – the active model has no rows: `SUM` is NULL and
  `/embedding/stats` fails.

Facts seen while exploring, without a run of their own. When the replan of
a changed file fails, its job is already deleted, so nothing is retried before the next start. With two
workers `QueuedWorkIsDone` fails, because an ingest may commit the changed hash between
an embed handler's `complete_job` and its replan, which then has nothing to seed.
A job left over from an inactive model of the same dimensions writes its
vectors into the active table, where they use up the LIMIT of a search although
the model filter hides them (this is why `IndexMatchesRows` does not say that
the table holds the active model only, and why `ShortPageExhaustsRawLimit` has
its exception). With a pool that is not larger than the number of workers,
`NoRequestBehindWorkers` fails.

## 5. Fairness

- `EmbedPipeline!FairSpec`: each worker's step is weakly fair (workers poll every
  five seconds for ever and a handler that has started keeps running), and so is
  the expiry of the claims nobody works on (time passes). Under `FairSpec` they expire
  together and only when nothing else is claimable (`RetriesInTurn`): a job that failed
  waits for the stale age of a day (`STALE_JOB_AGE_SECS`), thousands of polls, so a job
  that fails on every retry does not keep the workers from the others. The safety
  properties of the other runs and all proofs are about `Spec`, where any abandoned claim
  may expire at any time. Nothing is assumed of files, requests,
  faults or restarts; their number is bounded, which is the assumption "once the
  outside is quiet".
- `ServerSpec`: the process, once booted, executes its migrations and its startup
  code, and somebody boots it again after a crash (a container restart policy). The
  bound on crashes is the assumption that they end.
- `ServingSpec`: the page's timers fire (`HealthTimer`, `StatsTimer`: `setInterval`),
  its handlers run once an answer is there (`HandleHealth`, `HandleStats`), a health check
  is answered by the server or by the proxy in its place (`AnswerHealth`), the proxy
  reports that the server is gone (`StatsLost`), and each task's next step is taken
  (`TaskWorks` or `TaskAnswers`: a wait ends with what it waited for or with its timeout).
  Nothing is assumed of the proxy giving up on a running server, or of the server going
  down or coming back.

## 6. Proofs

`JobQueueProofs`, for every set of workers and payloads, every stale age, lag and
delay, under the assumption `MaxRun <= Stale` where stated:

- `QueueTypeCorrect`, `QueueExclusive`, `QueueRetryWindow`, `QueueDeletesOwnRow`,
  `QueueImplementsWorkSet`.

`ExclusiveWork` is not inductive: the unique index speaks of rows, the property
of workers. `IInv` adds what links them: a running worker's row exists and carries
the worker's own clock reading as its claim (`HeldRow`), that reading is at most
`MaxRun` old (`LeaseTime`), two workers never hold one id (`DistinctIds`), payloads
are unique among rows (`UniquePayload`), and a deferred row carries the promised
synthetic claim or was reset after its delay (`DeferredRow`). Then a claim held by
a running worker is never stale, at any clock reading up to the present; so no
enqueue resets it and no claim takes it. The assumption is necessary: with
`MaxRun > Stale` TLC finds two workers on one payload. The code leaves it to the
choice of `STALE_JOB_AGE_SECS`. The refinement maps each step to one of `WorkSet` or
to a stutter, from the same invariant.

`EmbedPipelineProofs`, for any number of workers, paths, models, versions and
events, with no assumption beyond the types of the constants:

- `NoDuplicateDocuments` (`OneDocPerPath`), `NoOrphanRows` (`RowsHaveDocument`),
  `IndexNeverDiverges` (`IndexMatchesRows`).

`TableInv` joins the three with `IdsAndModel`: ids come from the counter (so a new
document's id has no rows), and the search state names the running model, which
is registered (so a backfill, which resets rows without touching the vec table,
only concerns models that have none of their rows in it after the rebuild). The
lemmas about `Repository` say what each statement does to the set of embedded
rows; the step lemmas compose them transaction by transaction; all the reads
leave the tables alone (`FrameStep`).

About the plans, in the same module and from the same assumptions:

- `PipelineTypeCorrect` (`TypeOK`), `PlansStayWhole` (`WholePlanPerPair`).

`PlanInv` adds what the workers hold: the list an embed handler took along is one
whole plan, even if its pair has been replaced or deleted since (`LocalsOK`), and rows
and jobs are of registered models, so a backfill meets no rows of its own
(`ModelsKnown`). A list is a whole plan because the rows of a pair are recoverable
together or not at all (`ListedIsWhole`); so whatever a late handler writes is a whole
plan again. That jobs keep their types needs that seeding numbers the new payloads
without gaps (`RankOnto`).

About the hash, for one worker and any number of files, models and events:

- `SingleWorkerStaysFresh` (`EmbeddingNotOlder`).

`FreshInv` follows the hash: recorded hashes are of versions the file had
(`HashesFromDisk`), and so are the ones about to be recorded; an embed handler
looks at its document's file (`PathOfDocument`), and what it read is no older than the
recorded hash (`ReadNotOlder`). The last of these is the one a second worker breaks,
by recording a newer hash after the read; **pipeline_lost_update** shows it.

`StartupProofs`, for any documents, models, contents of the old tables and number of
crashes:

- `RecordedAlwaysApplied` (`RecordedMeansApplied`), `MigratingNeverLoses`
  (`MigratingLosesNothing`), about `ServerSpec`;
- `StartupTypeCorrect`, `WorkQueuedWhenServing`, `IndexAlwaysSound`,
  `IndexCompleteUnlessTorn`, `CorpusCoveredUnlessCut`, about `Startup!Spec` and about
  `ServerSpec`.

The migrations: `DbAt(v, n, versions)` is the database that is about to be given statement
n of script v, as a function of what was held at first: which tables and indexes there
are, to which tables they refer, what they hold. One lemma per kind of statement says
when it takes a `DbAt` to the next one, `Script2` to `Script7` that each statement of each
script does; a statement that SQLite refuses ends the process, so nothing has to be assumed
of the old rows. `MigrationsInv` then says that the committed database is
`DbAt(k + 1, 1, 1..k)` for some k, that the caller is about to do script k + 1, and that
its transaction is where its position says. That the last state of a script is the first
of the next (`ScriptEnds`) and that this is the installation of k versions
(`InstalledIs`) ends the argument.

The reconciliation: `StartInv` says what holds at each point of the startup code: a model
being registered has no rows (`FreshModel`), what is recoverable is queued from the end of seeding
until serving starts (`QueuedSinceSeeding`), what each stage of the rebuild leaves (`RebuildStages`),
that the table agrees with the recorded state or is about to (`TableMatchesState`), and
that a backfill not cut short is done or under way (`BackfillOnItsWay`). For the server,
`FirstBootStep` derives `StartInv` from `MigrationsInv` and `CorporaAssumption`: an old
database has one row per document, model and chunk, rows only of documents and models it
has (foreign keys and unique indexes enforce both), and at most one active model. Its jobs
may be of documents that are gone.

`ConnectionPoolProofs`, for any number of workers, requests and connections:

- `PoolTypeCorrect`, `RequestsAreNotStarved` (`NoRequestBehindWorkers`, for pools
  larger than the number of workers), `WaitsAreNotCircular` (`WaitersHaveRunner`).

`PoolInv`: nobody holds two connections, whoever holds one is past `pool.get()` of a
database phase or rereads the file it replans, and conversely such a task holds one, and
the writer is at a write. `WaitersHaveRunner` is what follows for those that wait: if the
pool is exhausted, some connection is held by a task that waits for nothing (it runs
statements without needing the lock or with it at hand, or reads a file), and whoever has
the lock is at its statements, with a connection.

`FileJourneyProofs`, in any journey of a file (`JourneySpec`). The embedding client, for
every batch size, number of inputs and number of attempts (`BatchAssumption`):

- `DocumentsAreStoredWhole` (`StoredWholeFromOneAttempt`), `BatchesCoverInputs`
  (`BatchesTileInputs`), `ChunksGetTheirVectors` (`ChunkGetsOwnVector`).

`CallInv` says that the batches follow each other without gap, that the vectors
collected are as many as the inputs sent, all of this attempt, and that the i-th is the
i-th input's as long as the answers told (`VectorsAreOwn`).

The chunk plan, for every file, every budget and every configuration whose overlap is
smaller than its chunk size (`FilesAssumption`, `ChunkingAssumption`):

- `PrefixAlwaysExact` (`PrefixIsExact`), `RangesAlwaysWellFormed` (`RangesWellFormed`),
  `RangesAlwaysCover` (`RangesCoverContent`), `PlanAlwaysSurvives`
  (`PlanSurvivesReread`), `LoopsAlwaysAdvance` (`LoopsAdvance`).

`ContentInv` adds that the content is the prefix once it is read (`ContentIsPrefix`), that
lines and breakpoints lie on scalar boundaries (`BreaksOnBoundaries`), and that the ranges
so far reach the next start, which is a boundary (`SplitReached`). The lemmas
about one iteration say that a chunk ends after it starts, on a boundary (`ChunkEndFacts`),
that the next starts after this one's start and not after its end (`NextStartFacts`), and
that comparing decayed scores has a maximum (`BestBreakpointIsCandidate`). Covering is an invariant of the loop, so no induction over
the content is needed.

`GitPlanProofs`, for every finite tree of directories, every placement of repositories,
submodules and failures (`TreeAssumption`):

- `SelectionAlwaysExact` (`SelectionIsExact`), `RoutesNeverOverlap` (`OneRoutePerFile`).

`GitInv` follows the job as long as git's failure has not been mistaken for "no
repository": the search is outward and everything is below what is still to be searched,
found or skipped (`Searching`), what is to be ingested is at hand or ingested, and the walk
leaves out exactly what lies in a repository (`Ingesting`), nothing was ingested by a wrong
route (`RoutesAreRight`).

`RequestsProofs`, for any client's requests (`RequestsSpec`). Search, for every index, every
choice among ties and every limit (`IndexAssumption`, `LimitAssumption`):

- `PageAlwaysBest` (`PageIsBest`), `ShortPageAlwaysJustified`
  (`ShortPageExhaustsRawLimit`), `LocationAlwaysNearest` (`LocationIsNearestContent`).

`SearchInv` says of the hits collapsed so far what the properties say of all: each result
is its document's nearest hit, results are in order, a document left out is no nearer than
any on a full page, and the location is that of the first content hit (`PageSoFar`); and
that the hits are an answer of the query (`HitsOfQuery`).

Response paths, for all pairs of roots, stored paths and display directories
(`PathsAssumption`: a component of a path has no separators; a display directory is any
text):

- `ShownPathAlwaysNamesFile` (`ShownPathNamesFile`).

`PathsInv` is short; the work is in the lemmas on texts: a text determines its names
(`SpelledOnce`), and trimming, joining and the choice between `/` and `\` change the
separators only.

Statistics, for any documents, ages and number of commits (`ProgressAssumption`):

- `NothingCountedTwice` (`RemainingNotDoubleCounted`), `QuietStatisticsAgree`
  (`QuietStatsAgree`), `LockedMeansUnclaimable` (`LockedIsUnclaimable`, if the two
  crates' constants for the lockout and the stale age are equal, as they are).

`StatsInv` bounds what the request can have seen by the total it read first plus the
documents inserted since (`SeenBound`), and says that without a commit what it has read
is what the tables hold (`ReadsAreCurrent`).

Orders: the provers know nothing of the community modules' sorting and filtering, which
are defined by choice or recursion. The models place an element at its rank, the number of
elements before it (`InOrder`, `InIndexOrder`), and `OrderLemmas` shows that this lists a
finite set in order, for any total transitive relation.

## 7. Only model-checked

- Liveness: `QueueDrains`, `QueuedWorkIsDone`, `StartupCompletes`,
  `PageFollowsServer`, `PollingGoesOn`. Liveness under fairness is outside the
  prover's reach.
- The runs that exhibit a disagreement: a counterexample needs no proof.

Every invariant and every refinement that a passing run checks is stated by a theorem.

## 8. Not modelled

- `config.rs`: texts of the environment become numbers and paths, without state; what
  the other parts rely on (an overlap smaller than the chunk size) is an assumption.
- The router, the OpenAPI document, status codes, the check that an ingest request
  stays below the resource root.
- The five-second poll interval and thread scheduling: a worker may step at any time.
- File patterns, lists of extensions and symbolic links: a file is wanted or not.
- Hash collisions; the contents of vectors (a vector is the input or the version it
  was made from); the deterministic client used in tests.
- Columns that identify nothing (`title`, `size`, `content_truncated`, timestamps), in
  the tables and in the migrations; loading the `sqlite-vec` extension; opening and
  validating connections.
- The page's forms, themes and tabs, and two searches under way at once (app.js:87).
- `upsert_document`, `delete_pending_embeddings_for_model`, `find_model_by_name` and
  other repository functions without a caller outside tests.
