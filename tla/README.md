# bsearch, specified

TLA+ models of the bsearch daemon: the catalog it keeps in SQLite, the scheduler
that indexes into it, the watcher that tells the scheduler what changed, the pass
that deletes what is gone, the cutting of documents into chunks, the search that
reads the result, the handle requests read through, and the process around all of
them. TLC checks the models on small instances; TLAPS proves their safety
properties for every value of the constants.

`PROJECT.json` has, per definition, the source lines it stands for; per run, its
properties; per property, a mutation of the model that breaks it.

## 1. The system

bsearch indexes a person's files for semantic search. One daemon (`bsearch serve`)
runs per user, started and kept alive by launchd. It owns a SQLite database, walks
the configured directories, hashes files, cuts their text into chunks, asks a local
embedding server for vectors, and answers searches over a unix socket.

| Component | State | Operations | Talks to |
|---|---|---|---|
| Catalog (`adapters/sqlite/store.go`, `queue.go`, `vec.go`) | `documents` (path to hash), `contents` (state, stage versions, attempts, next_retry_at, last_error), `chunks`, one `vec_*` table per generation, `vec_current` | UpsertDocuments, DeleteByPaths/Prefix, StoreChunks, UpsertVectors, UpdateContentState, MarkFailed, EnsureVecTable, Reschedule, ResetStale, SweepOrphans, ClaimBatch, GetWork | called by everything that indexes |
| Scheduler (`scheduler/scheduler.go`) | pending paths, LastScan, armed sweeps, once-per-process sweep flags, probe backoff, the drain's seen set | Run, cycle: walk, reconcile, orphan sweep, battery gate, drain | catalog, scanner, pipeline |
| Pipeline (`pipeline/pipeline.go`) | none between contents | Prepare, ProcessContent (read, chunk, embed, finish), failWith | catalog, embedding server |
| Discovery (`discovery/discovery.go`) | none between walks | Scan, ScanPaths, processFile, purge | catalog, file system |
| Deletion reconcile (`discovery/deleted.go`, `mounts_darwin.go`) | the remembered mount points (`meta` row `discovery.mounts`), per pass what the walk could not vouch for | recall, read and learn mounts, page through the catalog, judge each row, delete, prune, forget | catalog, mount table, file system |
| Watcher (`adapters/fsevents`, `scheduler/watch.go`) | the pump's batch, the out channel, the debounce window, the capped pending set, forceScan, the notify token | pump, closeWindow, enqueue, takePending, flush at shutdown | kernel, scheduler |
| Index handle (`daemon/index.go`) | current handle, reference counts, the gate | acquire, release, retire, Close | requests, the database file |
| Server (`server/server.go`) | slots for searches in flight | admit, drain | handle, listener |
| Lifecycle (`cmd/bsearch/serve.go`, `socket/listen.go`) | flock, socket node, writer | Listen, serve, ordered shutdown | launchd, kernel |
| Search (`search/service.go`, `domain/search.go`) | none | embed the query, KNN, collapse per content, expand to documents | handle, embedding server |
| Migrations (`adapters/sqlite/migrate.go`) | `user_version` | apply one step per transaction | catalog |
| Chunker (`chunker/*.go`) | none between documents | scan blocks, sections, chunkSection, hardSplit, mergeTiny | pipeline |
| Configuration, CLI client, status text, Time Machine mark, evaluation harness | none shared | parsing, formatting, one system call | - |

What is hard here, and where the properties are aimed:

- *ids held over a network call.* A pipeline stores chunks, embeds them for seconds
  or minutes, and writes vectors by chunk id into tables that have no foreign keys.
- *reads outside the transaction that acts on them.* A sweep reads its candidates
  before it deletes; a claim is stale by the time it is worked; a hash is recorded
  long before its bytes are read.
- *crashes between transactions*, followed by a start under another build, another
  model or another dimension count.
- *events that are lost, coalesced or refused by a full buffer*, and a shutdown
  that races the last debounce window.
- *a queue whose rows may not be workable now*, and must neither spin nor starve.
- *a database file that is replaced while requests read it*, and a drain that is
  cut off with requests still running.
- *two daemons around one lock, one socket path and one database.*
- *a drive that is not plugged in*, which looks exactly like its files deleted, and a
  record of drives that must survive unreadable tables, failed writes and passes that
  stop half-way.
- *a search of several snapshots*: the vector table may be cut over between the
  identity check, the network call and either KNN query, and dead vectors crowd the result.
- *byte budgets that meet*: target, cap, overlap, breadcrumb and input ceiling of a chunk.

`PROJECT.json` lists these hazards line by line, with the properties that cover them.

## 2. The modules

    Store  <--EXTENDS--  Indexer  <--  MCIndexer      Freshness <--INSTANCE-- WatchHandoff <-- MCWatchHandoff
      ^                     ^                         ClaimQueue  <-- MCClaimQueue
      |                     |                         IndexHandle <-- MCIndexHandle
    StoreHistory      IndexerProofs                   Lifecycle   <-- MCLifecycle
      ^                 (also of StoreHistory)        Deletion    <-- MCDeletion
    MCStore                                           Search      <-- MCSearch
                                                      Chunker     <-- MCChunker

Every module on the right but Freshness also has a proof module (`DeletionProofs` extends
Deletion, and so on); IndexerProofs has the theorems of Store as well as those of Indexer.

**Store** is the catalog as an *open* system: any number of writers, each allowed
any call the code makes somewhere, in any order. One action is one SQL transaction.
`documents`, `state`, `stamp` (stage_versions), `attempts`, `retry`
(next_retry_at: null, in the future, due), `lastError` and `chunks` are the tables;
`vectors[<<model, dims>>]` are the vec tables, `current` is `vec_current`. `held[w]`
are the chunk ids writer `w` keeps between StoreChunks and UpsertVectors. A sweep is
paged: `SweepCollect` reads a page outside a transaction, `SweepDelete` verifies and
deletes it inside one, and anything may happen in between. Store is also the
abstract specification the daemon is shown to implement. **StoreHistory** adds one history
variable, `owed`: the contents that were orphans when the sweep in progress began and have
been ever since.

**Indexer** is the daemon: the scheduler goroutine and the pipeline over Store's
state, with the file system, the endpoint, mains power, store errors and crashes as
actions of the world. `pc` is where the goroutine is: `wait`, `scan`, `cycle`,
`sweeping`, `gate`, `drain`, `claimed`, `dims` and, per content, `item`, `chunk`,
`embed`, `final`, `failing`, `mark`, `retry`, `charge`, `cap`. One action is one
transaction or one decision between two, so a crash (`Crash`) or a failing store
call (`StoreFails`) fits between any two. A crash keeps the catalog and loses
everything else; the next `Start` may have another build. Files are their hashes.
A build stands for the stage versions known at start (chunker, model); the
dimension count is learnt from the endpoint, as in Prepare.

**ClaimQueue** is ClaimBatch's order on its own: the newest rows, a share for the
oldest, ties on `updated_at`, the drain's seen set, and the outcomes: finished, put off
with or without an attempt charged (`Transient`, `Changed`), or left as it was (`Skip`). Indexer abstracts it to "any ClaimLimit claimable rows".

**WatchHandoff** is everything between the kernel and a look at the file: the pump
goroutine and its bounded batch, the out channel, the debounce window, the capped
pending set, refusal and forced walks, the notify token, the scheduler's cycle as far
as it looks at paths, shutdown in Run's order, a flush that completes, fails or times out,
and crash. Indexer abstracts it
to "an event for a changed path arrives late or never". **Freshness** is its abstract
specification: a set of paths the daemon owes a look, from which a path leaves only
by being looked at. The refinement mapping is `Owed`: the paths named in any batch or
in the pending set, the rest of a walk that answers for something, and every path
while a walk is requested or still to be made.

**IndexHandle** is the handle requests share: `EnterGate` to `OpenPools` are the steps
of `acquire`, with the stat that labels a handle, OpenExisting's own stat and the
open as three steps between which the file may be replaced, removed, or an earlier file
moved back to the path (`MoveBack`); `Retire`,
`LetGo` and `CloseDB` are the reference count; `Connect` is what opening a SQLite
connection by path does, a file that is not there included. Requests hold a handle
over two queries. The server admits, drains, and may cut the drain off.

**Lifecycle** is the process: TakeLock, ClearStaleSocket, Bind, OpenWriter, Serve,
then Unlink, CloseSocket, ReleaseLock (the three effects of Listener.Close), Drained,
IndexingStops, CloseIndexer and Exit, with failing starts and kills at any stage. A
socket node outlives the process that bound it; a flock does not.

**Deletion** is a full scan as far as it decides which rows stay: `BeginScan`
(resolveRoots), `WalkRoot` per root with what it writes and what it cannot vouch for
(`coverage.unknown`), then reconcileDeleted: `Recall` (KnownMounts), `ReadMounts`,
`Learn`, and per page `ListPage`, `Judge` row by row, `DeleteVanished` and
`PruneOutOfScope` (the two flushes), and `Forget`. `rows` and `memory` are all that
survives a scan. The disk, the mount table and directory permissions change between any
two steps, and a root may be removed or moved away, on the startup disk or on a volume
(`MoveRoot`), and come back; every call may fail; `GiveUp` is a cancelled or failed pass, `Restart` may come
with another configuration. A prefix is the set of catalog paths beneath it. That the
symbolic link of a linked root is itself removed or repointed is not modelled. Store
sees the pass as DeleteDocuments and UpsertDocuments.

**Search** is one request after another: `Request` (Validate), `ReadSpec`
(CurrentVecSpec and compatible), `EmbedQuery`, `FirstKnn` and `SecondKnn`, and the ways
each can fail, against `Catalog` steps in between. A cutover may be to a new, empty table
or back to an earlier generation that still has vectors, under the configured model or, by
another process, under another one; and the file may be replaced by another database
(`FileReplaced`). `SearchVectors` (the chunks found, each at the paths of its content, in
the order the fan-out loop emits them) and `Collapse` (CollapseBestPerContent, one hit at a
time) are operators; the properties say what the answer is without them. A query is how far
each chunk is from it. Which of the chunks equally far at the k-th place are found is left
open (`KnnChunks` is the set of all answers).

**Chunker** cuts one document: `Heading`, `Content` and `EndOfText` build the sections;
`TakeSection`, `PackBlock` and `EndPacking` pack a section into groups (chunkSection),
`EmitGroup`, `BeginSplit` and `SplitPiece` emit them (hardSplit); `StepOver` and `MergeTiny`
are the turns of mergeTiny's loop. A document is its blocks: where each begins and ends and
which headings are open; blocks may touch, and blank lines may stand before a block or a
heading (`Gaps`, `Lines`); sections and groups are runs of block numbers. A heading path is
the parts its string splits into, so a heading that contains the separator, and one without
text, behave as in the code. Where within the limit a piece is cut (blank line, line break,
space, character) depends on the bytes, and is any cut that makes progress.

### What is abstracted

- Content is its hash; bytes, text and vectors have no other structure. How many
  chunks a content gives (`ChunkCount`), whether it decodes (`Undecodable`), and what
  the endpoint makes of it (`Flaky`, `Rejected`) are constants.
- Time is what has elapsed: a backoff is waiting or due, the probe is held or not.
- An edit always moves the file's size or mtime, so a walk sees it. Files that
  change without either are outside what discovery can notice.
- `Discover` writes one path at a time; the code batches upserts, and a batch of
  several paths is one of Store's steps (`DocBatch`).
- Logging, the Snapshot that feeds status, and message texts are left out.
  `lastError` is whether a reason is recorded.
- The daemon currently passes the AC policy always (`serve.go`); the battery actions
  model the scheduler's own gate, for any `Power` it is given.

## 3. What is checked

Twelve runs, ten that pass and two that show a violation (section 5). Bounds count the
disturbances of a behaviour, not its length: drains, walks, retries and restarts after a
fault are unbounded.

| Run | Instance | What it shows |
|---|---|---|
| `store` | 1 path, 2 contents, 2 generations, 2 writers, sweep pages of 1 | With two writers interleaving any calls and a sweep half-way: foreign keys hold (`ForeignKeys`), no generation holds a vector without its chunk (`NoOrphanVectors`), ids held over an embed call never name another content's chunk (`HeldIdsNameTheirContent`), and a sweep that runs to its end leaves no row that was an orphan all along, whatever re-verification took out of its pages (`SweepIsComplete`). |
| `indexer_copies` | 2 paths that may share content, one content of two chunks and one undecodable, evictions, dims that change under the running daemon, an attempt cap of one | Any copy may be read and chunks are of the bytes their hash names (`ChunksAreOfTheBytes`); nothing disturbs the content in the pipeline (`ProcessingIsUndisturbed`, ADR 0014's single-writer claim); both routes to `failed` are stamped (`TerminalIsStamped`); every step is a Store step (`StoreSpec`). |
| `indexer_live` | 1 path, an empty file and a content that is flaky or rejected, with fairness, an edit, a fault, an outage, a restart under another model | The stamp of indexed content names the generation that holds all its vectors, across a crash anywhere (`StampNamesGeneration`); a step that makes a queue orphan leaves a sweep armed, with two named exceptions (`OrphansAreCollected`); drains end (`DrainEnds`); once disturbances stop, the index becomes and stays up to date (`Converges`). |
| `indexer_stranded` | violation | see section 5 |
| `handoff` | 2 paths, every buffer one deep, 2 changes | What the daemon was told stays owed until looked at, through overflow, refused windows, failed walks and reconciles, shutdowns and their failed flushes, and crashes (`OwedIsNeverForgotten`, a refinement); the wake-up hint is not lost; a completed shutdown flush leaves nothing behind; every change is noticed, even with every event lost (`Noticed`). |
| `claims` | 5 contents, 2 of them unreadable and 1 rewritten again and again, batch 4, aging share 1 in 4 | A drain that stops early stopped on a full batch of rows it had handled; no readable content starves. |
| `handle` | 2 requests, 2 files, 1 search slot | `NoUseAfterClose`, `NoLeak`; a cached handle is handed out only while its pool reaches the file at the path, unless an earlier file was moved back there while the handle was open (`NoGhost`); a drain, forced or not, ends with the index closed (`ShutdownEnds`). |
| `lifecycle` | 3 daemons, stops, kills and failing starts | One accepts (`OneListener`), also during a handover; a serving daemon is reachable at the path; the writer outlives the scheduler; in the end one serves (`Recovers`). |
| `lifecycle_handover` | violation | see section 5 |
| `deletion` | 3 paths, pages of 2, one volume mounted inside a plain root, a second root that is a link onto it, roots that go away, 2 configurations, 2 changes, 1 fault | A row is deleted only for a reason the disk gives (`DeletesOnEvidence`) and pruned only if the configuration says so (`PrunesByConfiguration`); a recorded volume stays recorded while it holds rows (`EvidenceIsKept`); after a complete enumeration every remaining row was seen in place or counted as declined (`NothingIsSkipped`); in a quiet world the catalog comes to agree with the disk (`CatalogFollowsTheDisk`). |
| `search` | 3 paths, 2 contents of 2 chunks, 2 models, 2 dimension counts, k of at most 3 | The answer is the nearest live contents with their best chunks (`NearestContents`); every copy is named, the newest first (`EveryCopyIsNamed`); a query is compared only with vectors of its own width and, unless another process under another model cut over during the request, of its own model (`OneVectorSpace`). |
| `chunker` | every document of up to 4 blocks, headings included, touching or with blank lines anywhere in between, and those of 5 that make three sections, sizes on both sides of every budget, with and without an input ceiling | No byte of a block is lost (`NothingIsTruncated`); a chunk and its breadcrumb fit the embedder (`FitsTheEmbedder`); none lies within another (`NoChunkWithinAnother`); the breadcrumb holds for everything in the chunk (`BreadcrumbIsTrue`). |

Why the bounds are enough. Two writers and two contents are what a stale id needs:
one writer's ids, another's replacement. Sweep pages of one make every page boundary
and the cursor matter. In the indexer's runs one crash, one edit and one configuration
change can each fall between any two transactions of a content; a second crash meets the
same catalog states, since a crash keeps only the catalog. In `handoff` buffers of one
are at their limit as soon as they are used. In `claims` the rows that
can come back for ever, unreadable or rewritten, are one short of a batch. Two files and two requests are a swap under a request; two handles suffice
because a handle object is used again once nothing names it. In `deletion` three paths
make a full page, a short one and a row that moves across the boundary when another is
deleted; two changes are an unplugging and a deletion, or a volume or root that goes and
comes back; one fault is any one failing call. In `search` k stops one short of all the chunks,
so that dead vectors and a long document can each crowd out the other content, with the
over-fetch and, after the retry, at the ceiling. In `chunker` four blocks are a section
that packs into three groups, and five with two headings among them a tiny section
between two neighbours.

Four runs have a constraint, and TLAPS proves the same safety properties without any.
`store` (`InFlightBounds`): backoff and reasons are columns no other part of the catalog
reads, so they are explored on one content while nothing else is in flight, and only one
writer embeds during a sweep. `handle` (`FirstFileIsBuilt`): of the two files only the
second may be one this build cannot read. `search` (`MovesAreSeen`, on steps): the catalog
moves while no request is under way or right before a KNN query; a move elsewhere could as
well have come there, since nothing reads the catalog in between. `chunker`
(`FifthIsThirdSection`): a fifth block only where it makes three sections, without blank
lines. The symmetry of `store` permutes writers and models, which the catalog only compares.
The type invariants of Store and Indexer are theorems and are not checked again. Deadlock
is checked wherever the system must go on; `handle` and `lifecycle` turn it off because
a closed daemon stops.

### Fairness

- The scheduler goroutine, the pump, the watcher, handlers and `main` run when they
  can (WF). launchd restarts a daemon that exits (KeepAlive, DESIGN.md, ADR 0017).
- A walk is due again and again (SF of `WakeToWalk` and `BeginWalk`): the scan
  interval is a timer that every cycle compares with LastScan.
- Outages of the endpoint and of power end, backoffs and probe deferrals run out. These
  are assumptions about the world, and bounds on how often it may fail, not promises
  of the code: `Converges` is about the time after.
- `Stop` of a draining server: `drainTimeout` is 10 s, then connections are closed.
- A scan goes on and another one follows (WF of `Scan` in Deletion): one goroutine, and
  the same timer.
- Files, configuration, signals, kills and errors get no fairness.

## 4. What is proved

For every value of the constants: any number of paths, contents, chunks, generations,
writers and disturbances. The assumptions are the named ones of Store
(`HashAssumption`, `ChunkIdAssumption`, `DocAssumption`, `ModelAssumption`,
`BoundAssumption`, `NullAssumption`) and `IndexerAssumption`: types of constants and
distinct model values; likewise `HandoffAssumption`, `QueueAssumption`,
`HandleAssumption`, `LifecycleAssumption`, `DeletionAssumption`, `SearchAssumption` (a set
of paths and of chunks is finite, a limit is not beyond k's ceiling) and `ChunkerAssumption`
(the order of the byte budgets). TLC evaluates them on every run of those modules.

*IndexerProofs*, of Store. `StoreTypeCorrect`; `ReferencesHold` (ForeignKeys), `VectorsHaveChunks`
(NoOrphanVectors), `HeldIdsStayTheirs` (HeldIdsNameTheirContent), `FailedIsSilent`
(failed content has neither chunks nor vectors). The inductive
invariant `StoreInv` is the conjunction of the types and the four promises, which
need each other: UpsertVectors keeps NoOrphanVectors because held ids that are still
chunks are chunks of the content they were stored for. What AUTOINCREMENT contributes
is a lemma of its own (`FreshIdsAreNew`): fresh ids are chunks of nothing, rows of no
vector table and held by nobody. `StoreInvStep` has one step per transaction.
`SweepRunsToItsEnd` (SweepIsComplete) is about StoreHistory: whatever the sweep owes lies
beyond the cursor or on the page in hand, so a short page, which holds all that is beyond the
cursor, leaves nothing owed, and a thinned-out page is not taken for one.

*IndexerProofs*, of Indexer. `RefinesStore` shows every step of the daemon is a transaction
Store allows, or a stutter; `CatalogSafe` then follows from Store's theorems without looking
at the daemon again. `ITypeOK` strengthens the types with `Control`: at which labels an
item is in hand, the dims are known, a sweep is open. On it rests `ItemInv`, which gives
`SingleWriter` (ProcessingIsUndisturbed), `TerminalStamped` and `ChunksOfTheBytes`;
and on both `GenerationInv`: contents share no chunk, the drain's dims are the
endpoint's and name `vec_current`, and content about to be finished has all its chunks
in that generation. It gives `StampsAreTrue`, under the explicit hypothesis
`LiveDrift = FALSE`: the endpoint does not change its dimension count under a running
daemon. Without it the property is false (section 5). `OrphansCollected`
(OrphansAreCollected) rests on `SweepInv`: a sweep has passed no orphan of its scope but
those on the page in hand, and a page that is not full holds all that are left. So the step
that disarms a sweep, after a short page, leaves no orphan behind, and a row that becomes an
orphan behind the cursor was made one by a step that arms the next sweep.

*IndexHandleProofs.* `NeverUsedAfterClose`, `NeverLeaked`, `NeverAGhost` (an action
property) and `SearchesAreBounded`. `HandleInv` has three parts beside the types.
`GateInv`: who is between stat and open holds the gate, nothing is current meanwhile,
and nothing is opened after Close. `UseInv`: `refs[h]` is the number of requests that
use `h`, and an open handle is current, or retired with users left; three counting
lemmas carry it over taking and letting go. `FileInv`: unless an earlier file comes back,
a label stops matching for good when the file changes, so while it matches, every
connection was opened at that file. That is why a replacement between the stat and the
open is harmless although the label is then wrong.

*LifecycleProofs.* `LifecycleTypeCorrect`, `SingleListener`, `ServingIsReachable` and
`WriterOutlivesScheduler`. `StageInv` says what a daemon holds at every stage: lock,
accepting socket and node are each equivalent to a set of stages, and the stages that
accept or own the node are among those that hold the lock. Uniqueness then is the
lock's.

*DeletionProofs.* `EvidenceSurvives`, `EveryRowIsJudged`, `DeletionIsEarned` and
`PruningIsConfigured`. `ScanInv` says what the pass knows at each label.
`EvidenceInv`: once the memory has been recalled, the pass works with at least what is
recorded, so writing its set back loses nothing. `PageInv` and `JudgedInv`: pages leave no
gap (`PageHasNoGap`) and a short one is the last (`ShortPage`), so every row the cursor has
passed was judged and its volume noted; that is what makes forgetting safe. `VouchInv`: a
path outside `unknown` is where the walk and the mount table saw it, unless the world moved
during the scan. `VanishInv` then has a reason for every row on the list, and the reason
outlives the steps to the flush. A root that is gone puts everything beneath it among
`unknown`.

*WatchHandoffProofs.* `HintArrives`, `NothingAfterTheFlush` and `DebtIsKept`, the refinement
of Freshness. `HandoffInv` adds to the types where lists are in hand, that paths handed over
after the set was taken have their hint, and that the flush finds the watcher returned.
For the refinement the debt is read path by path (`OwedIs`): everything is owed, or a
buffer, the pending set or a list names the path. `BatchesPassOn` carries names through the
pump, the channel and the window, or records their loss as a rescan; `DebtStays` has one
step per action.

*ClaimQueueProofs.* `DrainsStopFull`. A due row outside the claim is older than every row of
the newest slice and newer than every row of the oldest, so the slices are disjoint, and each
is full (`FirstAreEnough`, about the first n of any finite strict order).

*SearchProofs.* `AnswersAreNearest` (NearestContents), `CopiesAreNamed` (EveryCopyIsNamed)
and `QueriesMeetTheirSpace` (OneVectorSpace). The first two are about what a loop computes.
`RankedLists` shows that counting predecessors lists any finite strict order, and so the
chunks by distance, the hits, and the contents by their nearest chunk. `MadeOf` is the
collapse loop's invariant: its entries are the first hits of their contents, in order, with
the paths of the hits of the same chunk so far, and a content that was met and has no entry
came after the answer was full (`CollapseStep` for one hit, `CollapseMade` for all).
`FirstHit` says what such a hit is: one of the content's nearest chunks at its newest path,
since a chunk nearer than one of the k found is itself among them, and the later hits of
that chunk are all its other paths. `AnswerRanks` then finds nothing left out that is nearer
than the last entry, and `BeyondReach` that what a short answer lacks has MaxK chunks before
it. No step depends on how sqlite-vec breaks ties. The catalog may be anything of its type at
either KNN query (`SearchInv`). `SpaceInv`: a table found to be of the configured model stays
so unless another process cuts it over, since every cutover in this process is to that
model.

*ChunkerProofs.* `NothingTruncated`, `ChunksFit`, `ChunksAdvance`, `BreadcrumbsAreTrue` and
`ChunkerTypeCorrect`, for documents of any length and all budgets in their order. `Inv` has,
beside the types: `TextInv` and `SectionInv` (blocks and sections follow each other),
`GroupInv` (each group begins and ends after its predecessor although it starts with an
overlap of it, and one of several blocks is within the cap), `OrderInv` (what is still to be
emitted begins and ends after every chunk), `CrumbInv` and `FitInv` (breadcrumb and size, chunk
by chunk, kept by merging because a merged chunk's path is the common one and its size is
checked against that path's ceiling), and `CoverInv` (a byte of a block is in a chunk or its
block is still to be emitted). `OrderInv` is what makes a merge's span the union of the two.

Where a proof needs an induction over the length of a list, it takes a least counterexample
(`LeastNumber`) instead of an induction scheme.

Only model-checked: all liveness (`DrainEnds`, `Converges`, `Noticed`, `NothingStarves`,
`ShutdownEnds`, `Recovers`, `CatalogFollowsTheDisk`), which needs fairness and ENABLED and is
beyond TLAPS's reach here. Every other property of a passing run is stated by a theorem.

## 5. Where the code and its words differ

Two runs show, by a violation, a sentence of the repository that the code does not keep.

- `indexer_stranded`: the dims sweep runs once per process and a drain without work
  never probes. After the endpoint changes dimensions under a running daemon the old
  content is never swept; search answers with an error that says "this clears itself
  once it catches up" (`search/service.go:159`).
- `lifecycle_handover`: the flock is released when Shutdown closes the listener, before
  handlers have drained and the scheduler has stopped. A successor may open and migrate
  the database under the writer that is still flushing (`serve.go:112`, ADR 0009:
  "held for the process lifetime").

One property that holds contradicts two comments. `ProcessingIsUndisturbed` says that within
one daemon no row is swept and no content re-chunked between the re-read of a claimed row and
the pipeline's last write: walks, reconciles, sweeps and the pipeline take turns on one
goroutine (ADR 0014). `scheduler.go:1117-1120` calls ErrContentGone "routine: the row was
swept (every referencing path deleted mid-flight, collected between the re-read and the
pipeline's write)", and `pipeline.go:355-357` says of the embed that "both a sweep and a
re-chunk inside it land here". Neither can happen without a second writer. The code that
handles them is still needed: the handover above makes a second writer for a moment, and the
results about Store, with any number of writers, are about what it then sees.

Texts that a later decision overtook:

- `watch.go:33-37`, `scheduler.go:486-491` and ADR 0014:79-81 say that a deletion dropped from
  the watcher's set is lost for good, "since only ScanPaths purges". Since ADR 0016 a walk's
  catalog-side reconcile finds it (`watch.go:226-228` says so); `Noticed` and
  `CatalogFollowsTheDisk` hold with every event lost.
- ADR 0016:96-102 says a query whose nearest hits were all pruned "comes back short" and calls
  over-fetching the real fix. The search over-fetches, and asks once more at the ceiling when
  it comes up short (`service.go:185`); `NearestContents` holds with any number of dead vectors
  up to that ceiling.

Seen while modelling, as an exception a property names or a bound a run stays below:

- ResetStale turns terminal orphans into queue orphans after the startup sweep was taken,
  and arms nothing, so every drain claims and skips them until something else produces an
  orphan (`queue.go:175`, `content.go:162`; an exception of `OrphansAreCollected`);
- an evicted placeholder whose stat moved drops its hash and is counted in Dataless,
  which arms no sweep (`discovery.go:826`; the other exception of `OrphansAreCollected`);
- unreadable rows keep their `updated_at`, so a batch's worth of them, at both ends of
  the order, fills every claim and the rows between them wait for as long as that lasts
  (`queue.go:50`; `ports.go:186`: "without the backlog ever starving"; `claims` has one
  such row fewer than that takes; a row put off by OutcomeChanged counts among them, since
  it comes back at the top of the order, uncharged, `scheduler.go:1094`);
- a volume ejected between the mount table being read and the stat of its files loses the
  rows of the pages judged in that window (`deleted.go:115`, `deleted.go:285`; the `moved`
  exception of `DeletesOnEvidence`);
- a mount memory that no longer parses counts as none: the pass records what is mounted
  now, and the next one may delete the rows of a volume that was away (`Corrupt`).

Seen while modelling, not stated as properties:

- an endpoint that is down for an embed and up for the probe after it costs the
  content an attempt (`scheduler.go:1188`; `content.go:129`: "an outage must never burn
  healthy content");
- `failWith` writes `failed` and the reason in two transactions; a crash in between
  leaves a failed row without a reason (`pipeline.go:455`);
- `retry`'s probe is a whole Prepare and may switch `vec_current` in the middle of a
  drain, whose contents go on being stamped with the old count (`scheduler.go:1188`);
- a handle is recognised by os.SameFile alone: if an earlier file is moved back to the path
  while the handle is open, the label fits again although a connection may have been opened
  to the file in between (`index.go:266`; the exception of `NoGhost`);
- the search checks the model once and the dimensions again with each KNN query, so a cutover
  by another process to another model of the same width goes unnoticed by a request under
  way (`service.go:143`, `vec.go:371`; the exception of `OneVectorSpace`);
- pooled connections are opened by path at first use, so the two queries of one request
  may read two files after a replacement, and a connection opened after a removal
  creates an empty database (`db.go:159`).

## 6. Not modelled, and the plan

In this order:

1. **Migration**: one step per transaction, a crash between steps, two processes.
2. `pipeline.Run`, the one-shot that the evaluation tools use; `fullJitter`'s bounds.

Left out for good: recognising blocks in text and decoding bytes in the chunker (character
work), the evaluation harness (floating-point scores of an offline tool), HTTP and JSON
encoding, CLI output and status text (stateless formatting), configuration parsing (its
result is the modules' constants), the Time Machine mark (one system call without state),
and the empty mount table of platforms other than macOS.

## 7. Running

    tlc -config MCStore.cfg MCStore              # likewise for every MC*.cfg and its module
    for m in *Proofs.tla; do tlapm $m; done
