# TLA+ models of ShowcaseHost

ShowcaseHost turns GitHub repositories into snapshots, chunks of code and
vectors, and answers questions about them.  Nearly everything that can go wrong
without a test noticing happens in its background pipeline: three stages of
durable jobs, claimed under leases by runners in one or several processes, that
hand work to each other through PostgreSQL, a private file store and Qdrant.
Around the pipeline are services that run callers side by side in one process:
the worker process that chunks files, evaluation runs with their rate limiter and
vector cache, retrieval, and the chat.  And before all of it stands sign-in, which
synchronises who may use which repository.  This directory models them, checks them
with TLC and proves the main results with TLAPS.

Paths below are relative to `src/apps/api/app` unless they say otherwise.

## Inventory

| Component | State it keeps | Operations | Hard behaviour |
| --- | --- | --- | --- |
| Ingestion stage (`services/ingestion.py`) | `ingestion_jobs`, `source_snapshots` | enqueue, claim, process, retention, fail or retry | leases that run out under their runner, a stop between files and rows, errors inside error handling |
| Local snapshot store (`integrations/snapshots/local.py`) | archive and manifest per commit | publish, materialize, delete | two `os.replace` calls, two `unlink` calls |
| Chunking stage (`services/chunking.py`) | `chunking_jobs`, chunked files, snapshot membership | claim, materialize, reuse, publish, garbage collection, heartbeat | reuse and collection of shared files by several runners, publication without a status check |
| Worker protocol (`chunking/client.py`, `src/apps/chunker/src/index.ts`) | one child process, NDJSON stream | start, request, events, discard, stop | a stream abandoned half-way, a worker that dies between requests |
| Worker splitting (`src/apps/chunker/src/tree-sitter-fallback.ts`, `index.ts`) | none | parse, structural units, blocks, cut at lines, merge, fall back, adapt | gaps between nodes, characters of several bytes, sizes at their limit, an engine that throws half-way |
| Embedding stage (`services/embeddings.py`) | `embedding_jobs` | ensure, claim, model fallback, upsert, progress, succeed, retry | fallback after partial work, reports of a runner that lost its job |
| Vector store (`integrations/vector_store/qdrant.py`) | points with payloads, one collection per model | existing_hashes, upsert, search | points shared by snapshots |
| Repository chat (`services/chat.py`, `api/routes/chat.py`) | none | choose job, hybrid search, fusion, rerank, prompt, stream | the job it chooses against the points it filters; ties and limits of the ranking; failed answers in the history |
| Evaluation runs (`evaluation/service.py`) | run records in memory and in files | start, attempts and retries, recovery, progress, cancel, persist, read | attempts side by side, file writes in threads that outlive a cancellation |
| Rate limiter (`evaluation/rate_limit.py`) | rolling window, last request | acquire | callers that are cancelled while they sleep inside the lock |
| Vector cache (`evaluation/retrieval.py`) | vectors and locks per corpus, two semaphores | retrieve, embed documents, embed query | a retrieval that computes for others fails or is cancelled |
| Retrieval corpus (`evaluation/retrieval.py`) | none | cut a RepoQA file into chunks | overlap by lines of any length |
| Authentication and repositories (`services/auth.py`, `services/repositories.py`) | OAuth flows, sessions, access rows | create, consume, sync | one-time flows, access that moves with an installation |
| Web application (`src/apps/web/src`) | polled job status, messages, session store | poll, ingest, ask, stream, leave, clean | a page left in the middle of its stream |

The stages call each other only through rows: ingestion inserts a chunking job
in the transaction that records a snapshot, chunking inserts an embedding job in
the transaction that publishes chunks, ingestion of an already known commit
requeues failed chunking or asks for another embedding, and retention deletes a
snapshot with all its jobs under the hands of whoever is working on it.  The
other services meet only in calls: chunking asks the worker client, an
evaluation run asks its limiter and a retrieval before each answer, the page
asks the chat endpoint, which retrieves first.  Each of them is modelled by
itself, with its callers or its callees as choices.

## Modules

| Module | Models |
| --- | --- |
| `JobTable` | the lease and retry columns of a job row and the five updates the stages apply to it |
| `JobQueue` | the abstract specification of a stage: what a durable queue promises |
| `Ingestion` | the ingestion stage with the file store and, as its environment, chunking |
| `Chunking` | the chunking stage: shared chunked files, publication, garbage collection; ingestion and the worker process are its environment |
| `Embedding` | the embedding stage with the vector store and the search of chat |
| `ChunkWorker` | the worker process and its client: two pipes, requests in turn, batches, discards |
| `Evaluation` | evaluation runs: the manager, the runner's passes, record files, readers, restarts |
| `RateLimit` | the rate limiter: its lock, its rolling window, time |
| `VectorCache` | document vectors that evaluation retrievals share |
| `Splitting` | how the worker cuts a file: along its tree, by blocks, as plain text, and again when an input is too large |
| `Corpus` | the overlapping chunks of an evaluation file |
| `Retrieval` | two searches, fusion, reranking, relevance gate, sources of a prompt |
| `Chat` | the chat page, its session store, its stream and the history of a prompt |
| `Access` | OAuth flows, sign-in, and which repositories a user may use: requests as transactions, GitHub beside them |
| `MCIngestion`, `MCChunking`, `MCEmbedding`, `MCServices`, `MCAccess` | instances for TLC |
| `Lists` | orders, picks and sums of sequences, defined without recursion so that the provers can expand them |
| `JobTableProofs`, `IngestionProofs`, `ChunkingProofs`, `EmbeddingProofs`, `EvaluationProofs` | theorems about the stages and evaluation runs |
| `ListsProofs` | the laws of `Lists` that the next two rest on |
| `SharedProofs` | theorems about `VectorCache`, `RateLimit` and `ChunkWorker` |
| `RequestProofs` | theorems about `Chat`, `Retrieval` and `Access` |

**Job rows.**  Wall-clock time is reduced to the comparisons the code makes: a
lease is `none`, `live` or `expired`, and `backoff` says that `next_attempt_at`
is still in the future.  `LeaseExpires` and `BackoffElapses` let time pass.

**Steps.**  A runner's `pc` advances once per transaction, per remote call that
another step can race with, and per file operation.  `claim_next` is one
transaction and one action.  `process` is the sequence `Begin`, `Resolve`,
`Lookup`, then either `ReuseSnapshot`, or `Download`, `PublishFile` twice,
`RecordSnapshot`, `SelectOld`, `DeleteFile`, `DeleteRows`; `Fails` sends it to
the `except` clause from any point where the code can raise, and
`fail_or_retry` writes the row whatever its status is by then, as the code
does.  A constraint the database enforces (the unique active job of a
repository, the unique snapshot of a commit, foreign keys) is the failing branch
of the action that runs into it.

In `Chunking`, `process` is `Begin`, `Find` (the lookup of reusable artifacts,
with the lease), `WorkerAnswers` beside `heartbeat`, then `Publish`,
`PublishFails` or `PublishNothing`, then `SelectOrphans` and `DeleteOrphans`.  A
file stands for a path with a content, which is what an artifact is looked up
by and what its unique fingerprint is made of; `made[f]` numbers the rows
inserted for it, so that a row which was deleted and inserted again is not the
row a runner found before.  An error after the publication leads to the same
`fail_or_retry` and takes the success back (`undoing`).  The worker's answer is
one event per file, or none.

`JobQueue` tells which jobs may vanish under their owner (`Volatile`) and which
may be taken up again once settled (`Reopenable`): no job of ingestion, where a
success is final, every job of chunking.

In `Embedding`, `process` is `Begin`, `Probe`, `ReadHashes`, `EmbedBatches`,
then `Upsert` and `Progress` in turn, then `succeed`; `ModelFails` moves to the
next candidate.  A chunk's identifier stands for its text (the code derives it
from the file's fingerprint), so a stored point with that identifier has the
hash of the input; what varies is the snapshot in its payload.

**Services.**  A step of `Evaluation` ends where the code awaits something:
`_persist` is `Submit` (the record as it is then goes to a thread), the thread's
`OpenTemporary` and `WriteAndReplace`, and the continuation of whoever waits.
All writes of one run share one temporary file, so two of them can overlap;
`Content` tells a whole record from an empty or mixed file.  An attempt is
`RunStep`'s `FirstPass`, `Attempted`, `SaveAttempt` (the lock around progress)
and `AttemptSaved`.  In `RateLimit` time is a counter of ticks and the window
keeps the age of its entries.  In `VectorCache` a batch waits for a slot, is sent,
is answered or refused, and then has its slot until the provider's `close()` returns:
only then are its vectors stored (`BatchStored`).  When that `close()` fails or is
cancelled, the vectors are dropped (`BatchRaises`, `Unwind`), and the history
`embedded` forgets them.

`Splitting` is the cutting of one file.  A file is its length, its line ends, the
offsets inside its characters, and its tree; `frame[n]` has the locals of the call of
`structuralUnits` for node `n`, and each round of a loop is a step.  Offsets are bytes
of the decoded text: `TextDecoder` drops a byte order mark.  The parser's offsets need
not be bytes, so where nodes begin is left open, only that they nest.  `Degrade` is a
catch of `chunkFile`, at any step; `Measure` is `adaptChunks` with a token count that
is a choice.  In `Corpus` a file is the lengths of its lines.  The run `Chunking`
includes `Splitting`, and `Services` includes `Corpus`, as parts of their own.

In `ChunkWorker` the two pipes are sequences; `stdout` blocks the worker when
`PipeEvents` are in it, as a synchronous pipe does.  A process that has ended is
`broken` until asyncio notices.  A caller can leave at any point of its stream,
which leaves the process at work on its request.  A request that is larger than the
pipe, or behind what the worker has not read yet (`backlog`), makes its caller wait in
`drain()` for the worker to read it (`writing`): `Drained`, `DrainFails` when the
process has ended, or never, when the worker stands on a full `stdout`.

`Retrieval` computes with exact fractions (`Scale`) where the code has floats:
the fused score is a multiple of `1/Scale`.  `Rank`, `Fuse`, `Gate`,
`PromptSources`, and `Pairs`, `BoundedHistory` of `Chat`, are the functions of
`services/chat.py`; their properties compare them with a definition that does not
sort.  A text in `Chat` is the sequence of its pieces, each named by the question
it answers, so that a piece in the wrong answer shows.

**Access.**  A request is a transaction that takes a flow, calls GitHub, and commits
or rolls back: `FindFlow`, `TakeFlow`, then `Setup`, or `Identify` with `SignIn` or
with `ListRepositories` and the statements of `synchronize_installation` (`Join`,
`LookUp`, `Evict`, `Evicted`, `StoreRepository`, `ReadAccess`, `CommitSync`).  What it
has written is in `work[q]` until its commit.  Statements are those of PostgreSQL at
READ COMMITTED, the default the code leaves in place: a `SELECT` sees what is
committed and the request's own writes, a write waits for whoever has changed the
row, a `DELETE` removes the rows that were there when it started, and a duplicate
key or a deadlock is `RequestFails`.  A flow that two requests delete is gone for the
second too, which goes on, since SQLAlchemy only warns.  A user stands for
a GitHub account, `github_user_id` being unique.  `disclosed`, `contested` and
`overtaken` are history: what GitHub has listed to whom, and which syncs saw another
one commit between their first statement and their own commit.  Other attributes of
repositories and installations are left out, pages of a list are one answer, and so
is the consistency of an installation with its list.

**Leases.**  `LeaseOutlivesWork` separates two worlds.  When it is `TRUE` a lease
never runs out while its runner is alive inside `process`; leases of crashed
runners still do.  The defaults (300 s for ingestion, renewed around the
download; 300 s for chunking, renewed every 100 s beside the worker; 600 s for
embedding, renewed after each upsert) make that the intended
world, but nothing in the code enforces it: a slow download or a long first
round of embeddings is enough to leave it.  When it is `FALSE` any running
lease can run out, and a runner that lost its job goes on writing.  The runs and
theorems say which world they are about; for chunking the second world is that of
the theorems `RowsSafe`, `Complete` and `ListedSurvive`, which assume nothing of
leases, and no run has it.

## Runs

| Run | Shows |
| --- | --- |
| `IngestionLeases` | with leases that outlive the work: jobs are never in two hands, no exception ends a runner, a success is final, the stage implements `JobQueue` |
| `IngestionRestart` | with one runner killed and restarted anywhere: every queued job ends, retention keeps what it promises |
| `IngestionZombies` | leases run out anywhere and chunking runs alongside: what stays true in the database |
| `IngestionReuse` | violated: a stop during retention leaves a row without files, reused later as a success |
| `IngestionOutage` | violated: a database error inside `_fail_or_retry` ends the runner for good |
| `IngestionSelection` | violated: of two selections for one commit, only the later one may be embedded |
| `Chunking` | with leases that outlive the work: jobs are never in two hands, a listed file keeps its chunked file, what embedding is given is complete, a publication only adds to an earlier one, the stage implements `JobQueue`; and, beside the stage, the ranges that a file is cut into rebuild it, and so do their texts unless the parser's own offset cuts a character |
| `Embedding` | with leases that outlive the work: a success names a model that holds every chunk; the stage implements `JobQueue` |
| `EmbeddingSearch` | violated: chunks kept from an older snapshot are filtered out of dense retrieval |
| `Services` | the other services, each by itself: see below |
| `Access` | two requests that sign in, install and synchronise, may use the same flow, fail or come back signed in to another account, while GitHub changes: flows are used up with their effect, access is what GitHub listed to the own account and goes with the installation, and a sync that nobody overtakes leaves what GitHub listed and spares the others |
| `EmbeddingSplit` | violated: a late progress report names a model whose collection is incomplete |

**Bounds.**  `MaxJobs`, `MaxCrashes`, `MaxExpiries`, `MaxOutages` and `MaxPruned`
bound the behaviours; all are guards of the actions they name.  Two runners are
enough for every race in the code, since no transaction involves more than the
acting runner and the database.  Two repositories with three commits make a
claim skip over another repository's job and let a repository go back to an
older commit after a newer one was pruned (`Retention = 1`, `MaxJobs = 3`).
In `Chunking`, two snapshots share a file that each may chunk anew or reuse, one
has a file that the worker may leave out and the other a file skipped by name;
one removal, one retry by ingestion, one crash and one expired lease are enough
to have the garbage collection refused, a reused row deleted before it is
published, and two runners insert the same artifact: each was seen to happen.
`Splitting` has three files: `Nested` has
bytes around its root, gaps that fit and gaps that do not, a leaf larger than the limit
and a child as large as its parent; `Shifted` has nodes that begin within characters;
`OneLine` has no line end and an empty tree.  `MinSize = 4` is a character's most
bytes, so every cut can make progress, and `Sizes` are three limits, so that a second
attempt can be smaller; every engine starts on every file and fails anywhere.
The documentation (`docs/architecture/ast-aware-chunking.md:50-52`) promises that all
chunks of a file together are the file, and the worker's tests assert it of files of ASCII
(`index.test.ts:138`).  Of the ranges that is so.  Of the texts it is not: the parser
counts in UTF-16 units, the worker uses its offsets as bytes
(`tree-sitter-fallback.ts:1007`), and a chunk that begins within a character is decoded
to something else.  `RangesRebuild` therefore has the texts rebuild the file, or one of the
ranges begin at such an offset (`ParserTears`); the code's own cuts, at lines and sizes,
never tear a character.  TLC finds `TextsRebuild` by itself violated for `Shifted`.
`MaxAttempts = 2` has a first attempt, a retry and a final failure.  In
`Embedding`, two snapshots share one chunk, batches have one chunk, and two
models give one fallback, so a job can be partly stored under one model and
completed under the other.

A behaviour of `Access` is one of two parts.  In `flows` one user has a session and
nobody has been to GitHub yet; there is one installation, whose repository both users
may see, and `MaxFlows = 3` has a sign-in, an installation and its verification, or
three of one kind; one flow expires.  In `sync` three verifications wait for their
requests, as after three visits to GitHub: one sync that gives access, then two that
race for the repository, between two installations or for two users; GitHub changes
once (`MaxChanges`).  The second half of `AccessGranted`, `AccessInside`, excepts
`contested` repositories, of a sync that another one has overtaken.  Without the
exception TLC violates it: a sync looks a repository up in its installation, another
one moves the repository and deletes all access to it, and the first one adds its user
again.  `SyncExact` says what a sync does that nobody has overtaken, to its own user
and to the others.

**Services.**  A behaviour of `Services` is one of one service, which `part`
names; the others stand still.  Evaluation has three parts, each a set of bounds:
`recoveries` has two runs, the second a recovery of the first, one after the
other, with one cancellation; `cancellation` has one run that may be cancelled at
any point, also while its record is being saved; `restarts` has a process that
ends and one that finds its files.  Two examples give one attempt beside another,
and `MaxRetries = 2` a second retry pass.  What the run shows of each service:

- `FirstPassFirst`, `OutcomeTrue`, `SettledIsSaved`, `ScoresKept`, `RunsEnd`:
  nothing is retried before everything was tried; a run's status says what is in
  its result; a settled run is on disk as it is in memory; scores are not
  lost, neither by a retry nor by a recovery; a run ends.
- `LimitRespected`, `EveryoneServed`: no window ever holds more requests or tokens
  than the limit, also when callers are cancelled while they sleep; a caller that
  stays is served.  Two callers, a window of four ticks, two requests.
- `EmbeddedOnce`, `CacheSound`, `SlotsConserved`, `RetrievalEnds`: what a provider has
  answered is not embedded again, nor forgotten, whoever failed or left meanwhile, with
  one exception: vectors whose `close()` failed or was cancelled
  (`evaluation/retrieval.py:337`) are dropped and embedded again, although
  `docs/development/evaluations.md:93-94` says that successful work is not repeated.
  A corpus is shared only when all its vectors are there; each slot of the two
  semaphores is free or somebody's; no retrieval waits for what nobody answers.  Three
  retrievals, two of one corpus with three chunks in two batches.  The third has a corpus
  to itself, competes for the slots and always succeeds (`Undisturbed`): the first two
  fail and are cancelled at any step.
- `CorpusCovered`: the chunks of an evaluation file leave out no line, go forward,
  overlap, and are within the target unless they are one line.  Every file of up to
  six lines of 1, 3 or 12 characters, against a target of 11.
- `CompleteMeansAll`, `DeliveredIsAnswered`, `WorkerMemory`, `RequestEnds`: a
  request that completes has told its caller what the worker made of each file;
  no event of a stream somebody left is taken for one's own; a batch and the files
  in progress stay within their budgets.  Two requests are one left and one that
  meets its remains; five files give every kind of batch.  `RequestEnds` excepts
  `Deadlocked`, which TLC reaches: a caller has left, the worker stands on what it still
  writes for it, and the next caller waits in `drain()` (`chunking/client.py:88`), with
  the lock, for the worker to read.  Only a cancellation or the end of the process gets
  out of it.
- `FusionOrder`, `SourcesRelevant`: a chunk no search ranks behind another is not
  reranked behind it or left out for it; the sources are the most relevant
  candidates that pass both thresholds, and weak ones never fill up.
  All answers of both searches with up to two records over four chunks.
- `HistoryTurns`, `AnswersUnmixed`: the history in a prompt is questions with
  their own answers; text of one answer never ends in another, also when the page
  was left and opened again.  Three questions, one abandoned page.

`SettledIsSaved` excepts `disturbed` runs: those that were cancelled, or met by
the closing of the process.  A cancellation leaves the thread of the write it interrupts behind, and
`_write` gives all writes of a run one temporary file, so the write of
`cancelled` and the one it overtook can replace the file in any order.  Neither do
the parts `recoveries` and `restarts` include the cancellation that arrives while
`start` still saves the new record: it finds no task to cancel, and the run is
then executed although it is `cancelled`.  Both are steps of the model
(`CancelRun`, in the part `cancellation`) and listed as hazards.

**Fairness** is assumed for liveness only.  `JobsFinish`: a live runner keeps taking steps
(its loop never blocks for ever: every remote call has a timeout), a stopped
process is restarted, and time passes.  GitHub may fail as often as attempts
allow.  The property needs `MaxOutages = 0`; `IngestionOutage` shows why.
`RunsEnd`: the event loop runs a task that can go on, and threads do their writes.
`EveryoneServed`: time passes, the holder of the lock takes its turns, and a free
lock goes to the caller that has waited longest, as `asyncio.Lock` does.
`RetrievalEnds`: a call is answered or fails, as
all clients have timeouts, and a `close()` returns or fails.  `RequestEnds`: the
worker goes on (no file takes for ever to parse: the code has no timeout there), reads its
`stdin` while no write keeps it, and a caller that stays reads on.

`CHECK_DEADLOCK FALSE` is set throughout: a bounded number of jobs leaves
nothing to do once all have ended.

## Theorems

`JobTableProofs` types the five row updates; the stages cite it.

`IngestionProofs` proves, for every set of runners, repositories, commits and
every bound:

- `TypeCorrect`: `TypeOK` is inductive by itself, zombies included.
- `OneActive`: at most one active job per repository, with no assumption on
  leases.  It is inductive with `TypeOK` because `fail_or_retry` is guarded by
  the unique index.
- `Safety`: with `LeaseOutlivesWork`, `IInv` is inductive.  The heart of it is
  `HeldJobsRun`: whoever is inside `process` holds a running job under a live
  lease.  From it a requeue or a claim never touches a held job, so
  `ExclusiveWork` is preserved; and a job being settled is the one active job of
  its repository, so the unique index never rejects the settlement and no
  exception escapes (`RunnersSurvive`).  None of the three is inductive alone.
- `Exclusive`, `Survival` follow; `Final` is the action property that a success
  is never undone, from the same invariant.  No run lists `TypeOK`, `RunnersSurvive`
  and `SucceededIsFinal` by themselves: the first two are parts of `IInv`, and the
  queue that `IngestionLeases` checks the stage to implement has no step that undoes
  a success.
- `ImplementsQueue`: every step of the stage is a step or a stutter of
  `JobQueue` under the mapping that reads a job's owner from the runners' state.
- `Bounded`, with no assumption on leases: attempts are counted by claims, and a
  claim finds the job queued.  `fail_or_retry` queues it only below `MaxAttempts`;
  only the requeue of an expired lease does so without looking, and that lease
  has been counted.
- `Followed` and `Handed`, with no assumption on leases, are one invariant: rows,
  chunking jobs and embedding jobs of a snapshot come and go in the transactions
  that say so.  It needs `RowSeen` beside the two properties (a runner that reuses
  a snapshot has read a row of it) and the lemma that a set of jobs has a latest
  one, whose selection a finished chunking hands on.
- `Retained`, for one runner and whatever leases and crashes do: a row without its
  files is one that retention was after, so it is outdated (`BrokenIsOld`), and
  when a row is outdated, `Retention` newer ones that are not exist
  (`EnoughRemain`, a choice of the newest outdated row instead of an induction).
  With two runners the property is false, as the documentation warns: a slow
  retention meets a snapshot that was pruned and ingested again.

`ChunkingProofs` proves, for every set of files, manifests and answers:

- `RowsSafe`, and from it `Complete`, with no assumption on leases: the rows are
  consistent whatever runners that lost their job do (`RowsInv`).  A listed file
  is stored because a publication checks its references in the transaction that
  makes them, and a deletion is refused as a whole when one of its rows is
  listed; a publication is complete because every file of the manifest is
  reused, has an event, or is skipped by name; a removed snapshot stays gone
  because every writer finds its job absent.
- `Safety` and `Exclusive`: with `LeaseOutlivesWork`, `CInv` adds `HeldJobs` (the
  analogue of `HeldJobsRun`, with a succeeded job after the publication) and
  `ReusesListed`: a runner that holds a snapshot reuses every row the snapshot
  already lists.  The garbage collection cannot delete such a row and only the
  runner itself could replace it, which needs `ExclusiveWork`.  The run checks
  `CInv`, of which that is a part.
- `ListedSurvive` is the part of `RowsSafe` about garbage collection: a file
  that a snapshot lists is stored under the very row it lists.
- `Grows` follows from `ReusesListed`: a second publication lists every file of
  the first.  With leases that run out it is false: a runner that found nothing
  to reuse can publish a failure over the success of another one.
- `ImplementsQueue`: the refinement of `JobQueue`, `Reopen` being the garbage
  collection's error and the retry by ingestion.

`ChunkingProofs` also proves of `Splitting`, for every file, tree and size:

- `Rebuilt`: `RangesRebuild`, from `SplitInv`.  `FramesSound` says what a call of
  `structuralUnits` has at any moment: units that cover its node up to its cursor, each
  within the size, beginning where a character or a node does, and a cursor that has not
  passed the child that comes next; once it has returned, units that cover the node.
  `WholeSound` says the same of the file while its parts are put together, and of
  the units that are still to be merged with the ranges that are there.  The facts
  are about joining covers: two that meet, one whose first or last unit
  grows, one without its first unit (`CoverJoin`, `CoverFirst`, `CoverLast`, `CoverTail`).
  `NextCut` makes progress because a character has four bytes at most and the size is
  no smaller.
- `SplitTyped`: no range ends beyond the file, the type invariant by itself.

`EmbeddingProofs` proves:

- `StoreCorrect`, with no assumption on leases: what a runner has still to
  store, and what the collection of its model holds, are together every chunk
  of its snapshot (`StoreProgress`).  Points are never deleted, so another
  runner's writes cannot invalidate it.
- `Safety` and `Stored`: with `LeaseOutlivesWork`, `EInv` is inductive, and a
  succeeded job names a model that holds every chunk.  `EmbeddingSplit` shows
  that the assumption is needed.
- `ImplementsQueue`: the refinement of `JobQueue`.  Retention can delete the row
  of a job while its runner works, which is the queue's `Discard`; the runner
  ends without a write, which is its `Abandon`.

`SharedProofs` proves, for any retrievals, corpora and batch sizes, that
`CacheInv` is inductive: a retrieval that embeds holds the lock of its corpus
(`LockHeld`), so a planned batch is what the corpus lacks and stays so until it is
stored; the batches of a retrieval are disjoint (`BatchesApart`); what was answered and
not dropped is stored, or its `close()` is awaited by the one retrieval that embeds
the corpus (`CacheSound`, as `SoundOf`); and the two
tasks of a retrieval end together (`TasksTogether`), without which one could be
admitted again with batches still under way.  `Sound` and `Once` follow from it.
They hold whatever fails or is cancelled, a `close()` included, which makes the one
exception that both state.  From the same invariant
follows that `SlotsConserved` is inductive (`Conserved`), with the finiteness of the
three sets it counts: every step adds or takes away one holder of a slot, or all that
a retrieval which ends has; a batch keeps its slot from its request until its `close()`
has ended.  `CacheTyped` follows from both.

`SharedProofs` also proves `LimiterTyped` and `Respected`, that the rolling window is respected for
any callers, limits, window length and token costs.  `LimiterInv` adds that who waits
or holds the lock has an estimate within the token budget and stands in one place only
(`WaitersFit`), and `WindowTrue`: what the limiter counts is what was granted in the
last `Window` ticks.  The code removes entries from the front only, so the proof of
`WindowTrue` shows that the expired ones are always a prefix, also after time has
passed and after entries were removed.

And it proves, for any requests, files, answers and budgets, that `WorkerInv` is
inductive, from which `WorkerTyped`, `Delivered`, `Completed` and `Bounded` follow:

- `HeldOK`: the batches and the files in progress are disjoint and each within its
  budget.  `Bounded` is this one, with the law that a sum grows by what is added.
- `StreamOK`: a file of the current request has no answer yet; or its answer is
  in the stream, but for the chunks still buffered before it; or the caller has it;
  or the stream was thrown away.
- `OrderOK`, `FreshOK`: the worker takes requests in the order they were written,
  and nothing in the pipe belongs to a request that was not made yet.  Without it a
  discarded stream could be taken for the next one's.
- `TodoOK`, `EndOK`, `DoneOK`: files without an answer are those the worker still
  has; the complete event is the last of its request and comes when all files are
  answered; so a caller that reads it has read them all.

`RequestProofs` proves of `Chat`, for any questions and answers, that `ChatInv` is
inductive: what the page shows and what the session store keeps are conversations
whose texts are of their own turn, and an answer that is neither streamed nor
abandoned is complete or flagged as an error (`Shown`); the stream of a turn ends
with its end or its error, once (`WireOK`), else an incomplete answer could pass as
done; and the history a request was sent, and what the prompt keeps of it, has only
answers that a later turn may use (`ReceivedOK`, `KeptOK`).  `Unmixed` and `Turnwise`
follow.

It proves of `Retrieval`, for any answers of the two searches, that
`RetrievalInv` is inductive, and from it `Fusion` and `Sourced`.  The fused score
never falls with a better rank in either search, and `Fuse` sorts by `Ahead`, so a
chunk that no search ranks behind another is not behind it in the result, nor cut
off before it.  The gate's result is sorted by relevance and holds what passes, and
a prompt has a prefix of it.

Of `Access` it proves, for any accounts, repositories, installations and requests, that
`AccessInv` is inductive, and from it `AccessTyped`, `Membership`, `Granted` and
`Exact`:

- `KnownOK`: from `Identify` on, a request acts for the user of its flow, and its list
  is one that GitHub has disclosed to that account.  Flows only change their state
  (`Later`), so this stays true while other requests commit.
- `StoredOK`: a repository that a request gives access to is stored, or stored by it.
- `CleanOK`: what a sync that nobody has overtaken still knows to be true.  What it saw
  of a repository is what is committed; the repositories behind it are in its
  installation and its user's; all access to a repository it moves is on its list of
  deletions, and nothing else is.  A commit of another sync ends it, so it holds for the
  first of several syncs to commit, whatever the others have read.

`SharedProofs` and `RequestProofs` rest on `ListsProofs`: `InOrder` sorts, a pick keeps elements and their
order, sums over finite sets add up, and a recursive function over `0 .. N`
(`BatchStart`, `Product`) exists and satisfies its equations (`Iterates`).  The
library's induction theorem takes an operator, so these go by the least number that
would be a counterexample.

`EvaluationProofs` proves, for any runs, examples and number of retries:

- `EvalTypes`, `FastPath`, `Outcomes`, from one invariant, `EvalInv`.  Its
  heart ties the position of each attempt to the detail in the record: one under
  way finds no final detail there, one that is being saved finds its own, one
  at rest has a detail, and a second try presupposes that the first group has
  ended (`Progress`, `AttemptTrue`).  A run that ended itself has
  all its attempts at rest (`EndedTrue`), so no later save changes what its
  status says; and recovery and restart load only runs without a task.
- `Kept`, the action property that scores are not taken back, from the same
  invariant: a retry saves only over a detail without scores.
- `SavedInTheEnd`: as long as nobody cancels a run, its task waits for each write
  before the next, so the thread it waits for is the only one with the run's
  files (`OneWriter`), finds its own temporary file, and publishes the record as
  it is in memory (`SavedTrue`).  Cancellation is exactly what breaks it.

Of `Corpus` it proves, for any lines and target, that `CorpusInv` is inductive, and
from it `CorpusTyped` and `Covered`.  A chunk that is there says nothing yet of the next
one, so `CorpusInv` has where that one begins: behind the last chunk's first line, not
behind its end, before its end when it has several lines; and that the lines
the two share fit the target, else the next chunk could end before the last one does.

The assumptions are the named `ASSUME`s of the modules; TLC evaluates them in
every run.

**Model-checked only.**  The liveness properties (`JobsFinish`, `RunsEnd`,
`EveryoneServed`, `RetrievalEnds`, `RequestEnds`) are out of the prover's reach.
All other properties of the passing runs are theorems.  What the five runs that expect
a violation show is TLC's counterexample.  The steps of `Splitting` and `Corpus` are
proved to go forward; that their loops end is not stated.

## Not modelled

GitHub, Hugging Face, OpenRouter and Groq clients are choices between success
and failure.  Archive extraction, parsers and grammars are data, and so are
evaluation datasets and scoring formulas.  How the library `code-chunk` cuts the files
of its own languages is not in the repository.  The text around a chunk (overlap,
entities, imports) goes into the input of the embedding and not into the ranges that
`Splitting` has.  Progress
counters, messages and timestamps that nothing is compared with are left out.
Of sign-in, tokens, hashes, cookies and PKCE are left out: a flow or a session is
found or it is not.  Status views of repositories and jobs only read.
The keyword search is one SQL query of a database extension.  The pages that poll
for the status of jobs and evaluations show the latest answer that arrived.
The tuning script is an offline computation over cached scores.  Migrations,
wiring and page layout have no behaviour of their own.

## Plan

Done: all modules with their proofs.  What would add most from here:

1. One model of all three stages over one repository: the embedding job that is
   kept when a snapshot is published again with other chunks, and the chat that
   chooses between snapshots by the time their jobs ended.
2. Cancellation of evaluation runs stated as a property of its own, once the
   code has decided what a cancellation during `start` means.
