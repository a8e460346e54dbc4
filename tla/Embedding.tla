------------------------------ MODULE Embedding ------------------------------
(***************************************************************************)
(* The embedding stage (services/embeddings.py): jobs that the chunking    *)
(* and ingestion stages queue for a snapshot and a model selection,        *)
(* runners that claim them, the fallback from model to model, the vector   *)
(* store, and the search of repository chat over what was stored.  A       *)
(* runner's state changes once per database transaction or vector-store    *)
(* call; calls to an embedding provider change nothing but its pc.         *)
(***************************************************************************)
EXTENDS JobTable, Sequences, FiniteSets

CONSTANTS
  Runners,           \* processes that run an EmbeddingRunner
  Snapshots,         \* snapshots of one repository that chunking publishes
  Chunks,            \* code_chunks.id: one id for one text of one file
  ChunksOf,          \* ChunksOf[s]: list_embedding_inputs of snapshot s
  Models,            \* the catalog: one collection of the vector store each
  Selections,        \* selection_key values
  CandidatesOf,      \* CandidatesOf[s][m]: model_candidates for s and selection m
  None,              \* NULL
  BatchSize,         \* embedding_batch_size
  MaxAttempts,       \* embedding_max_attempts
  LeaseOutlivesWork, \* TRUE: a lease never runs out under a live runner
  MaxJobs,           \* bound on the embedding jobs of a behaviour
  MaxPruned,         \* bound on the snapshots that retention removes
  MaxCrashes,        \* bound on process crashes
  MaxExpiries,       \* bound on lease expirations
  MaxOutages         \* bound on database errors inside _fail_or_retry

ASSUME ChunksAssumption == /\ ChunksOf \in [Snapshots -> SUBSET Chunks]
                           /\ \A s \in Snapshots : IsFiniteSet(ChunksOf[s])
ASSUME CandidatesAssumption ==
  \A s \in Snapshots, m \in Selections : /\ CandidatesOf[s][m] \in Seq(Models)
                                         /\ Len(CandidatesOf[s][m]) > 0
ASSUME NullAssumption == None \notin Snapshots \union Runners \union Models
ASSUME SettingsAssumption ==
  /\ BatchSize \in Nat \ {0} /\ MaxAttempts \in Nat \ {0} /\ LeaseOutlivesWork \in BOOLEAN
ASSUME BoundsAssumption ==
  /\ MaxJobs \in Nat /\ MaxPruned \in Nat /\ MaxCrashes \in Nat
  /\ MaxExpiries \in Nat /\ MaxOutages \in Nat

VARIABLES
  jobs,      \* the embedding_jobs table, in order of created_at
  target,    \* target[j]: snapshot_id and selection_key of job j
  selected,  \* selected[j]: selected_model, with its dimension
  finished,  \* finished[j]: finished_at of a successful job; 0: none yet
  clock,     \* successes so far
  pruned,    \* snapshots that retention has removed
  points,    \* points[m][c]: payload snapshot_id of point c in m's collection
  pc,        \* pc[r]: where runner r is in _run and process
  held,      \* held[r]: the job r is processing
  rank,      \* rank[r]: fallback_count + 1, the candidate r is using
  pending,   \* pending[r]: chunks r has not stored yet
  crashes, expiries, outages

database   == <<jobs, target, selected, finished, clock, pruned>>
runnerVars == <<pc, held, rank, pending>>
counters   == <<crashes, expiries, outages>>
vars == <<database, points, runnerVars, counters>>

Jobs == 1 .. MaxJobs

\* In _embed_and_store, with the hashes read; then all the way through process.
StorePcs == {"embedding", "upserting", "progress", "finishing"}
WorkPcs  == {"claimed", "probing", "hashing", "retrying", "failing"} \union StorePcs
Pcs      == WorkPcs \union {"idle", "stopped", "dead"}

Target == [snapshot: Snapshots \union {None}, selection: Selections]

TypeOK ==
  /\ jobs \in [Jobs -> JobRow]
  /\ target \in [Jobs -> Target]
  /\ \A j \in Jobs : jobs[j].status # "absent" => target[j].snapshot \in Snapshots
  /\ selected \in [Jobs -> Models \union {None}]
  /\ finished \in [Jobs -> Nat]
  /\ clock \in Nat
  /\ pruned \in SUBSET Snapshots
  /\ points \in [Models -> [Chunks -> Snapshots \union {None}]]
  /\ pc \in [Runners -> Pcs]
  /\ held \in [Runners -> Jobs \union {None}]
  /\ rank \in [Runners -> Nat]
  /\ pending \in [Runners -> SUBSET Chunks]
  /\ \A r \in Runners : pc[r] \in WorkPcs =>
       held[r] \in Jobs /\ target[held[r]].snapshot \in Snapshots
  /\ crashes \in Nat /\ expiries \in Nat /\ outages \in Nat

Init ==
  /\ jobs = [j \in Jobs |-> AbsentJob]
  /\ \E m \in Selections : target = [j \in Jobs |-> [snapshot |-> None, selection |-> m]]
  /\ selected = [j \in Jobs |-> None]
  /\ finished = [j \in Jobs |-> 0]
  /\ clock = 0
  /\ pruned = {}
  /\ points = [m \in Models |-> [c \in Chunks |-> None]]
  /\ pc = [r \in Runners |-> "idle"]
  /\ held = [r \in Runners |-> None]
  /\ rank = [r \in Runners |-> 0]
  /\ pending = [r \in Runners |-> {}]
  /\ crashes = 0 /\ expiries = 0 /\ outages = 0

-----------------------------------------------------------------------------
(* The stages before it: publication of chunks, and retention.             *)

\* Called when chunking publishes s and when a later ingestion reuses s.  A job
\* of the same snapshot and selection is returned as it is, failed ones too.
ensure_embedding_job(s, m) ==
  /\ s \notin pruned
  /\ \A j \in Jobs : target[j] # [snapshot |-> s, selection |-> m]
  /\ \E j \in Jobs :
       /\ target[j].snapshot = None
       /\ \A k \in Jobs : k < j => target[k].snapshot # None
       /\ jobs' = [jobs EXCEPT ![j] = QueuedJob]
       /\ target' = [target EXCEPT ![j] = [snapshot |-> s, selection |-> m]]
  /\ UNCHANGED <<selected, finished, clock, pruned, points, runnerVars, counters>>

\* Retention deletes the snapshot's row, and its embedding jobs with it.  What
\* the vector store holds stays there.
PruneSnapshot(s) ==
  /\ s \notin pruned
  /\ Cardinality(pruned) < MaxPruned
  /\ pruned' = pruned \union {s}
  /\ jobs' = [j \in Jobs |-> IF target[j].snapshot = s THEN AbsentJob ELSE jobs[j]]
  /\ UNCHANGED <<target, selected, finished, clock, points, runnerVars, counters>>

-----------------------------------------------------------------------------
(* The runner.                                                             *)

claim_next(r) ==
  LET requeued == [j \in Jobs |-> RequeueExpired(jobs[j])]
      ready    == {j \in Jobs : Claimable(requeued[j])}
  IN /\ pc[r] = "idle"
     /\ \/ /\ ready = {}
           /\ requeued # jobs
           /\ jobs' = requeued
           /\ UNCHANGED <<pc, held>>
        \/ \E j \in ready :
             /\ \A k \in ready : j <= k
             /\ jobs' = [requeued EXCEPT ![j] = ClaimRow(requeued[j])]
             /\ pc' = [pc EXCEPT ![r] = "claimed"]
             /\ held' = [held EXCEPT ![r] = j]
     /\ UNCHANGED <<target, selected, finished, clock, pruned, points, rank, pending, counters>>

\* The locals of process are gone.
Leave(r, where) ==
  /\ pc' = [pc EXCEPT ![r] = where]
  /\ held' = [held EXCEPT ![r] = None]
  /\ rank' = [rank EXCEPT ![r] = 0]
  /\ pending' = [pending EXCEPT ![r] = {}]

Snapshot(r) == target[held[r]].snapshot
Candidates(r) == CandidatesOf[Snapshot(r)][target[held[r]].selection]
Model(r) == Candidates(r)[rank[r]]

\* Reads the job and its inputs; a job without inputs fails for good.
Begin(r) ==
  /\ pc[r] = "claimed"
  /\ IF jobs[held[r]].status = "running"
     THEN /\ pc' = [pc EXCEPT ![r] = IF ChunksOf[Snapshot(r)] = {} THEN "failing" ELSE "probing"]
          /\ rank' = [rank EXCEPT ![r] = 1]
          /\ UNCHANGED <<held, pending>>
     ELSE Leave(r, "idle")
  /\ UNCHANGED <<database, points, counters>>

\* provider.validate succeeds and the collection of the model exists.
Probe(r) ==
  /\ pc[r] = "probing"
  /\ pc' = [pc EXCEPT ![r] = "hashing"]
  /\ UNCHANGED <<database, points, held, rank, pending, counters>>

\* Mutant of ExistingHashes: a point of any model counts as stored.
ExistingAnywhere(s, m) ==
  {c \in ChunksOf[s] : \E n \in Models : points[n][c] # None}

\* existing_hashes: a chunk's id stands for its text, so a point that is there
\* has the hash of the input.
ExistingHashes(s, m) == {c \in ChunksOf[s] : points[m][c] # None}

ReadHashes(r) ==
  /\ pc[r] = "hashing"
  /\ pending' = [pending EXCEPT ![r] =
                   ChunksOf[Snapshot(r)] \ ExistingHashes(Snapshot(r), Model(r))]
  /\ pc' = [pc EXCEPT ![r] = "embedding"]
  /\ UNCHANGED <<database, points, held, rank, counters>>

\* Every batch has its vectors before the first one is stored.
EmbedBatches(r) ==
  /\ pc[r] = "embedding"
  /\ pc' = [pc EXCEPT ![r] = IF pending[r] = {} THEN "progress" ELSE "upserting"]
  /\ UNCHANGED <<database, points, held, rank, pending, counters>>

\* An EmbeddingProviderError that the retries of _retry did not cure: the next
\* candidate, or a transient failure of the job after the last one.
ModelFails(r) ==
  /\ pc[r] \in {"probing", "embedding"}
  /\ IF rank[r] < Len(Candidates(r))
     THEN /\ rank' = [rank EXCEPT ![r] = @ + 1]
          /\ pc' = [pc EXCEPT ![r] = "probing"]
     ELSE /\ pc' = [pc EXCEPT ![r] = "retrying"]
          /\ UNCHANGED rank
  /\ pending' = [pending EXCEPT ![r] = {}]
  /\ UNCHANGED <<database, points, held, counters>>

Smaller(a, b) == IF a < b THEN a ELSE b

Upsert(r) ==
  /\ pc[r] = "upserting"
  /\ \E batch \in SUBSET pending[r] :
       /\ Cardinality(batch) = Smaller(BatchSize, Cardinality(pending[r]))
       /\ points' = [points EXCEPT ![Model(r)] =
                       [c \in Chunks |-> IF c \in batch THEN Snapshot(r) ELSE @[c]]]
       /\ pending' = [pending EXCEPT ![r] = @ \ batch]
  /\ pc' = [pc EXCEPT ![r] = "progress"]
  /\ UNCHANGED <<database, held, rank, counters>>

\* Writes the model and renews the lease, whatever the job's status is by now.
Progress(r) ==
  LET j == held[r] IN
  /\ pc[r] = "progress"
  /\ IF jobs[j].status = "absent"
     THEN UNCHANGED <<jobs, selected>>
     ELSE /\ jobs' = [jobs EXCEPT ![j] = RenewLease(@)]
          /\ selected' = [selected EXCEPT ![j] = Model(r)]
  /\ pc' = [pc EXCEPT ![r] = IF pending[r] = {} THEN "finishing" ELSE "upserting"]
  /\ UNCHANGED <<target, finished, clock, pruned, points, held, rank, pending, counters>>

\* Mutant of succeed: the model of the last progress report is kept.
succeed_with_first(r) ==
  LET j == held[r] IN
  /\ pc[r] = "finishing"
  /\ IF jobs[j].status = "absent"
     THEN UNCHANGED <<jobs, selected, finished, clock>>
     ELSE /\ jobs' = [jobs EXCEPT ![j] = SucceedRow(@)]
          /\ selected' = [selected EXCEPT ![j] = Candidates(r)[1]]
          /\ finished' = [finished EXCEPT ![j] = clock + 1]
          /\ clock' = clock + 1
  /\ Leave(r, "idle")
  /\ UNCHANGED <<target, pruned, points, counters>>

succeed(r) ==
  LET j == held[r] IN
  /\ pc[r] = "finishing"
  /\ IF jobs[j].status = "absent"
     THEN UNCHANGED <<jobs, selected, finished, clock>>
     ELSE /\ jobs' = [jobs EXCEPT ![j] = SucceedRow(@)]
          /\ selected' = [selected EXCEPT ![j] = Model(r)]
          /\ finished' = [finished EXCEPT ![j] = clock + 1]
          /\ clock' = clock + 1
  /\ Leave(r, "idle")
  /\ UNCHANGED <<target, pruned, points, counters>>

-----------------------------------------------------------------------------
(* Failures and time.                                                      *)

\* Any error that is not the provider's: the vector store, the database.
Fails(r) ==
  /\ pc[r] \in WorkPcs \ {"retrying", "failing"}
  /\ pc' = [pc EXCEPT ![r] = "retrying"]
  /\ UNCHANGED <<database, points, held, rank, pending, counters>>

\* A database error inside _fail_or_retry leaves process and ends the task of
\* _run.
fail_or_retry(r) ==
  LET j == held[r] IN
  /\ pc[r] \in {"retrying", "failing"}
  /\ \/ /\ jobs' = IF jobs[j].status = "absent" THEN jobs
                   ELSE [jobs EXCEPT ![j] = FailOrRetryRow(@, pc[r] = "retrying", MaxAttempts)]
        /\ Leave(r, "idle")
        /\ UNCHANGED outages
     \/ /\ outages < MaxOutages
        /\ outages' = outages + 1
        /\ Leave(r, "dead")
        /\ UNCHANGED jobs
  /\ UNCHANGED <<target, selected, finished, clock, pruned, points, crashes, expiries>>

Crash(r) ==
  /\ pc[r] # "stopped"
  /\ crashes < MaxCrashes
  /\ crashes' = crashes + 1
  /\ Leave(r, "stopped")
  /\ UNCHANGED <<database, points, expiries, outages>>

Restart(r) ==
  /\ pc[r] = "stopped"
  /\ pc' = [pc EXCEPT ![r] = "idle"]
  /\ UNCHANGED <<database, points, held, rank, pending, counters>>

InWork(j) == \E r \in Runners : pc[r] \in WorkPcs /\ held[r] = j

LeaseExpires(j) ==
  /\ jobs[j].status = "running" /\ jobs[j].lease = "live"
  /\ LeaseOutlivesWork => ~InWork(j)
  /\ expiries < MaxExpiries
  /\ expiries' = expiries + 1
  /\ jobs' = [jobs EXCEPT ![j].lease = "expired"]
  /\ UNCHANGED <<target, selected, finished, clock, pruned, points, runnerVars, crashes, outages>>

BackoffElapses(j) ==
  /\ jobs[j].status = "queued" /\ jobs[j].backoff
  /\ jobs' = [jobs EXCEPT ![j].backoff = FALSE]
  /\ UNCHANGED <<target, selected, finished, clock, pruned, points, runnerVars, counters>>

-----------------------------------------------------------------------------
Step(r) ==
  \/ claim_next(r) \/ Begin(r) \/ Probe(r) \/ ReadHashes(r) \/ EmbedBatches(r)
  \/ ModelFails(r) \/ Upsert(r) \/ Progress(r) \/ succeed(r)
  \/ Fails(r) \/ fail_or_retry(r)

Next ==
  \/ \E s \in Snapshots : PruneSnapshot(s) \/ \E m \in Selections : ensure_embedding_job(s, m)
  \/ \E r \in Runners : Step(r) \/ Crash(r) \/ Restart(r)
  \/ \E j \in Jobs : LeaseExpires(j) \/ BackoffElapses(j)

Spec == Init /\ [][Next]_vars

-----------------------------------------------------------------------------
(* Properties.                                                             *)

Working(r) == pc[r] \in WorkPcs

\* A runner in the middle of process holds a running job under a live lease,
\* unless retention has removed the job.
HeldJobsRun ==
  \A r \in Runners : Working(r) /\ jobs[held[r]].status # "absent" =>
    jobs[held[r]].status = "running" /\ jobs[held[r]].lease = "live"

ExclusiveWork ==
  \A r, s \in Runners : Working(r) /\ Working(s) /\ held[r] = held[s] => r = s

\* What a runner has left to store, and what its model's collection holds, are
\* together every chunk of its snapshot.
StoreOf(r) ==
  /\ pc[r] \in {"probing", "hashing"} \union StorePcs => rank[r] \in 1 .. Len(Candidates(r))
  /\ pc[r] \in StorePcs =>
       \A c \in ChunksOf[Snapshot(r)] : c \in pending[r] \/ points[Model(r)][c] # None
  /\ pc[r] = "finishing" => pending[r] = {}

StoreProgress == \A r \in Runners : StoreOf(r)

\* The collection of the model that a succeeded job names holds every chunk of
\* its snapshot: no snapshot is split between two models.
EmbeddedIsStored ==
  \A j \in Jobs : jobs[j].status = "succeeded" =>
    /\ selected[j] # None
    /\ \A c \in ChunksOf[target[j].snapshot] : points[selected[j]][c] # None

\* The conjunction that is inductive when leases outlive the work they cover.
EInv == TypeOK /\ HeldJobsRun /\ ExclusiveWork /\ StoreProgress /\ EmbeddedIsStored

OwnerOf(j) == IF \E r \in Runners : Working(r) /\ held[r] = j
              THEN CHOOSE r \in Runners : Working(r) /\ held[r] = j
              ELSE None

Queue == INSTANCE JobQueue WITH Nobody <- None, Volatile <- Jobs, Reopenable <- {},
                                status <- [j \in Jobs |-> jobs[j].status],
                                owner  <- [j \in Jobs |-> OwnerOf(j)]

\* The stage implements the queue that the ingestion stage implements.
QueueSpec == Queue!Spec

-----------------------------------------------------------------------------
(* Repository chat (prepare_repository_chat).                              *)

Ready == {j \in Jobs : jobs[j].status = "succeeded" /\ selected[j] # None}

\* The job whose model and snapshot chat uses: the latest to have finished.
ChatJob(j) == j \in Ready /\ \A k \in Ready : finished[k] <= finished[j]

\* vector_store.search with the filter on snapshot_id, and no limit.
DenseSearch(j) == {c \in Chunks : points[selected[j]][c] = target[j].snapshot}

\* Dense retrieval can reach every chunk of the snapshot that chat answers from.
DenseComplete ==
  \A j \in Jobs : ChatJob(j) => ChunksOf[target[j].snapshot] \subseteq DenseSearch(j)
=============================================================================
