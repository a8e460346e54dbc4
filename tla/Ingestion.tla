------------------------------ MODULE Ingestion ------------------------------
(***************************************************************************)
(* The ingestion stage (services/ingestion.py): jobs queued by the API,    *)
(* runners that claim them under a lease, the snapshot of a commit that    *)
(* processing a job produces on disk and in the database, and retention.   *)
(* A runner's state changes once per database transaction, GitHub call or  *)
(* file-system step, so that the steps of several runners, of the chunking *)
(* stage and of the API interleave as they do in the program.              *)
(***************************************************************************)
EXTENDS JobTable, FiniteSets

CONSTANTS
  Runners,           \* processes that run an IngestionRunner
  Repos,             \* github repositories
  Commits,           \* commit SHAs that can be the head of a repository
  RepoOf,            \* RepoOf[c]: the repository of commit c
  Selections,        \* embedding_model_override values; Automatic is None
  Automatic,
  None,              \* NULL
  MaxAttempts,       \* ingestion_max_attempts
  Retention,         \* snapshot_retention_count
  LeaseOutlivesWork, \* TRUE: a lease never runs out under a live runner
  ChunkingRuns,      \* FALSE: the chunking stage is down, its jobs stay queued
  MaxJobs,           \* bound on the ingestion jobs of a behaviour
  MaxCrashes,        \* bound on process crashes
  MaxExpiries,       \* bound on lease expirations
  MaxOutages         \* bound on database errors inside _fail_or_retry

ASSUME CommitsAssumption    == RepoOf \in [Commits -> Repos]
ASSUME NoneAssumption       == None \notin Commits \union Runners
ASSUME SelectionsAssumption == Automatic \in Selections
ASSUME SettingsAssumption ==
  /\ MaxAttempts \in Nat \ {0} /\ Retention \in Nat \ {0}
  /\ LeaseOutlivesWork \in BOOLEAN /\ ChunkingRuns \in BOOLEAN
ASSUME BoundsAssumption ==
  /\ MaxJobs \in Nat /\ MaxCrashes \in Nat /\ MaxExpiries \in Nat /\ MaxOutages \in Nat

VARIABLES
  jobs,       \* the ingestion_jobs table, in order of created_at
  target,     \* target[j]: repository, selection and snapshot_id of job j
  created,    \* created[c]: created_at of the source_snapshots row of c; 0: no row
  clock,      \* source_snapshots rows inserted so far
  files,      \* files[c]: files of the snapshot of c on disk
  chunking,   \* chunking[c]: status of the chunking job of c's snapshot
  embedding,  \* embedding[c]: selection keys of the embedding jobs of c's snapshot
  pc,         \* pc[r]: where runner r is in _run and process
  held,       \* held[r]: the job r is processing
  sha,        \* sha[r]: commit_sha of that job
  seen,       \* seen[r]: what r read about an existing snapshot
  doomed,     \* doomed[r]: rows <<commit, created_at>> that r's retention selected
  unlinks,    \* unlinks[r]: files <<commit, part>> it has still to unlink
  crashes, expiries, outages

database   == <<jobs, target, created, clock, chunking, embedding>>
runnerVars == <<pc, held, sha, seen, doomed, unlinks>>
counters   == <<crashes, expiries, outages>>
vars == <<database, files, runnerVars, counters>>

Jobs  == 1 .. MaxJobs
Parts == {"archive", "manifest"}

\* process is running in the runner: the job is in its hands.  From "looking" to
\* "published" it knows the commit.
CommitPcs == {"looking", "reusing", "downloading", "publishing", "halfway", "published"}
WorkPcs == {"claimed", "resolving", "retrying", "failing"} \union CommitPcs
Pcs == WorkPcs \union {"idle", "pruning", "deleting", "stopped", "dead"}

Target == [repo: Repos \union {None}, selection: Selections,
           snapshot: Commits \union {None}]
Seen   == [created: Nat, chunking: Statuses]

TypeOK ==
  /\ jobs \in [Jobs -> JobRow]
  /\ target \in [Jobs -> Target]
  /\ created \in [Commits -> Nat]
  /\ clock \in Nat
  /\ files \in [Commits -> SUBSET Parts]
  /\ chunking \in [Commits -> Statuses]
  /\ embedding \in [Commits -> SUBSET Selections]
  /\ pc \in [Runners -> Pcs]
  /\ held \in [Runners -> Jobs \union {None}]
  /\ \A r \in Runners : pc[r] \in WorkPcs => held[r] \in Jobs
  /\ sha \in [Runners -> Commits \union {None}]
  /\ \A r \in Runners : pc[r] \in CommitPcs => sha[r] \in Commits
  /\ seen \in [Runners -> Seen]
  /\ doomed \in [Runners -> SUBSET (Commits \X Nat)]
  /\ unlinks \in [Runners -> SUBSET (Commits \X Parts)]
  /\ crashes \in Nat /\ expiries \in Nat /\ outages \in Nat

-----------------------------------------------------------------------------
Unseen == [created |-> 0, chunking |-> "absent"]

Init ==
  /\ jobs = [j \in Jobs |-> AbsentJob]
  /\ target = [j \in Jobs |-> [repo |-> None, selection |-> Automatic, snapshot |-> None]]
  /\ created = [c \in Commits |-> 0]
  /\ clock = 0
  /\ files = [c \in Commits |-> {}]
  /\ chunking = [c \in Commits |-> "absent"]
  /\ embedding = [c \in Commits |-> {}]
  /\ pc = [r \in Runners |-> "idle"]
  /\ held = [r \in Runners |-> None]
  /\ sha = [r \in Runners |-> None]
  /\ seen = [r \in Runners |-> Unseen]
  /\ doomed = [r \in Runners |-> {}]
  /\ unlinks = [r \in Runners |-> {}]
  /\ crashes = 0 /\ expiries = 0 /\ outages = 0

ActiveOf(p) == {j \in Jobs : Active(jobs[j]) /\ target[j].repo = p}

\* POST /repositories/{id}/ingestions.  An active job of the repository is
\* returned as it is; otherwise the partial unique index admits one insert.
enqueue_ingestion(p, m) ==
  /\ ActiveOf(p) = {}
  /\ \E j \in Jobs :
       /\ jobs[j].status = "absent"
       /\ \A k \in Jobs : k < j => jobs[k].status # "absent"
       /\ jobs' = [jobs EXCEPT ![j] = QueuedJob]
       /\ target' = [target EXCEPT ![j] = [repo |-> p, selection |-> m, snapshot |-> None]]
  /\ UNCHANGED <<created, clock, files, chunking, embedding, runnerVars, counters>>

-----------------------------------------------------------------------------
(* The runner: claim_next, then process up to its first await.             *)

claim_next(r) ==
  LET requeued == [j \in Jobs |-> RequeueExpired(jobs[j])]
      ready    == {j \in Jobs : Claimable(requeued[j])}
  IN /\ pc[r] = "idle"
     /\ \/ /\ ready = {}
           /\ requeued # jobs
           /\ jobs' = requeued
           /\ UNCHANGED <<pc, held>>
        \/ \E j \in ready :
             /\ \A k \in ready : j <= k
             /\ jobs' = [requeued EXCEPT ![j] = ClaimRow(requeued[j])]
             /\ pc' = [pc EXCEPT ![r] = "claimed"]
             /\ held' = [held EXCEPT ![r] = j]
     /\ UNCHANGED <<target, created, clock, files, chunking, embedding,
                    sha, seen, doomed, unlinks, counters>>

\* Back in _run: the locals of process are gone.
Release(r) ==
  /\ pc' = [pc EXCEPT ![r] = "idle"]
  /\ held' = [held EXCEPT ![r] = None]
  /\ sha' = [sha EXCEPT ![r] = None]
  /\ seen' = [seen EXCEPT ![r] = Unseen]

Begin(r) ==
  /\ pc[r] = "claimed"
  /\ IF jobs[held[r]].status = "running"
     THEN pc' = [pc EXCEPT ![r] = "resolving"] /\ UNCHANGED <<held, sha, seen>>
     ELSE Release(r)
  /\ UNCHANGED <<database, files, doomed, unlinks, counters>>

\* Token, repository and head SHA from GitHub, then _refresh_lease.  The head can
\* be any commit of the repository: pushes and force-pushes come at any time.
Resolve(r) ==
  /\ pc[r] = "resolving"
  /\ \E c \in Commits : /\ RepoOf[c] = target[held[r]].repo
                       /\ sha' = [sha EXCEPT ![r] = c]
  /\ jobs' = [jobs EXCEPT ![held[r]] = RenewLease(@)]
  /\ pc' = [pc EXCEPT ![r] = "looking"]
  /\ UNCHANGED <<target, created, clock, files, chunking, embedding,
                 held, seen, doomed, unlinks, counters>>

\* SELECT the snapshot of the commit and, when there is one, its chunking job.
Lookup(r) ==
  /\ pc[r] = "looking"
  /\ IF created[sha[r]] = 0
     THEN pc' = [pc EXCEPT ![r] = "downloading"] /\ UNCHANGED seen
     ELSE /\ pc' = [pc EXCEPT ![r] = "reusing"]
          /\ seen' = [seen EXCEPT ![r] =
                        [created |-> created[sha[r]], chunking |-> chunking[sha[r]]]]
  /\ UNCHANGED <<database, files, held, sha, doomed, unlinks, counters>>

succeed(j, c) ==
  /\ jobs' = [jobs EXCEPT ![j] = SucceedRow(@)]
  /\ target' = [target EXCEPT ![j].snapshot = c]

\* Mutant of ReuseSnapshot: the row that was read is taken to be still there.
ReuseUnchecked(r) ==
  LET c == sha[r] IN
  /\ pc[r] = "reusing"
  /\ embedding' = IF seen[r].chunking = "succeeded"
                  THEN [embedding EXCEPT ![c] = @ \union {target[held[r]].selection}]
                  ELSE embedding
  /\ succeed(held[r], c)
  /\ Release(r)
  /\ UNCHANGED <<created, clock, files, chunking, doomed, unlinks, counters>>

\* Commit of the existing-snapshot branch.  The foreign key rejects it when the
\* row that was read is gone.
ReuseSnapshot(r) ==
  LET c == sha[r] IN
  /\ pc[r] = "reusing"
  /\ IF created[c] = seen[r].created
     THEN /\ chunking' = IF seen[r].chunking \in {"absent", "failed"}
                         THEN [chunking EXCEPT ![c] = "queued"] ELSE chunking
          /\ embedding' = IF seen[r].chunking = "succeeded"
                          THEN [embedding EXCEPT ![c] = @ \union {target[held[r]].selection}]
                          ELSE embedding
          /\ succeed(held[r], c)
          /\ Release(r)
     ELSE /\ pc' = [pc EXCEPT ![r] = "retrying"]
          /\ UNCHANGED <<jobs, target, chunking, embedding, held, sha, seen>>
  /\ UNCHANGED <<created, clock, files, doomed, unlinks, counters>>

Download(r) ==
  /\ pc[r] = "downloading"
  /\ jobs' = [jobs EXCEPT ![held[r]] = RenewLease(@)]
  /\ pc' = [pc EXCEPT ![r] = "publishing"]
  /\ UNCHANGED <<target, created, clock, files, chunking, embedding,
                 held, sha, seen, doomed, unlinks, counters>>

\* validate_and_publish: two os.replace calls, the archive first.
PublishFile(r) ==
  /\ \/ pc[r] = "publishing" /\ files' = [files EXCEPT ![sha[r]] = @ \union {"archive"}]
                             /\ pc' = [pc EXCEPT ![r] = "halfway"]
     \/ pc[r] = "halfway"    /\ files' = [files EXCEPT ![sha[r]] = @ \union {"manifest"}]
                             /\ pc' = [pc EXCEPT ![r] = "published"]
  /\ UNCHANGED <<database, held, sha, seen, doomed, unlinks, counters>>

\* One transaction: the snapshot row, its chunking job, the job's success.  The
\* unique key on (repository_id, commit_sha) rejects a second row.
RecordSnapshot(r) ==
  LET c == sha[r] IN
  /\ pc[r] = "published"
  /\ IF created[c] = 0
     THEN /\ clock' = clock + 1
          /\ created' = [created EXCEPT ![c] = clock + 1]
          /\ chunking' = [chunking EXCEPT ![c] = "queued"]
          /\ succeed(held[r], c)
          /\ pc' = [pc EXCEPT ![r] = "pruning"]
     ELSE /\ pc' = [pc EXCEPT ![r] = "retrying"]
          /\ UNCHANGED <<clock, created, chunking, jobs, target>>
  /\ UNCHANGED <<files, embedding, held, sha, seen, doomed, unlinks, counters>>

-----------------------------------------------------------------------------
(* Retention, after the job has succeeded.                                 *)

Rows(p) == {c \in Commits : created[c] > 0 /\ RepoOf[c] = p}
Newer(c) == {d \in Rows(RepoOf[c]) : created[d] > created[c]}

\* Mutant of Outdated: an offset that is one too small.
OutdatedEarly(p) == {c \in Rows(p) : Cardinality(Newer(c)) >= Retention - 1}

\* The rows after the first Retention ones in descending order of created_at.
Outdated(p) == {c \in Rows(p) : Cardinality(Newer(c)) >= Retention}

SelectOld(r) ==
  LET old == Outdated(target[held[r]].repo) IN
  /\ pc[r] = "pruning"
  /\ doomed' = [doomed EXCEPT ![r] = {<<c, created[c]>> : c \in old}]
  /\ unlinks' = [unlinks EXCEPT ![r] = old \X Parts]
  /\ pc' = [pc EXCEPT ![r] = "deleting"]
  /\ UNCHANGED <<database, files, held, sha, seen, counters>>

\* snapshot_store.delete: the archive of a snapshot, then its manifest, each
\* with missing_ok.
DeleteFile(r) ==
  /\ pc[r] = "deleting"
  /\ \E c \in Commits, part \in Parts :
       /\ <<c, part>> \in unlinks[r]
       /\ part = "manifest" => <<c, "archive">> \notin unlinks[r]
       /\ files' = [files EXCEPT ![c] = @ \ {part}]
       /\ unlinks' = [unlinks EXCEPT ![r] = @ \ {<<c, part>>}]
  /\ UNCHANGED <<database, pc, held, sha, seen, doomed, counters>>

\* All the rows in one commit, once their files are gone.  Chunking and
\* embedding jobs go with them, snapshot_id of ingestion jobs becomes NULL.
DeleteRows(r) ==
  LET gone == {c \in Commits : created[c] > 0 /\ <<c, created[c]>> \in doomed[r]} IN
  /\ pc[r] = "deleting"
  /\ unlinks[r] = {}
  /\ created' = [c \in Commits |-> IF c \in gone THEN 0 ELSE created[c]]
  /\ chunking' = [c \in Commits |-> IF c \in gone THEN "absent" ELSE chunking[c]]
  /\ embedding' = [c \in Commits |-> IF c \in gone THEN {} ELSE embedding[c]]
  /\ target' = [j \in Jobs |-> IF target[j].snapshot \in gone
                               THEN [target[j] EXCEPT !.snapshot = None] ELSE target[j]]
  /\ doomed' = [doomed EXCEPT ![r] = {}]
  /\ Release(r)
  /\ UNCHANGED <<jobs, clock, files, unlinks, counters>>

\* An error of retention is logged, and the session is closed without a commit.
RetentionFails(r) ==
  /\ pc[r] \in {"pruning", "deleting"}
  /\ doomed' = [doomed EXCEPT ![r] = {}]
  /\ unlinks' = [unlinks EXCEPT ![r] = {}]
  /\ Release(r)
  /\ UNCHANGED <<database, files, counters>>

-----------------------------------------------------------------------------
(* Failures.                                                               *)

\* A SourceControlError, a SnapshotError or any other exception: process goes
\* to the except clause that calls _fail_or_retry with or without a retry.
Fails(r) ==
  /\ \/ /\ pc[r] \in {"claimed", "resolving", "looking", "reusing", "downloading",
                    "publishing", "published"}
        /\ pc' = [pc EXCEPT ![r] = "retrying"]
     \/ /\ pc[r] \in {"resolving", "downloading", "publishing", "halfway"}
        /\ pc' = [pc EXCEPT ![r] = "failing"]
  /\ UNCHANGED <<database, files, held, sha, seen, doomed, unlinks, counters>>

Dies(r) ==
  /\ pc' = [pc EXCEPT ![r] = "dead"]
  /\ held' = [held EXCEPT ![r] = None]
  /\ sha' = [sha EXCEPT ![r] = None]
  /\ seen' = [seen EXCEPT ![r] = Unseen]

\* Mutant of fail_or_retry: no unique index on the active job of a repository.
fail_or_retry_unindexed(r) ==
  /\ pc[r] \in {"retrying", "failing"}
  /\ jobs' = [jobs EXCEPT ![held[r]] = FailOrRetryRow(@, pc[r] = "retrying", MaxAttempts)]
  /\ Release(r)
  /\ UNCHANGED <<target, created, clock, files, chunking, embedding, doomed, unlinks,
                 counters>>

\* _fail_or_retry has no handler around it.  When the partial unique index
\* rejects a second active job of the repository, or the database fails, the
\* exception leaves process and ends the task of _run.
fail_or_retry(r) ==
  LET j    == held[r]
      row  == FailOrRetryRow(jobs[j], pc[r] = "retrying", MaxAttempts)
      twin == Active(row) /\ ActiveOf(target[j].repo) \ {j} # {}
  IN /\ pc[r] \in {"retrying", "failing"}
     /\ \/ /\ ~twin
           /\ jobs' = [jobs EXCEPT ![j] = row]
           /\ Release(r)
           /\ UNCHANGED outages
        \/ /\ twin
           /\ Dies(r)
           /\ UNCHANGED <<jobs, outages>>
        \/ /\ outages < MaxOutages
           /\ outages' = outages + 1
           /\ Dies(r)
           /\ UNCHANGED jobs
     /\ UNCHANGED <<target, created, clock, files, chunking, embedding, doomed,
                    unlinks, crashes, expiries>>

\* The process ends: killed at any point, or stopped when its runner is idle.
Crash(r) ==
  /\ pc[r] # "stopped"
  /\ crashes < MaxCrashes
  /\ crashes' = crashes + 1
  /\ pc' = [pc EXCEPT ![r] = "stopped"]
  /\ held' = [held EXCEPT ![r] = None]
  /\ sha' = [sha EXCEPT ![r] = None]
  /\ seen' = [seen EXCEPT ![r] = Unseen]
  /\ doomed' = [doomed EXCEPT ![r] = {}]
  /\ unlinks' = [unlinks EXCEPT ![r] = {}]
  /\ UNCHANGED <<database, files, expiries, outages>>

Restart(r) ==
  /\ pc[r] = "stopped"
  /\ pc' = [pc EXCEPT ![r] = "idle"]
  /\ UNCHANGED <<database, files, held, sha, seen, doomed, unlinks, counters>>

-----------------------------------------------------------------------------
(* The passage of time.                                                    *)

InWork(j) == \E r \in Runners : pc[r] \in WorkPcs /\ held[r] = j

LeaseExpires(j) ==
  /\ jobs[j].status = "running" /\ jobs[j].lease = "live"
  /\ LeaseOutlivesWork => ~InWork(j)
  /\ expiries < MaxExpiries
  /\ expiries' = expiries + 1
  /\ jobs' = [jobs EXCEPT ![j].lease = "expired"]
  /\ UNCHANGED <<target, created, clock, files, chunking, embedding,
                 runnerVars, crashes, outages>>

BackoffElapses(j) ==
  /\ jobs[j].status = "queued" /\ jobs[j].backoff
  /\ jobs' = [jobs EXCEPT ![j].backoff = FALSE]
  /\ UNCHANGED <<target, created, clock, files, chunking, embedding,
                 runnerVars, counters>>

-----------------------------------------------------------------------------
(* The chunking stage, as far as the ingestion stage depends on it.        *)

\* The selection of the latest ingestion job that has this snapshot, as a
\* singleton; the automatic selection when no job has it.
LatestSelection(c) ==
  LET owners == {j \in Jobs : target[j].snapshot = c} IN
  IF owners = {} THEN {Automatic}
  ELSE {target[j].selection : j \in {k \in owners : \A l \in owners : l <= k}}

\* A claim, and a failure: of the work, or of the garbage collection that
\* follows a publication.
ChunkingStep(c) ==
  /\ ChunkingRuns
  /\ \/ chunking[c] = "queued" /\ chunking' = [chunking EXCEPT ![c] = "running"]
     \/ /\ chunking[c] \in {"running", "succeeded"}
        /\ \E s \in {"queued", "failed"} : chunking' = [chunking EXCEPT ![c] = s]
  /\ UNCHANGED <<jobs, target, created, clock, files, embedding, runnerVars, counters>>

\* Mutant of ChunkingSucceeds: no embedding job for the latest ingestion.
ChunkingForgets(c) ==
  /\ ChunkingRuns
  /\ chunking[c] \in {"queued", "running", "failed"}
  /\ chunking' = [chunking EXCEPT ![c] = "succeeded"]
  /\ UNCHANGED <<jobs, target, created, clock, files, embedding, runnerVars, counters>>

\* _publish: success and the embedding job, in one transaction.  It does not
\* read the status: a runner that lost its lease can publish a requeued job.
ChunkingSucceeds(c) ==
  /\ ChunkingRuns
  /\ chunking[c] \in {"queued", "running", "failed"}
  /\ chunking' = [chunking EXCEPT ![c] = "succeeded"]
  /\ embedding' = [embedding EXCEPT ![c] = @ \union LatestSelection(c)]
  /\ UNCHANGED <<jobs, target, created, clock, files, runnerVars, counters>>

-----------------------------------------------------------------------------
Step(r) ==
  \/ claim_next(r) \/ Begin(r) \/ Resolve(r) \/ Lookup(r) \/ ReuseSnapshot(r)
  \/ Download(r) \/ PublishFile(r) \/ RecordSnapshot(r)
  \/ SelectOld(r) \/ DeleteFile(r) \/ DeleteRows(r)
  \/ RetentionFails(r) \/ Fails(r) \/ fail_or_retry(r)

Next ==
  \/ \E p \in Repos, m \in Selections : enqueue_ingestion(p, m)
  \/ \E r \in Runners : Step(r) \/ Crash(r) \/ Restart(r)
  \/ \E j \in Jobs : LeaseExpires(j) \/ BackoffElapses(j)
  \/ \E c \in Commits : ChunkingStep(c) \/ ChunkingSucceeds(c)

Spec == Init /\ [][Next]_vars

\* A live runner keeps taking steps, a stopped process is restarted, and time
\* passes.  Nothing is assumed of GitHub, of users or of the chunking stage.
Fairness ==
  /\ \A r \in Runners : WF_vars(Step(r)) /\ WF_vars(Restart(r))
  /\ \A j \in Jobs : WF_vars(LeaseExpires(j)) /\ WF_vars(BackoffElapses(j))

FairSpec == Spec /\ Fairness

-----------------------------------------------------------------------------
(* Properties.                                                             *)

Working(r) == pc[r] \in WorkPcs

\* A runner in the middle of process holds a running job under a live lease.
HeldJobsRun ==
  \A r \in Runners : Working(r) =>
    jobs[held[r]].status = "running" /\ jobs[held[r]].lease = "live"

\* No two runners process one job at the same time.
ExclusiveWork ==
  \A r, s \in Runners : Working(r) /\ Working(s) /\ held[r] = held[s] => r = s

\* A repository has at most one queued or running job, whatever zombies write.
OneActivePerRepository ==
  \A j, k \in Jobs :
    Active(jobs[j]) /\ Active(jobs[k]) /\ target[j].repo = target[k].repo => j = k

\* While the database answers, no exception escapes process, so _run goes on.
RunnersSurvive == outages = 0 => \A r \in Runners : pc[r] # "dead"

\* A snapshot is recorded with its chunking job, and a snapshot that retention
\* has removed leaves neither a chunking nor an embedding job.
StagesFollowSnapshot ==
  \A c \in Commits : /\ created[c] > 0 <=> chunking[c] # "absent"
                     /\ embedding[c] # {} => created[c] > 0

\* Work that chunking has finished is handed to the embedding stage.
ChunkedIsEmbedded == \A c \in Commits : chunking[c] = "succeeded" => embedding[c] # {}

\* Only an expired lease lets a job be attempted more than MaxAttempts times.
AttemptsBounded == \A j \in Jobs : jobs[j].attempts <= MaxAttempts + expiries

\* The conjunction that is inductive when leases outlive the work they cover.
IInv == /\ TypeOK /\ HeldJobsRun /\ ExclusiveWork
        /\ OneActivePerRepository /\ RunnersSurvive

\* A succeeded job is never run, retried or failed afterwards.
SucceededIsFinal ==
  [][\A j \in Jobs : jobs[j].status = "succeeded" => jobs'[j].status = "succeeded"]_vars

Intact(p) == {c \in Rows(p) : files[c] = Parts}

\* "The latest two successful snapshots are retained": no step takes a complete
\* snapshot away unless Retention complete ones remain.
RetentionKeeps ==
  [][\A p \in Repos : Intact(p) \subseteq Intact(p)'
                     \/ Cardinality(Intact(p)') >= Retention]_vars

\* Every accepted request is carried to an end.
JobsFinish == \A j \in Jobs : jobs[j].status = "queued" ~> Finished(jobs[j])

\* A job that ends by reusing or storing a snapshot leaves its files on disk.
SuccessHasFiles ==
  [][\A j \in Jobs : jobs[j].status # "succeeded" /\ jobs'[j].status = "succeeded"
                     => files'[target'[j].snapshot] = Parts]_vars

\* "The API exposes processed/total chunk progress through the parent ingestion
\* status": once its snapshot is chunked, an ingestion that succeeded has an
\* embedding job of its selection to report on.
SelectionIsEmbedded ==
  \A j \in Jobs : LET c == target[j].snapshot IN
    jobs[j].status = "succeeded" /\ c # None =>
      (chunking[c] = "succeeded" => target[j].selection \in embedding[c])

\* The queue that the stage implements: a job is owned by the runner that is in
\* the middle of processing it.
OwnerOf(j) == IF \E r \in Runners : Working(r) /\ held[r] = j
              THEN CHOOSE r \in Runners : Working(r) /\ held[r] = j
              ELSE None

Queue == INSTANCE JobQueue WITH Nobody <- None, Volatile <- {}, Reopenable <- {},
                                status <- [j \in Jobs |-> jobs[j].status],
                                owner  <- [j \in Jobs |-> OwnerOf(j)]

QueueSpec == Queue!Spec
=============================================================================
