------------------------------ MODULE Chunking ------------------------------
(***************************************************************************)
(* The chunking stage (services/chunking.py): one job per snapshot, the    *)
(* runners that claim them, the chunked files that snapshots of a          *)
(* repository share, the transaction that publishes a snapshot's chunks,   *)
(* and the garbage collection of chunked files no snapshot lists.  A       *)
(* runner's state changes once per transaction; the worker process is seen *)
(* through what it answers for each file.                                  *)
(***************************************************************************)
EXTENDS JobTable, FiniteSets

CONSTANTS
  Runners,           \* processes that run a ChunkingRunner
  MaxSnapshots,      \* bound on the snapshots that ingestion records
  Files,             \* paths with a content: what an artifact is looked up by
  Manifest,          \* Manifest[s]: the files of snapshot s
  ByName,            \* files that skip_reason skips
  Answers,           \* Answers[f]: what the worker may answer for file f
  None,              \* NULL
  MaxAttempts,       \* chunking_max_attempts
  LeaseOutlivesWork, \* TRUE: a lease never runs out under a live runner
  MaxRows,           \* bound on the rows ever inserted for a file
  MaxReingests,      \* bound on the failed jobs that ingestion queues again
  MaxPruned,         \* bound on the snapshots that retention removes
  MaxCrashes,        \* bound on process crashes
  MaxExpiries        \* bound on lease expirations

Snapshots == 1 .. MaxSnapshots

\* Events of the worker: "omitted" when the request ends without one; "failed"
\* also stands for a success without chunks, which is published as a failure.
Events == {"omitted", "succeeded", "skipped", "failed"}

ASSUME ManifestAssumption == /\ Manifest \in [Snapshots -> SUBSET Files]
                             /\ Answers \in [Files -> SUBSET Events]
ASSUME NobodyAssumption   == None \notin Snapshots \union Runners
ASSUME SettingsAssumption == MaxAttempts \in Nat \ {0} /\ LeaseOutlivesWork \in BOOLEAN
ASSUME BoundsAssumption ==
  /\ MaxSnapshots \in Nat /\ MaxRows \in Nat /\ MaxReingests \in Nat
  /\ MaxPruned \in Nat /\ MaxCrashes \in Nat /\ MaxExpiries \in Nat

VARIABLES
  jobs,      \* jobs[s]: the chunking_jobs row of snapshot s
  made,      \* made[f]: chunked_files rows ever inserted for f; the id of the last
  stored,    \* files whose last row is still there
  member,    \* member[s][f]: status of the snapshot_chunk_files row of s and f
  embedding, \* snapshots with an embedding job
  pruned,    \* snapshots that retention has removed
  pc,        \* pc[r]: where runner r is in _run and process
  held,      \* held[r]: the snapshot whose job r is processing
  reusable,  \* reusable[r][f]: id of the row r found for f; 0: none
  events,    \* events[r][f]: the worker's event for f
  orphans,   \* orphans[r]: rows <<file, id>> that r's garbage collection selected
  reingests, crashes, expiries

database   == <<jobs, made, stored, member, embedding, pruned>>
runnerVars == <<pc, held, reusable, events, orphans>>
counters   == <<reingests, crashes, expiries>>
vars == <<database, runnerVars, counters>>

\* Until _publish commits, and after it, each with the except clauses.
BeforePcs  == {"claimed", "finding", "chunking", "publishing", "retrying", "failing"}
AfterPcs   == {"selecting", "deleting", "undoing"}
WorkPcs    == BeforePcs \union AfterPcs
Pcs        == WorkPcs \union {"idle", "stopped"}
FileStates == {"absent", "succeeded", "skipped", "failed"}

TypeOK ==
  /\ jobs \in [Snapshots -> JobRow]
  /\ made \in [Files -> Nat]
  /\ stored \in SUBSET Files
  /\ member \in [Snapshots -> [Files -> FileStates]]
  /\ embedding \in SUBSET Snapshots
  /\ pruned \in SUBSET Snapshots
  /\ pc \in [Runners -> Pcs]
  /\ held \in [Runners -> Snapshots \union {None}]
  /\ \A r \in Runners : pc[r] \in WorkPcs => held[r] \in Snapshots
  /\ reusable \in [Runners -> [Files -> Nat]]
  /\ events \in [Runners -> [Files -> Events]]
  /\ orphans \in [Runners -> SUBSET (Files \X Nat)]
  /\ reingests \in Nat /\ crashes \in Nat /\ expiries \in Nat

NoRows    == [f \in Files |-> 0]
NoEvents  == [f \in Files |-> "omitted"]
NoMembers == [f \in Files |-> "absent"]

Init ==
  /\ jobs = [s \in Snapshots |-> AbsentJob]
  /\ made = NoRows
  /\ stored = {}
  /\ member = [s \in Snapshots |-> NoMembers]
  /\ embedding = {}
  /\ pruned = {}
  /\ pc = [r \in Runners |-> "idle"]
  /\ held = [r \in Runners |-> None]
  /\ reusable = [r \in Runners |-> NoRows]
  /\ events = [r \in Runners |-> NoEvents]
  /\ orphans = [r \in Runners |-> {}]
  /\ reingests = 0 /\ crashes = 0 /\ expiries = 0

-----------------------------------------------------------------------------
(* The ingestion stage: new snapshots, retries of failed jobs, retention.  *)

Recorded(s) == jobs[s].status # "absent" \/ s \in pruned

\* A snapshot is recorded together with its chunking job.
ensure_chunking_job(s) ==
  /\ ~Recorded(s)
  /\ \A t \in Snapshots : t < s => Recorded(t)
  /\ jobs' = [jobs EXCEPT ![s] = QueuedJob]
  /\ UNCHANGED <<made, stored, member, embedding, pruned, runnerVars, counters>>

\* A later ingestion of the same commit.
requeue_failed_chunking_job(s) ==
  /\ jobs[s].status = "failed"
  /\ reingests < MaxReingests
  /\ reingests' = reingests + 1
  /\ jobs' = [jobs EXCEPT ![s] = QueuedJob]
  /\ UNCHANGED <<made, stored, member, embedding, pruned, runnerVars, crashes, expiries>>

\* The rows of the job, of the membership and of the embedding job go with the
\* snapshot; chunked files stay.
PruneSnapshot(s) ==
  /\ Recorded(s) /\ s \notin pruned
  /\ Cardinality(pruned) < MaxPruned
  /\ pruned' = pruned \union {s}
  /\ jobs' = [jobs EXCEPT ![s] = AbsentJob]
  /\ member' = [member EXCEPT ![s] = NoMembers]
  /\ embedding' = embedding \ {s}
  /\ UNCHANGED <<made, stored, runnerVars, counters>>

-----------------------------------------------------------------------------
(* The runner.                                                             *)

claim_next(r) ==
  LET requeued == [s \in Snapshots |-> RequeueExpired(jobs[s])]
      ready    == {s \in Snapshots : Claimable(requeued[s])}
  IN /\ pc[r] = "idle"
     /\ \/ /\ ready = {}
           /\ requeued # jobs
           /\ jobs' = requeued
           /\ UNCHANGED <<pc, held>>
        \/ \E s \in ready :
             /\ \A t \in ready : s <= t
             /\ jobs' = [requeued EXCEPT ![s] = ClaimRow(requeued[s])]
             /\ pc' = [pc EXCEPT ![r] = "claimed"]
             /\ held' = [held EXCEPT ![r] = s]
     /\ UNCHANGED <<made, stored, member, embedding, pruned, reusable, events, orphans, counters>>

\* The locals of process are gone.
Leave(r, where) ==
  /\ pc' = [pc EXCEPT ![r] = where]
  /\ held' = [held EXCEPT ![r] = None]
  /\ reusable' = [reusable EXCEPT ![r] = NoRows]
  /\ events' = [events EXCEPT ![r] = NoEvents]
  /\ orphans' = [orphans EXCEPT ![r] = {}]

\* The job is read, and the snapshot materialized.
Begin(r) ==
  /\ pc[r] = "claimed"
  /\ IF jobs[held[r]].status = "running"
     THEN /\ pc' = [pc EXCEPT ![r] = "finding"]
          /\ UNCHANGED <<held, reusable, events, orphans>>
     ELSE Leave(r, "idle")
  /\ UNCHANGED <<database, counters>>

Selected(s) == Manifest[s] \ ByName

\* Mutant of FindReusable: only files the snapshot does not list yet.
FindUnlisted(s) ==
  [f \in Files |-> IF f \in Selected(s) \intersect stored /\ member[s][f] = "absent"
                   THEN made[f] ELSE 0]

\* _find_reusable: the row of the same path and content, whoever made it.
FindReusable(s) ==
  [f \in Files |-> IF f \in Selected(s) \intersect stored THEN made[f] ELSE 0]

\* The lookup, and the lease with it; renewing the lease of a job that has been
\* deleted is an error.
Find(r) ==
  /\ pc[r] = "finding"
  /\ IF jobs[held[r]].status = "absent"
     THEN /\ pc' = [pc EXCEPT ![r] = "retrying"]
          /\ UNCHANGED <<jobs, reusable>>
     ELSE /\ jobs' = [jobs EXCEPT ![held[r]] = RenewLease(@)]
          /\ reusable' = [reusable EXCEPT ![r] = FindReusable(held[r])]
          /\ pc' = [pc EXCEPT ![r] = "chunking"]
  /\ UNCHANGED <<made, stored, member, embedding, pruned, held, events, orphans, counters>>

\* The worker has answered for the files that have no artifact yet.
WorkerAnswers(r) ==
  LET asked == {f \in Selected(held[r]) : reusable[r][f] = 0} IN
  /\ pc[r] = "chunking"
  /\ \E answer \in [Files -> Events] :
       /\ \A f \in Files : IF f \in asked THEN answer[f] \in Answers[f]
                                          ELSE answer[f] = "omitted"
       /\ events' = [events EXCEPT ![r] = answer]
  /\ pc' = [pc EXCEPT ![r] = "publishing"]
  /\ UNCHANGED <<database, held, reusable, orphans, counters>>

\* Beside the worker's answer; it renews the lease of whoever runs the job.
heartbeat(r) ==
  LET s == held[r] IN
  /\ pc[r] = "chunking"
  /\ jobs[s].status = "running"
  /\ jobs' = [jobs EXCEPT ![s] = RenewLease(@)]
  /\ UNCHANGED <<made, stored, member, embedding, pruned, runnerVars, counters>>

-----------------------------------------------------------------------------
(* Publication: one transaction, whatever the job's status is by now.      *)

Reused(r)  == {f \in Selected(held[r]) : reusable[r][f] > 0}
Fresh(r)   == Selected(held[r]) \ Reused(r)
Created(r) == {f \in Fresh(r) : events[r][f] = "succeeded"}

\* Mutant of Omitted: a file without an event is not noticed.
OmittedIgnored(r) == {f \in Fresh(r) : FALSE}

Omitted(r) == {f \in Fresh(r) : events[r][f] = "omitted"}

\* Mutant of Conflicting: no foreign key on the chunked file to reuse.
ConflictingOnInsert(r) == Created(r) \intersect stored # {}

\* The chunked file to reuse has been deleted: the foreign key; or the one to
\* insert is there: the unique fingerprint.
Conflicting(r) ==
  \/ \E f \in Reused(r) : f \notin stored \/ reusable[r][f] # made[f]
  \/ Created(r) \intersect stored # {}

\* The rows of snapshot_chunk_files that replace those of the snapshot.
Membership(r) ==
  [f \in Files |->
     IF f \notin Manifest[held[r]] THEN "absent"
     ELSE IF f \in ByName THEN "skipped"
     ELSE IF f \in Reused(r) THEN "succeeded" ELSE events[r][f]]

\* Retention has removed the job.
PublishNothing(r) ==
  /\ pc[r] = "publishing"
  /\ jobs[held[r]].status = "absent"
  /\ Leave(r, "idle")
  /\ UNCHANGED <<database, counters>>

Publish(r) ==
  LET s == held[r] IN
  /\ pc[r] = "publishing"
  /\ jobs[s].status # "absent"
  /\ Omitted(r) = {} /\ ~Conflicting(r)
  /\ Reused(r) \union Created(r) # {}
  /\ \A f \in Created(r) : made[f] < MaxRows
  /\ made' = [f \in Files |-> IF f \in Created(r) THEN made[f] + 1 ELSE made[f]]
  /\ stored' = stored \union Created(r)
  /\ member' = [member EXCEPT ![s] = Membership(r)]
  /\ jobs' = [jobs EXCEPT ![s] = SucceedRow(@)]
  /\ embedding' = embedding \union {s}
  /\ pc' = [pc EXCEPT ![r] = "selecting"]
  /\ UNCHANGED <<pruned, held, reusable, events, orphans, counters>>

\* The transaction is rolled back; without a single chunked file, for good.
PublishFails(r) ==
  /\ pc[r] = "publishing"
  /\ jobs[held[r]].status # "absent"
  /\ \/ /\ Omitted(r) # {} \/ Conflicting(r)
        /\ pc' = [pc EXCEPT ![r] = "retrying"]
     \/ /\ Omitted(r) = {} /\ Reused(r) \union Created(r) = {}
        /\ pc' = [pc EXCEPT ![r] = "failing"]
  /\ UNCHANGED <<database, held, reusable, events, orphans, counters>>

-----------------------------------------------------------------------------
(* Garbage collection, in a transaction of its own after the publication.  *)

Listed(f) == \E s \in Snapshots : member[s][f] = "succeeded"

SelectOrphans(r) ==
  LET unlisted == {f \in stored : ~Listed(f)} IN
  /\ pc[r] = "selecting"
  /\ IF unlisted = {}
     THEN Leave(r, "idle")
     ELSE /\ orphans' = [orphans EXCEPT ![r] = {<<f, made[f]>> : f \in unlisted}]
          /\ pc' = [pc EXCEPT ![r] = "deleting"]
          /\ UNCHANGED <<held, reusable, events>>
  /\ UNCHANGED <<database, counters>>

\* What r selected and is still there.
Doomed(r) == {f \in stored : <<f, made[f]>> \in orphans[r]}

\* Refused as a whole when a snapshot has come to list one of the rows.
DeleteOrphans(r) ==
  /\ pc[r] = "deleting"
  /\ IF \E f \in Doomed(r) : Listed(f)
     THEN /\ pc' = [pc EXCEPT ![r] = "undoing"]
          /\ UNCHANGED <<stored, held, reusable, events, orphans>>
     ELSE /\ stored' = stored \ Doomed(r)
          /\ Leave(r, "idle")
  /\ UNCHANGED <<jobs, made, member, embedding, pruned, counters>>

-----------------------------------------------------------------------------
(* Failures and time.                                                      *)

\* Any error: the archive, the worker process, the database.
Fails(r) ==
  /\ pc[r] \in WorkPcs \ {"retrying", "failing", "undoing"}
  /\ pc' = [pc EXCEPT ![r] = IF pc[r] \in AfterPcs THEN "undoing" ELSE "retrying"]
  /\ UNCHANGED <<database, held, reusable, events, orphans, counters>>

\* One _fail_or_retry for both: an error of the garbage collection takes the
\* success back.
fail_or_retry(r) ==
  LET s == held[r] IN
  /\ pc[r] \in {"retrying", "failing", "undoing"}
  /\ jobs' = IF jobs[s].status = "absent" THEN jobs
             ELSE [jobs EXCEPT ![s] = FailOrRetryRow(@, pc[r] # "failing", MaxAttempts)]
  /\ Leave(r, "idle")
  /\ UNCHANGED <<made, stored, member, embedding, pruned, counters>>

\* The process is killed, or an error in the except clause itself ends _run.
Crash(r) ==
  /\ pc[r] # "stopped"
  /\ crashes < MaxCrashes
  /\ crashes' = crashes + 1
  /\ Leave(r, "stopped")
  /\ UNCHANGED <<database, reingests, expiries>>

Restart(r) ==
  /\ pc[r] = "stopped"
  /\ pc' = [pc EXCEPT ![r] = "idle"]
  /\ UNCHANGED <<database, held, reusable, events, orphans, counters>>

InWork(s) == \E r \in Runners : pc[r] \in WorkPcs /\ held[r] = s

LeaseExpires(s) ==
  /\ jobs[s].status = "running" /\ jobs[s].lease = "live"
  /\ LeaseOutlivesWork => ~InWork(s)
  /\ expiries < MaxExpiries
  /\ expiries' = expiries + 1
  /\ jobs' = [jobs EXCEPT ![s].lease = "expired"]
  /\ UNCHANGED <<made, stored, member, embedding, pruned, runnerVars, reingests, crashes>>

BackoffElapses(s) ==
  /\ jobs[s].status = "queued" /\ jobs[s].backoff
  /\ jobs' = [jobs EXCEPT ![s].backoff = FALSE]
  /\ UNCHANGED <<made, stored, member, embedding, pruned, runnerVars, counters>>

-----------------------------------------------------------------------------
Step(r) ==
  \/ claim_next(r) \/ Begin(r) \/ Find(r) \/ WorkerAnswers(r)
  \/ PublishNothing(r) \/ Publish(r) \/ PublishFails(r)
  \/ SelectOrphans(r) \/ DeleteOrphans(r)
  \/ Fails(r) \/ fail_or_retry(r)

Next ==
  \/ \E s \in Snapshots : \/ ensure_chunking_job(s) \/ requeue_failed_chunking_job(s)
                          \/ PruneSnapshot(s) \/ LeaseExpires(s) \/ BackoffElapses(s)
  \/ \E r \in Runners : Step(r) \/ heartbeat(r) \/ Crash(r) \/ Restart(r)

Spec == Init /\ [][Next]_vars

-----------------------------------------------------------------------------
(* Properties.                                                             *)

Working(r) == pc[r] \in WorkPcs

\* A runner in process whose snapshot is still there holds a running job under
\* a live lease until it has published, and a succeeded one afterwards.
HeldJobs ==
  \A r \in Runners : Working(r) /\ held[r] \notin pruned =>
    IF pc[r] \in BeforePcs
    THEN jobs[held[r]].status = "running" /\ jobs[held[r]].lease = "live"
    ELSE jobs[held[r]].status = "succeeded"

ExclusiveWork ==
  \A r, t \in Runners : Working(r) /\ Working(t) /\ held[r] = held[t] => r = t

\* Whatever interleaves with the garbage collection of another runner, a file
\* that a snapshot lists as chunked has its chunked file.
ListedIsStored ==
  \A s \in Snapshots, f \in Files : member[s][f] = "succeeded" =>
    f \in Selected(s) \intersect stored /\ made[f] > 0

\* What a runner is about to publish keeps the rows its snapshot lists already.
ReusesListed ==
  \A r \in Runners, f \in Files :
    pc[r] \in {"chunking", "publishing"} /\ member[held[r]][f] = "succeeded" =>
      reusable[r][f] = made[f]

\* A snapshot handed to the embedding stage, and one whose job has succeeded,
\* accounts for every file of its manifest and has chunks of at least one.
PublishedComplete ==
  \A s \in Snapshots : s \in embedding \/ jobs[s].status = "succeeded" =>
    /\ s \in embedding
    /\ \A f \in Manifest[s] : member[s][f] \in {"succeeded", "skipped", "failed"}
    /\ \E f \in Manifest[s] : member[s][f] = "succeeded"

\* A runner that comes late to a removed snapshot brings none of its rows back.
PrunedIsGone ==
  \A s \in pruned : /\ jobs[s].status = "absent" /\ s \notin embedding
                    /\ \A f \in Files : member[s][f] = "absent"

\* Inductive whatever the leases do, and when they outlive the work they cover.
RowsInv == TypeOK /\ ListedIsStored /\ PublishedComplete /\ PrunedIsGone
CInv    == RowsInv /\ HeldJobs /\ ExclusiveWork /\ ReusesListed

\* Published chunks are never taken away: a second publication of a snapshot,
\* after a failed garbage collection or a retry, lists every file the first one
\* listed, so what the embedding stage read of it stays true.
PublishedGrows ==
  [][\A s \in Snapshots, f \in Files :
       member[s][f] = "succeeded" /\ s \notin pruned' => member'[s][f] = "succeeded"]_vars

OwnerOf(s) == IF \E r \in Runners : pc[r] \in BeforePcs /\ held[r] = s
              THEN CHOOSE r \in Runners : pc[r] \in BeforePcs /\ held[r] = s
              ELSE None

Queue == INSTANCE JobQueue WITH Jobs <- Snapshots, Nobody <- None,
                                Volatile <- Snapshots, Reopenable <- Snapshots,
                                status <- [s \in Snapshots |-> jobs[s].status],
                                owner  <- [s \in Snapshots |-> OwnerOf(s)]

\* The stage implements the queue, with jobs that can be taken up again: after
\* a failed garbage collection, or by a later ingestion.
QueueSpec == Queue!Spec
=============================================================================
