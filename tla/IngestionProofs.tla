--------------------------- MODULE IngestionProofs ---------------------------
(***************************************************************************)
(* Theorems about the ingestion stage for every number of runners,         *)
(* repositories, commits and jobs, proved with TLAPS.                      *)
(***************************************************************************)
EXTENDS Ingestion, JobTableProofs, FiniteSetTheorems, WellFoundedInduction, TLAPS

-----------------------------------------------------------------------------
(* Type correctness.                                                       *)

\* Changing the snapshot of a job's request leaves a request.
LEMMA TargetSnapshot ==
  ASSUME NEW t \in Target, NEW c \in Commits \union {None}
  PROVE  [t EXCEPT !.snapshot = c] \in Target
  BY DEF Target

\* _succeed writes well-typed rows.
LEMMA SucceedTypes ==
  ASSUME jobs \in [Jobs -> JobRow], target \in [Jobs -> Target],
         NEW j \in Jobs, NEW c \in Commits, succeed(j, c)
  PROVE  jobs' \in [Jobs -> JobRow] /\ target' \in [Jobs -> Target]
  <1>1. jobs' \in [Jobs -> JobRow]
    BY RowTypes DEF succeed
  <1>2. target' = [target EXCEPT ![j] = [target[j] EXCEPT !.snapshot = c]]
    BY DEF succeed
  <1>3. [target[j] EXCEPT !.snapshot = c] \in Target
    BY TargetSnapshot
  <1>4. QED
    BY <1>1, <1>2, <1>3

\* The initial state is well typed.
LEMMA TypeInit == Init => TypeOK
  <1> SUFFICES ASSUME Init PROVE TypeOK
    OBVIOUS
  <1>1. jobs \in [Jobs -> JobRow]
    BY ConstantRows DEF Init
  <1>2. target \in [Jobs -> Target]
    BY SelectionsAssumption DEF Init, Target
  <1>3. QED
    BY <1>1, <1>2 DEF Init, TypeOK, Pcs, WorkPcs, CommitPcs, Seen, Unseen, Statuses

\* Every step keeps the types.
LEMMA TypeNext == TypeOK /\ [Next]_vars => TypeOK'
  <1> SUFFICES ASSUME TypeOK, [Next]_vars PROVE TypeOK'
    OBVIOUS
  <1> USE DEF TypeOK, Pcs, WorkPcs, CommitPcs
  <1>0. Unseen \in Seen
    BY DEF Unseen, Seen, Statuses
  <1>1. ASSUME NEW p \in Repos, NEW m \in Selections, enqueue_ingestion(p, m) PROVE TypeOK'
    BY <1>1, ConstantRows DEF enqueue_ingestion, runnerVars, counters, Target
  <1>2. ASSUME NEW r \in Runners, claim_next(r) PROVE TypeOK'
    <2> DEFINE requeued == [j \in Jobs |-> RequeueExpired(jobs[j])]
    <2>1. requeued \in [Jobs -> JobRow]
      BY RowTypes
    <2>2. CASE jobs' = requeued /\ UNCHANGED <<pc, held>>
      BY <1>2, <2>1, <2>2 DEF claim_next, counters
    <2>3. ASSUME NEW j \in Jobs,
                 jobs' = [requeued EXCEPT ![j] = ClaimRow(requeued[j])],
                 pc' = [pc EXCEPT ![r] = "claimed"], held' = [held EXCEPT ![r] = j]
          PROVE  TypeOK'
      <3>1. ClaimRow(requeued[j]) \in JobRow
        BY <2>1, RowTypes
      <3>2. jobs' \in [Jobs -> JobRow]
        BY <2>1, <2>3, <3>1
      <3> HIDE DEF requeued
      <3>3. QED
        BY <1>2, <2>3, <3>2 DEF claim_next, counters
    <2>4. QED
      BY <1>2, <2>2, <2>3 DEF claim_next
  <1>3. ASSUME NEW r \in Runners, Begin(r) PROVE TypeOK'
    BY <1>0, <1>3 DEF Begin, Release, database, counters
  <1>4. ASSUME NEW r \in Runners, Resolve(r) PROVE TypeOK'
    BY <1>4, RowTypes DEF Resolve, counters
  <1>5. ASSUME NEW r \in Runners, Lookup(r) PROVE TypeOK'
    <2>1. [created |-> created[sha[r]], chunking |-> chunking[sha[r]]] \in Seen
      BY <1>5 DEF Lookup, Seen
    <2>2. seen' \in [Runners -> Seen]
      BY <1>5, <2>1 DEF Lookup
    <2>3. QED
      BY <1>5, <2>2 DEF Lookup, database, counters
  <1>6. ASSUME NEW r \in Runners, ReuseSnapshot(r) PROVE TypeOK'
    <2> DEFINE c == sha[r]
    <2>1. c \in Commits /\ held[r] \in Jobs
      BY <1>6 DEF ReuseSnapshot
    <2>2. CASE created[c] = seen[r].created
      <3>1. jobs' \in [Jobs -> JobRow] /\ target' \in [Jobs -> Target]
        BY <1>6, <2>1, <2>2, SucceedTypes DEF ReuseSnapshot
      <3>2. chunking' \in [Commits -> Statuses]
        BY <1>6, <2>1, <2>2 DEF ReuseSnapshot, Statuses
      <3>3. embedding' \in [Commits -> SUBSET Selections]
        BY <1>6, <2>1, <2>2 DEF ReuseSnapshot, Target
      <3>4. QED
        BY <1>0, <1>6, <2>2, <3>1, <3>2, <3>3 DEF ReuseSnapshot, Release, counters
    <2>3. CASE created[c] # seen[r].created
      BY <1>6, <2>1, <2>3 DEF ReuseSnapshot, counters
    <2>4. QED
      BY <2>2, <2>3
  <1>7. ASSUME NEW r \in Runners, Download(r) PROVE TypeOK'
    BY <1>7, RowTypes DEF Download, counters
  <1>8. ASSUME NEW r \in Runners, PublishFile(r) PROVE TypeOK'
    BY <1>8 DEF PublishFile, database, counters, Parts
  <1>9. ASSUME NEW r \in Runners, RecordSnapshot(r) PROVE TypeOK'
    <2>1. sha[r] \in Commits /\ held[r] \in Jobs
      BY <1>9 DEF RecordSnapshot
    <2>2. jobs' \in [Jobs -> JobRow] /\ target' \in [Jobs -> Target]
      BY <1>9, <2>1, SucceedTypes DEF RecordSnapshot
    <2>3. QED
      BY <1>9, <2>1, <2>2 DEF RecordSnapshot, counters, Statuses
  <1>10. ASSUME NEW r \in Runners, SelectOld(r) PROVE TypeOK'
    BY <1>10 DEF SelectOld, database, counters, Outdated, Rows
  <1>11. ASSUME NEW r \in Runners, DeleteFile(r) PROVE TypeOK'
    BY <1>11 DEF DeleteFile, database, counters
  <1>12. ASSUME NEW r \in Runners, DeleteRows(r) PROVE TypeOK'
    <2>1. target' \in [Jobs -> Target]
      <3>1. \A j \in Jobs : [target[j] EXCEPT !.snapshot = None] \in Target
        BY TargetSnapshot
      <3>2. QED
        BY <1>12, <3>1 DEF DeleteRows
    <2>2. chunking' \in [Commits -> Statuses] /\ created' \in [Commits -> Nat]
      BY <1>12 DEF DeleteRows, Statuses
    <2>3. embedding' \in [Commits -> SUBSET Selections]
      BY <1>12 DEF DeleteRows
    <2>4. QED
      BY <1>0, <1>12, <2>1, <2>2, <2>3 DEF DeleteRows, Release, counters
  <1>13. ASSUME NEW r \in Runners, RetentionFails(r) PROVE TypeOK'
    BY <1>0, <1>13 DEF RetentionFails, Release, database, counters
  <1>14. ASSUME NEW r \in Runners, Fails(r) PROVE TypeOK'
    BY <1>14 DEF Fails, database, counters
  <1>15. ASSUME NEW r \in Runners, fail_or_retry(r) PROVE TypeOK'
    <2>1. jobs' \in [Jobs -> JobRow]
      <3>1. held[r] \in Jobs
        BY <1>15 DEF fail_or_retry
      <3>2. FailOrRetryRow(jobs[held[r]], pc[r] = "retrying", MaxAttempts) \in JobRow
        BY <3>1, RowTypes, SettingsAssumption
      <3>3. QED
        BY <1>15, <3>1, <3>2 DEF fail_or_retry
    <2>2. CASE Release(r) /\ UNCHANGED outages
      BY <1>0, <1>15, <2>1, <2>2 DEF fail_or_retry, Release
    <2>3. CASE Dies(r) /\ outages' \in Nat
      BY <1>0, <1>15, <2>1, <2>3 DEF fail_or_retry, Dies
    <2>4. QED
      BY <1>15, <2>2, <2>3 DEF fail_or_retry
  <1>16. ASSUME NEW r \in Runners, Crash(r) PROVE TypeOK'
    BY <1>0, <1>16 DEF Crash, database
  <1>17. ASSUME NEW r \in Runners, Restart(r) PROVE TypeOK'
    BY <1>17 DEF Restart, database, counters
  <1>18. ASSUME NEW j \in Jobs, LeaseExpires(j) PROVE TypeOK'
    <2>1. jobs' \in [Jobs -> JobRow]
      BY <1>18, ClockTypes DEF LeaseExpires
    <2>2. QED
      BY <1>18, <2>1 DEF LeaseExpires, runnerVars
  <1>19. ASSUME NEW j \in Jobs, BackoffElapses(j) PROVE TypeOK'
    BY <1>19, ClockTypes DEF BackoffElapses, runnerVars, counters
  <1>20. ASSUME NEW c \in Commits, ChunkingStep(c) PROVE TypeOK'
    BY <1>20 DEF ChunkingStep, runnerVars, counters, Statuses
  <1>21. ASSUME NEW c \in Commits, ChunkingSucceeds(c) PROVE TypeOK'
    <2>1. LatestSelection(c) \subseteq Selections
      BY SelectionsAssumption DEF LatestSelection, Target
    <2>2. QED
      BY <1>21, <2>1 DEF ChunkingSucceeds, runnerVars, counters, Statuses
  <1>22. CASE UNCHANGED vars
    BY <1>22 DEF vars, database, runnerVars, counters
  <1>23. QED
    BY <1>1, <1>2, <1>3, <1>4, <1>5, <1>6, <1>7, <1>8, <1>9, <1>10, <1>11, <1>12,
       <1>13, <1>14, <1>15, <1>16, <1>17, <1>18, <1>19, <1>20, <1>21, <1>22
       DEF Next, Step

\* Every variable keeps its type, and a runner in the middle of process holds a
\* job of the table.
THEOREM TypeCorrect == Spec => []TypeOK
  BY TypeInit, TypeNext, PTL DEF Spec

-----------------------------------------------------------------------------
(* Safety, when leases outlive the work they cover.                        *)

\* Steps that keep the tables, and in which no runner takes up a job.
LEMMA QuietStep ==
  ASSUME HeldJobsRun, ExclusiveWork, OneActivePerRepository,
         jobs' = jobs, \A j \in Jobs : target'[j].repo = target[j].repo,
         \A r \in Runners : Working(r)' => Working(r) /\ held'[r] = held[r]
  PROVE  HeldJobsRun' /\ ExclusiveWork' /\ OneActivePerRepository'
  BY DEF HeldJobsRun, ExclusiveWork, OneActivePerRepository, Active

\* Steps in which a runner renews the lease of its job and goes on with it.
LEMMA RenewStep ==
  ASSUME TypeOK, HeldJobsRun, ExclusiveWork, OneActivePerRepository,
         NEW r \in Runners, Working(r),
         jobs' = [jobs EXCEPT ![held[r]] = RenewLease(@)],
         target' = target, held' = held,
         \A s \in Runners : Working(s)' => Working(s)
  PROVE  HeldJobsRun' /\ ExclusiveWork' /\ OneActivePerRepository'
  <1>1. held[r] \in Jobs
    BY DEF TypeOK, Working
  <1>2. \A j \in Jobs : jobs'[j].status = jobs[j].status
    BY <1>1 DEF TypeOK, RenewLease, JobRow
  <1>3. \A j \in Jobs : jobs[j].lease = "live" => jobs'[j].lease = "live"
    BY <1>1 DEF TypeOK, RenewLease, JobRow
  <1>4. \A s \in Runners : Working(s) => held[s] \in Jobs
    BY DEF TypeOK, Working
  <1>5. QED
    BY <1>2, <1>3, <1>4 DEF HeldJobsRun, ExclusiveWork, OneActivePerRepository, Active

\* Steps in which a runner settles its job and lets go of it; the job stays
\* active only if it was.
LEMMA SettleStep ==
  ASSUME TypeOK, HeldJobsRun, ExclusiveWork, OneActivePerRepository,
         NEW r \in Runners, Working(r), NEW row,
         jobs' = [jobs EXCEPT ![held[r]] = row],
         \A j \in Jobs : target'[j].repo = target[j].repo,
         ~Working(r)',
         \A s \in Runners : Working(s)' => Working(s) /\ held'[s] = held[s]
  PROVE  HeldJobsRun' /\ ExclusiveWork' /\ OneActivePerRepository'
  <1>1. \A s \in Runners : Working(s) => held[s] \in Jobs
    BY DEF TypeOK, Working
  <1>2. \A s \in Runners : Working(s)' => held'[s] # held[r]
    BY DEF ExclusiveWork
  <1>3. HeldJobsRun'
    BY <1>1, <1>2 DEF HeldJobsRun, TypeOK
  <1>4. Active(jobs[held[r]])
    BY DEF HeldJobsRun, Active
  <1>5. \A j \in Jobs : Active(jobs'[j]) => Active(jobs[j])
    BY <1>1, <1>4 DEF TypeOK
  <1>6. OneActivePerRepository'
    BY <1>5 DEF OneActivePerRepository
  <1>7. QED
    BY <1>3, <1>6 DEF ExclusiveWork

\* A new job is queued only beside finished jobs of its repository.
LEMMA EnqueueStep ==
  ASSUME TypeOK, HeldJobsRun, ExclusiveWork, OneActivePerRepository,
         NEW p \in Repos, NEW m \in Selections, enqueue_ingestion(p, m)
  PROVE  HeldJobsRun' /\ ExclusiveWork' /\ OneActivePerRepository'
  <1>1. PICK j \in Jobs :
          /\ jobs[j].status = "absent"
          /\ jobs' = [jobs EXCEPT ![j] = QueuedJob]
          /\ target' = [target EXCEPT ![j] = [repo |-> p, selection |-> m, snapshot |-> None]]
    BY DEF enqueue_ingestion
  <1>2. UNCHANGED <<pc, held>>
    BY DEF enqueue_ingestion, runnerVars
  <1>3. \A s \in Runners : Working(s) => held[s] \in Jobs /\ held[s] # j
    BY <1>1 DEF TypeOK, Working, HeldJobsRun
  <1>4. HeldJobsRun'
    BY <1>1, <1>2, <1>3 DEF HeldJobsRun, Working, TypeOK
  <1>5. \A k \in Jobs : Active(jobs[k]) /\ target[k].repo = p => FALSE
    BY DEF enqueue_ingestion, ActiveOf
  <1>6. \A k \in Jobs : k # j => jobs'[k] = jobs[k] /\ target'[k] = target[k]
    BY <1>1 DEF TypeOK
  <1>7. target'[j].repo = p
    BY <1>1 DEF TypeOK
  <1>8. OneActivePerRepository'
    BY <1>5, <1>6, <1>7 DEF OneActivePerRepository, Active
  <1>9. QED
    BY <1>2, <1>4, <1>8 DEF ExclusiveWork, Working

\* A claim takes a job that no working runner holds: theirs run under a live lease.
LEMMA ClaimStep ==
  ASSUME TypeOK, HeldJobsRun, ExclusiveWork, OneActivePerRepository,
         NEW r \in Runners, claim_next(r)
  PROVE  HeldJobsRun' /\ ExclusiveWork' /\ OneActivePerRepository'
  <1> DEFINE requeued == [j \in Jobs |-> RequeueExpired(jobs[j])]
  <1>1. \A j \in Jobs : Active(requeued[j]) => Active(jobs[j])
    BY DEF RequeueExpired, Active
  <1>2. \A j \in Jobs : jobs[j].status = "running" /\ jobs[j].lease = "live"
                        => requeued[j] = jobs[j]
    BY DEF RequeueExpired
  <1>3. \A s \in Runners : Working(s) => held[s] \in Jobs /\ requeued[held[s]] = jobs[held[s]]
    BY <1>2 DEF HeldJobsRun, TypeOK, Working
  <1>4. \A j \in Jobs : requeued[j] \in JobRow
    BY RowTypes DEF TypeOK
  <1>5. target' = target
    BY DEF claim_next
  <1>6. ~Working(r)
    BY DEF claim_next, Working, WorkPcs, CommitPcs
  <1>7. CASE jobs' = requeued /\ UNCHANGED <<pc, held>>
    <2> HIDE DEF requeued
    <2>1. HeldJobsRun' /\ ExclusiveWork'
      BY <1>3, <1>7 DEF HeldJobsRun, ExclusiveWork, Working
    <2>2. OneActivePerRepository'
      BY <1>1, <1>5, <1>7 DEF OneActivePerRepository
    <2>3. QED
      BY <2>1, <2>2
  <1>8. ASSUME NEW j \in Jobs, Claimable(requeued[j]),
               jobs' = [requeued EXCEPT ![j] = ClaimRow(requeued[j])],
               pc' = [pc EXCEPT ![r] = "claimed"], held' = [held EXCEPT ![r] = j]
        PROVE  HeldJobsRun' /\ ExclusiveWork' /\ OneActivePerRepository'
    <2>1. \A s \in Runners : Working(s) => held[s] # j
      BY <1>3, <1>8 DEF HeldJobsRun, Claimable
    <2>2. jobs'[j].status = "running" /\ jobs'[j].lease = "live"
      BY <1>8 DEF ClaimRow
    <2>3. \A k \in Jobs : k # j => jobs'[k] = requeued[k]
      BY <1>8
    <2>4. Active(jobs[j])
      BY <1>1, <1>8 DEF Claimable, Active
    <2> HIDE DEF requeued
    <2>5. \A s \in Runners : Working(s)' => s = r \/ (Working(s) /\ held'[s] = held[s])
      BY <1>8 DEF Working, TypeOK
    <2>6. held'[r] = j
      BY <1>8 DEF TypeOK
    <2>7. HeldJobsRun'
      BY <1>3, <2>1, <2>2, <2>3, <2>5, <2>6 DEF HeldJobsRun
    <2>8. ExclusiveWork'
      BY <2>1, <2>5, <2>6 DEF ExclusiveWork
    <2>9. \A k \in Jobs : Active(jobs'[k]) => Active(jobs[k])
      BY <1>1, <2>3, <2>4
    <2>10. OneActivePerRepository'
      BY <1>5, <2>9 DEF OneActivePerRepository
    <2>11. QED
      BY <2>7, <2>8, <2>10
  <1>9. QED
    BY <1>7, <1>8 DEF claim_next

\* Only a broken database makes a runner die: no other job of the repository is
\* active while it holds one.
LEMMA NoTwin ==
  ASSUME TypeOK, HeldJobsRun, OneActivePerRepository, NEW r \in Runners, Working(r)
  PROVE  ActiveOf(target[held[r]].repo) \ {held[r]} = {}
  <1>1. held[r] \in Jobs /\ Active(jobs[held[r]])
    BY DEF TypeOK, HeldJobsRun, Working, Active
  <1>2. QED
    BY <1>1 DEF ActiveOf, OneActivePerRepository

\* _fail_or_retry: the job is queued again or failed, or the database is down.
LEMMA FailStep ==
  ASSUME IInv, NEW r \in Runners, fail_or_retry(r)
  PROVE  HeldJobsRun' /\ ExclusiveWork' /\ OneActivePerRepository' /\ RunnersSurvive'
  <1> USE DEF IInv
  <1>1. Working(r)
    BY DEF fail_or_retry, Working, WorkPcs
  <1>2. target' = target
    BY DEF fail_or_retry
  <1>3. CASE /\ jobs' = [jobs EXCEPT ![held[r]] =
                          FailOrRetryRow(jobs[held[r]], pc[r] = "retrying", MaxAttempts)]
             /\ Release(r)
             /\ UNCHANGED outages
    <2>1. ~Working(r)' /\ \A s \in Runners : Working(s)' => Working(s) /\ held'[s] = held[s]
      BY <1>3 DEF Release, Working, WorkPcs, CommitPcs, TypeOK
    <2>2. HeldJobsRun' /\ ExclusiveWork' /\ OneActivePerRepository'
      <3> DEFINE row == FailOrRetryRow(jobs[held[r]], pc[r] = "retrying", MaxAttempts)
      <3>1. jobs' = [jobs EXCEPT ![held[r]] = row]
        BY <1>3
      <3> HIDE DEF row
      <3>2. QED
        BY <1>1, <1>2, <2>1, <3>1, SettleStep
    <2>3. RunnersSurvive'
      BY <1>3 DEF Release, RunnersSurvive, TypeOK
    <2>4. QED
      BY <2>2, <2>3
  <1>4. CASE outages' = outages + 1 /\ Dies(r) /\ UNCHANGED jobs
    <2>1. \A s \in Runners : Working(s)' => Working(s) /\ held'[s] = held[s]
      BY <1>4 DEF Dies, Working, WorkPcs, CommitPcs, TypeOK
    <2>2. HeldJobsRun' /\ ExclusiveWork' /\ OneActivePerRepository'
      BY <1>2, <1>4, <2>1, QuietStep
    <2>3. RunnersSurvive'
      BY <1>4 DEF RunnersSurvive, TypeOK
    <2>4. QED
      BY <2>2, <2>3
  <1>5. QED
    BY <1>1, <1>3, <1>4, NoTwin DEF fail_or_retry

\* Every step keeps the inductive invariant.
LEMMA SafetyNext ==
  ASSUME LeaseOutlivesWork, IInv, [Next]_vars
  PROVE  IInv'
  <1> USE DEF IInv
  <1> DEFINE Safe == HeldJobsRun /\ ExclusiveWork /\ OneActivePerRepository
  <1>t. TypeOK'
    BY TypeNext
  <1>1. ASSUME NEW p \in Repos, NEW m \in Selections, enqueue_ingestion(p, m)
        PROVE  Safe' /\ RunnersSurvive'
    BY <1>1, EnqueueStep DEF enqueue_ingestion, runnerVars, counters, RunnersSurvive
  <1>2. ASSUME NEW r \in Runners, claim_next(r) PROVE Safe' /\ RunnersSurvive'
    <2>1. RunnersSurvive'
      BY <1>2 DEF claim_next, counters, RunnersSurvive, TypeOK
    <2>2. QED
      BY <1>2, <2>1, ClaimStep
  \* Steps of a runner that do not touch its job's row.
  <1>3. ASSUME NEW r \in Runners,
               \/ Begin(r) \/ Lookup(r) \/ PublishFile(r) \/ SelectOld(r) \/ DeleteFile(r)
               \/ DeleteRows(r) \/ RetentionFails(r) \/ Fails(r) \/ Crash(r) \/ Restart(r)
        PROVE  Safe' /\ RunnersSurvive'
    <2> USE DEF TypeOK, Working, WorkPcs, CommitPcs
    <2>1. jobs' = jobs /\ \A j \in Jobs : target'[j].repo = target[j].repo
      <3>1. CASE DeleteRows(r)
        BY <3>1 DEF DeleteRows, Target
      <3>2. QED
        BY <1>3, <3>1 DEF Begin, Lookup, PublishFile, SelectOld, DeleteFile,
                          RetentionFails, Fails, Crash, Restart, database
    <2>2. \A s \in Runners : Working(s)' => Working(s) /\ held'[s] = held[s]
      BY <1>3 DEF Begin, Lookup, PublishFile, SelectOld, DeleteFile, DeleteRows,
                  RetentionFails, Fails, Crash, Restart, Release
    <2>3. RunnersSurvive'
      BY <1>3 DEF Begin, Lookup, PublishFile, SelectOld, DeleteFile, DeleteRows, RetentionFails,
                  Fails, Crash, Restart, Release, counters, RunnersSurvive
    <2>4. QED
      BY <2>1, <2>2, <2>3, QuietStep
  <1>4. ASSUME NEW r \in Runners, Resolve(r) \/ Download(r) PROVE Safe' /\ RunnersSurvive'
    <2>1. Working(r) /\ \A s \in Runners : Working(s)' => Working(s)
      BY <1>4 DEF Resolve, Download, Working, WorkPcs, CommitPcs, TypeOK
    <2>2. RunnersSurvive'
      BY <1>4 DEF Resolve, Download, counters, RunnersSurvive, TypeOK
    <2>3. jobs' = [jobs EXCEPT ![held[r]] = RenewLease(@)] /\ UNCHANGED <<target, held>>
      BY <1>4 DEF Resolve, Download
    <2>4. QED
      BY <2>1, <2>2, <2>3, RenewStep
  <1>5. ASSUME NEW r \in Runners, ReuseSnapshot(r) \/ RecordSnapshot(r)
        PROVE  Safe' /\ RunnersSurvive'
    <2>1. Working(r)
      BY <1>5 DEF ReuseSnapshot, RecordSnapshot, Working, WorkPcs, CommitPcs
    <2>2. RunnersSurvive'
      BY <1>5 DEF ReuseSnapshot, RecordSnapshot, Release, counters, RunnersSurvive, TypeOK
    <2>3. CASE succeed(held[r], sha[r]) /\ (Release(r) \/ (pc' = [pc EXCEPT ![r] = "pruning"]
                                                          /\ held' = held))
      <3>1. \A j \in Jobs : target'[j].repo = target[j].repo
        BY <2>1, <2>3 DEF succeed, TypeOK, Target, Working
      <3>2. ~Working(r)' /\ \A s \in Runners : Working(s)' => Working(s) /\ held'[s] = held[s]
        BY <2>3 DEF Release, Working, WorkPcs, CommitPcs, TypeOK
      <3>3. jobs' = [jobs EXCEPT ![held[r]] = SucceedRow(jobs[held[r]])]
        BY <2>3 DEF succeed
      <3>4. QED
        BY <2>1, <2>2, <3>1, <3>2, <3>3, SettleStep
    <2>4. CASE pc' = [pc EXCEPT ![r] = "retrying"] /\ UNCHANGED <<jobs, target, held>>
      <3>1. \A s \in Runners : Working(s)' => Working(s) /\ held'[s] = held[s]
        BY <2>1, <2>4 DEF Working, WorkPcs, TypeOK
      <3>2. QED
        BY <2>2, <2>4, <3>1, QuietStep
    <2>5. QED
      BY <1>5, <2>3, <2>4 DEF ReuseSnapshot, RecordSnapshot
  <1>6. ASSUME NEW r \in Runners, fail_or_retry(r) PROVE Safe' /\ RunnersSurvive'
    BY <1>6, FailStep
  <1>7. ASSUME NEW j \in Jobs, LeaseExpires(j) \/ BackoffElapses(j)
        PROVE  Safe' /\ RunnersSurvive'
    <2>1. UNCHANGED <<pc, held, target, outages>>
      BY <1>7 DEF LeaseExpires, BackoffElapses, runnerVars, counters
    <2>2. \A k \in Jobs : jobs'[k].status = jobs[k].status
      BY <1>7, SMTT(30) DEF LeaseExpires, BackoffElapses, TypeOK, JobRow
    <2>3. \A s \in Runners : Working(s) => held[s] \in Jobs /\ jobs'[held[s]].lease = "live"
      BY <1>7 DEF LeaseExpires, BackoffElapses, TypeOK, JobRow, Working, HeldJobsRun, InWork
    <2>4. QED
      BY <2>1, <2>2, <2>3
         DEF HeldJobsRun, ExclusiveWork, OneActivePerRepository, RunnersSurvive, Active, Working
  <1>8. ASSUME NEW c \in Commits, ChunkingStep(c) \/ ChunkingSucceeds(c)
        PROVE  Safe' /\ RunnersSurvive'
    BY <1>8, QuietStep DEF ChunkingStep, ChunkingSucceeds, runnerVars, counters, Working, RunnersSurvive
  <1>9. ASSUME UNCHANGED vars PROVE Safe' /\ RunnersSurvive'
    <2>1. UNCHANGED <<jobs, target, pc, held, outages>>
      BY <1>9 DEF vars, database, runnerVars, counters
    <2>2. QED
      BY <2>1, QuietStep DEF Working, RunnersSurvive
  <1>10. QED
    BY <1>t, <1>1, <1>2, <1>3, <1>4, <1>5, <1>6, <1>7, <1>8, <1>9 DEF Next, Step

\* When leases outlive the work they cover, two runners never process one job,
\* a job in process keeps its running row and its lease, and no exception ends a
\* runner while the database answers.
THEOREM Safety == ASSUME LeaseOutlivesWork PROVE Spec => []IInv
  <1>1. Init => IInv
    <2> SUFFICES ASSUME Init PROVE IInv
      OBVIOUS
    <2>1. \A r \in Runners : ~Working(r) /\ pc[r] # "dead"
      BY DEF Init, Working, WorkPcs, CommitPcs
    <2>2. \A j \in Jobs : ~Active(jobs[j])
      BY DEF Init, Active, AbsentJob
    <2>3. QED
      BY <2>1, <2>2, TypeInit
         DEF IInv, HeldJobsRun, ExclusiveWork, OneActivePerRepository, RunnersSurvive
  <1>2. IInv /\ [Next]_vars => IInv'
    BY SafetyNext
  <1>3. QED
    BY <1>1, <1>2, PTL DEF Spec

\* Two runners never process one job at the same time.
COROLLARY Exclusive == ASSUME LeaseOutlivesWork PROVE Spec => []ExclusiveWork
  <1>1. IInv => ExclusiveWork
    BY DEF IInv
  <1>2. QED
    BY <1>1, Safety, PTL

\* The runner task ends only when the database fails inside _fail_or_retry.
COROLLARY Survival == ASSUME LeaseOutlivesWork PROVE Spec => []RunnersSurvive
  <1>1. IInv => RunnersSurvive
    BY DEF IInv
  <1>2. QED
    BY <1>1, Safety, PTL

-----------------------------------------------------------------------------
(* The stage implements the abstract queue.                                *)

\* The owner of a job, before and after a step.
LEMMA Owners ==
  /\ ExclusiveWork =>
       \A r \in Runners, j \in Jobs : OwnerOf(j) = r <=> Working(r) /\ held[r] = j
  /\ ExclusiveWork' =>
       \A r \in Runners, j \in Jobs : OwnerOf(j)' = r <=> Working(r)' /\ held'[r] = j
  /\ \A j \in Jobs : OwnerOf(j) \in Runners \union {None}
  /\ \A j \in Jobs : OwnerOf(j)' \in Runners \union {None}
  <1>1. \A j \in Jobs : OwnerOf(j) \in Runners \union {None}
    BY DEF OwnerOf
  <1>2. \A j \in Jobs : OwnerOf(j)' \in Runners \union {None}
    BY DEF OwnerOf
  <1>3. ASSUME ExclusiveWork, NEW r \in Runners, NEW j \in Jobs
        PROVE  OwnerOf(j) = r <=> Working(r) /\ held[r] = j
    BY <1>3, NoneAssumption DEF OwnerOf, ExclusiveWork
  <1>4. ASSUME ExclusiveWork', NEW r \in Runners, NEW j \in Jobs
        PROVE  OwnerOf(j)' = r <=> Working(r)' /\ held'[r] = j
    BY <1>4, NoneAssumption DEF OwnerOf, ExclusiveWork
  <1>5. QED
    BY <1>1, <1>2, <1>3, <1>4

\* No runner starts or stops working: the owners stay.
LEMMA SameOwners ==
  ASSUME ExclusiveWork, ExclusiveWork',
         \A s \in Runners : Working(s)' <=> Working(s),
         \A s \in Runners : Working(s) => held'[s] = held[s]
  PROVE  [j \in Jobs |-> OwnerOf(j)]' = [j \in Jobs |-> OwnerOf(j)]
  <1>1. ASSUME NEW j \in Jobs PROVE OwnerOf(j)' = OwnerOf(j)
    BY Owners
  <1>2. QED
    BY <1>1

\* One runner stops working: its job loses its owner, the others keep theirs.
LEMMA OwnerLeaves ==
  ASSUME ExclusiveWork, ExclusiveWork', NEW r \in Runners, Working(r),
         NEW k \in Jobs, held[r] = k,
         ~Working(r)',
         \A s \in Runners \ {r} : Working(s)' <=> Working(s),
         \A s \in Runners \ {r} : Working(s) => held'[s] = held[s]
  PROVE  [j \in Jobs |-> OwnerOf(j)]' =
           [[j \in Jobs |-> OwnerOf(j)] EXCEPT ![k] = None]
  <1>1. OwnerOf(k)' = None
    BY Owners DEF ExclusiveWork
  <1>2. ASSUME NEW j \in Jobs, j # k PROVE OwnerOf(j)' = OwnerOf(j)
    BY <1>2, Owners
  <1>3. QED
    BY <1>1, <1>2

\* One runner starts working on job k: it becomes the owner.
LEMMA OwnerEnters ==
  ASSUME ExclusiveWork, ExclusiveWork', NEW r \in Runners, ~Working(r),
         NEW k \in Jobs, Working(r)', held'[r] = k,
         \A s \in Runners \ {r} : Working(s)' <=> Working(s),
         \A s \in Runners \ {r} : Working(s) => held'[s] = held[s]
  PROVE  [j \in Jobs |-> OwnerOf(j)]' =
           [[j \in Jobs |-> OwnerOf(j)] EXCEPT ![k] = r]
  <1>1. OwnerOf(k)' = r
    BY Owners
  <1>2. ASSUME NEW j \in Jobs, j # k PROVE OwnerOf(j)' = OwnerOf(j)
    <2>1. \A s \in Runners : Working(s)' /\ held'[s] = j <=> Working(s) /\ held[s] = j
      BY <1>2
    <2>2. \A s \in Runners : OwnerOf(j)' = s <=> OwnerOf(j) = s
      BY <2>1, Owners
    <2>3. QED
      BY <2>2, Owners
  <1>3. QED
    BY <1>1, <1>2

\* The statuses change in job k only.
LEMMA OneStatus ==
  ASSUME NEW k \in Jobs, \A j \in Jobs \ {k} : jobs'[j].status = jobs[j].status
  PROVE  [j \in Jobs |-> jobs[j].status]' =
           [[j \in Jobs |-> jobs[j].status] EXCEPT ![k] = jobs'[k].status]
  OBVIOUS

\* A runner that stops working either settles its job or abandons it.
LEMMA LeavesMaps ==
  ASSUME IInv, IInv', NEW r \in Runners, Working(r), NEW k \in Jobs, held[r] = k,
         ~Working(r)',
         \A s \in Runners \ {r} : (Working(s)' <=> Working(s)) /\ held'[s] = held[s],
         \A j \in Jobs \ {k} : jobs'[j].status = jobs[j].status,
         \/ jobs'[k].status \in {"queued", "succeeded", "failed"}
         \/ jobs'[k].status = jobs[k].status
  PROVE  Queue!Settle(r, k) \/ Queue!Abandon(r, k)
  <1> USE DEF IInv
  <1>1. OwnerOf(k) = r /\ jobs[k].status = "running"
    BY Owners DEF HeldJobsRun
  <1>2. [j \in Jobs |-> OwnerOf(j)]' = [[j \in Jobs |-> OwnerOf(j)] EXCEPT ![k] = None]
    BY OwnerLeaves
  <1>3. [j \in Jobs |-> jobs[j].status]' =
          [[j \in Jobs |-> jobs[j].status] EXCEPT ![k] = jobs'[k].status]
    BY OneStatus
  <1>4. CASE jobs'[k].status \in {"queued", "succeeded", "failed"}
    BY <1>1, <1>2, <1>3, <1>4 DEF Queue!Settle
  <1>5. CASE jobs'[k].status = jobs[k].status
    <2>1. [j \in Jobs |-> jobs[j].status]' = [j \in Jobs |-> jobs[j].status]
      BY <1>5
    <2>2. QED
      BY <1>1, <1>2, <2>1 DEF Queue!Abandon
  <1>6. QED
    BY <1>4, <1>5

\* A step that keeps the statuses and the working runners is a stutter.
LEMMA StutterMaps ==
  ASSUME IInv, IInv',
         \A j \in Jobs : jobs'[j].status = jobs[j].status,
         \A s \in Runners : Working(s)' <=> Working(s),
         \A s \in Runners : Working(s) => held'[s] = held[s]
  PROVE  UNCHANGED <<[j \in Jobs |-> jobs[j].status], [j \in Jobs |-> OwnerOf(j)]>>
  <1>1. [j \in Jobs |-> jobs[j].status]' = [j \in Jobs |-> jobs[j].status]
    OBVIOUS
  <1>2. QED
    BY <1>1, SameOwners DEF IInv

\* The initial state is an empty queue.
LEMMA QueueInit == Init => Queue!Init
  <1> SUFFICES ASSUME Init PROVE Queue!Init
    OBVIOUS
  <1>1. \A j \in Jobs : OwnerOf(j) = None /\ jobs[j].status = "absent"
    BY DEF Init, OwnerOf, Working, WorkPcs, CommitPcs, AbsentJob
  <1>2. QED
    BY <1>1 DEF Queue!Init

\* claim_next queues orphans again and takes at most one job.
LEMMA ClaimMaps ==
  ASSUME IInv, IInv', NEW r \in Runners, claim_next(r)
  PROVE  Queue!Reclaim \/ \E j \in Jobs : Queue!Take(r, j)
  <1> USE DEF IInv
  <1> DEFINE lost     == {j \in Jobs : jobs[j].status = "running" /\ jobs[j].lease = "expired"}
             stat     == [j \in Jobs |-> jobs[j].status]
             own      == [j \in Jobs |-> OwnerOf(j)]
             requeued == [j \in Jobs |-> RequeueExpired(jobs[j])]
             freed    == [j \in Jobs |-> IF j \in lost THEN "queued" ELSE stat[j]]
  <1>1. lost \subseteq {j \in Jobs : stat[j] = "running" /\ own[j] = None}
    BY Owners DEF HeldJobsRun
  <1>2. \A j \in Jobs : requeued[j].status = freed[j]
    BY DEF RequeueExpired, TypeOK, JobRow
  <1>3. ~Working(r)
    BY DEF claim_next, Working, WorkPcs, CommitPcs
  <1>4. CASE jobs' = requeued /\ UNCHANGED <<pc, held>>
    <2>1. stat' = freed
      BY <1>2, <1>4
    <2>2. own' = own
      BY <1>4, SameOwners DEF Working
    <2>3. Queue!Reclaim
      BY <1>1, <2>1, <2>2 DEF Queue!Reclaim, Queue!Orphans, Queue!Requeued
    <2>4. QED
      BY <2>3
  <1>5. ASSUME NEW k \in Jobs, Claimable(requeued[k]),
               jobs' = [requeued EXCEPT ![k] = ClaimRow(requeued[k])],
               pc' = [pc EXCEPT ![r] = "claimed"], held' = [held EXCEPT ![r] = k]
        PROVE  Queue!Take(r, k)
    <2>1. freed[k] = "queued"
      BY <1>2, <1>5 DEF Claimable
    <2>2. stat' = [freed EXCEPT ![k] = "running"]
      BY <1>2, <1>5 DEF ClaimRow
    <2>3. own' = [own EXCEPT ![k] = r]
      <3>1. Working(r)' /\ held'[r] = k
        BY <1>5 DEF Working, WorkPcs, TypeOK
      <3>2. \A s \in Runners \ {r} : (Working(s)' <=> Working(s)) /\ held'[s] = held[s]
        BY <1>5 DEF Working, TypeOK
      <3>3. QED
        BY <1>3, <3>1, <3>2, OwnerEnters
    <2>4. own[k] = None
      BY <1>1, <2>1, Owners DEF HeldJobsRun
    <2>5. \A j \in Jobs : own[j] # r
      BY <1>3, Owners
    <2>6. QED
      BY <1>1, <2>1, <2>2, <2>3, <2>4, <2>5 DEF Queue!Take, Queue!Orphans, Queue!Requeued
  <1>6. QED
    BY <1>4, <1>5 DEF claim_next

\* Every step of the stage is a step of the queue or leaves it alone.
LEMMA QueueNext ==
  ASSUME LeaseOutlivesWork, IInv, IInv', [Next]_vars
  PROVE  [Queue!Next]_<<[j \in Jobs |-> jobs[j].status], [j \in Jobs |-> OwnerOf(j)]>>
  <1> DEFINE Maps == [Queue!Next]_<<[j \in Jobs |-> jobs[j].status], [j \in Jobs |-> OwnerOf(j)]>>
  <1> USE DEF IInv
  <1>1. ASSUME NEW p \in Repos, NEW m \in Selections, enqueue_ingestion(p, m) PROVE Maps
    <2>1. PICK k \in Jobs : jobs[k].status = "absent" /\ jobs' = [jobs EXCEPT ![k] = QueuedJob]
      BY <1>1 DEF enqueue_ingestion
    <2>2. UNCHANGED <<pc, held>>
      BY <1>1 DEF enqueue_ingestion, runnerVars
    <2>3. [j \in Jobs |-> OwnerOf(j)]' = [j \in Jobs |-> OwnerOf(j)]
      BY <2>2, SameOwners DEF Working
    <2>4. jobs'[k].status = "queued" /\ \A j \in Jobs \ {k} : jobs'[j].status = jobs[j].status
      BY <2>1 DEF TypeOK, QueuedJob
    <2>5. Queue!Submit(k)
      BY <2>1, <2>3, <2>4, OneStatus DEF Queue!Submit
    <2>6. QED
      BY <2>5 DEF Queue!Next
  <1>2. ASSUME NEW r \in Runners, claim_next(r) PROVE Maps
    BY <1>2, ClaimMaps DEF Queue!Next
  <1>3. ASSUME NEW r \in Runners,
               \/ Lookup(r) \/ PublishFile(r) \/ SelectOld(r) \/ DeleteFile(r) \/ DeleteRows(r)
               \/ RetentionFails(r) \/ Fails(r) \/ Restart(r) \/ Begin(r)
        PROVE  Maps
    <2>1. jobs' = jobs
      BY <1>3 DEF Lookup, PublishFile, SelectOld, DeleteFile, DeleteRows, RetentionFails,
                  Fails, Restart, Begin, database
    <2>2. \A s \in Runners : Working(s)' <=> Working(s)
      <3>1. CASE Begin(r)
        BY <3>1 DEF Begin, Working, WorkPcs, TypeOK, HeldJobsRun
      <3>2. QED
        BY <1>3, <3>1 DEF Lookup, PublishFile, SelectOld, DeleteFile, DeleteRows, RetentionFails,
                    Fails, Restart, Release, Working, WorkPcs, CommitPcs, TypeOK
    <2>3. \A s \in Runners : Working(s) => held'[s] = held[s]
      BY <1>3 DEF Lookup, PublishFile, SelectOld, DeleteFile, DeleteRows, RetentionFails,
                  Fails, Restart, Begin, Release, Working, WorkPcs, CommitPcs, TypeOK, HeldJobsRun
    <2>4. QED
      BY <2>1, <2>2, <2>3, StutterMaps
  <1>4. ASSUME NEW r \in Runners, Crash(r) PROVE Maps
    <2>1. jobs' = jobs /\ ~Working(r)'
      BY <1>4 DEF Crash, database, Working, WorkPcs, CommitPcs, TypeOK
    <2>2. \A s \in Runners \ {r} : (Working(s)' <=> Working(s)) /\ held'[s] = held[s]
      BY <1>4 DEF Crash, Working, TypeOK
    <2>3. CASE Working(r)
      <3>1. PICK k \in Jobs : k = held[r]
        BY <2>3 DEF Working, TypeOK
      <3>2. Queue!Settle(r, k) \/ Queue!Abandon(r, k)
        BY <2>1, <2>2, <2>3, <3>1, LeavesMaps
      <3>3. QED
        BY <3>2 DEF Queue!Next
    <2>4. CASE ~Working(r)
      BY <2>1, <2>2, <2>4, StutterMaps
    <2>5. QED
      BY <2>3, <2>4
  <1>5. ASSUME NEW r \in Runners, Resolve(r) \/ Download(r) PROVE Maps
    <2>1. \A j \in Jobs : jobs'[j].status = jobs[j].status
      BY <1>5 DEF Resolve, Download, RenewLease, TypeOK, JobRow
    <2>2. held' = held /\ \A s \in Runners : Working(s)' <=> Working(s)
      BY <1>5 DEF Resolve, Download, Working, WorkPcs, CommitPcs, TypeOK
    <2>3. QED
      BY <2>1, <2>2, StutterMaps
  <1>6. ASSUME NEW r \in Runners, ReuseSnapshot(r) \/ RecordSnapshot(r) PROVE Maps
    <2>1. PICK k \in Jobs : k = held[r]
      BY <1>6 DEF ReuseSnapshot, RecordSnapshot, TypeOK, WorkPcs, CommitPcs
    <2>2. Working(r)
      BY <1>6 DEF ReuseSnapshot, RecordSnapshot, Working, WorkPcs, CommitPcs
    <2>3. \A s \in Runners \ {r} : (Working(s)' <=> Working(s)) /\ held'[s] = held[s]
      BY <1>6 DEF ReuseSnapshot, RecordSnapshot, Release, Working, TypeOK
    <2>4. CASE succeed(k, sha[r]) /\ (Release(r) \/ pc' = [pc EXCEPT ![r] = "pruning"])
      <3>1. jobs'[k].status = "succeeded" /\ \A j \in Jobs \ {k} : jobs'[j] = jobs[j]
        BY <2>4 DEF succeed, SucceedRow, TypeOK, JobRow
      <3>2. ~Working(r)'
        BY <2>4 DEF Release, Working, WorkPcs, CommitPcs, TypeOK
      <3>3. QED
        BY <2>1, <2>2, <2>3, <3>1, <3>2, LeavesMaps DEF Queue!Next
    <2>5. CASE pc' = [pc EXCEPT ![r] = "retrying"] /\ UNCHANGED <<jobs, held>>
      <3>1. \A s \in Runners : Working(s)' <=> Working(s)
        BY <2>2, <2>5 DEF Working, WorkPcs, TypeOK
      <3>2. QED
        BY <2>5, <3>1, StutterMaps
    <2>6. QED
      BY <1>6, <2>1, <2>4, <2>5 DEF ReuseSnapshot, RecordSnapshot
  <1>7. ASSUME NEW r \in Runners, fail_or_retry(r) PROVE Maps
    <2>1. PICK k \in Jobs : k = held[r]
      BY <1>7 DEF fail_or_retry, TypeOK, WorkPcs
    <2>2. Working(r)
      BY <1>7 DEF fail_or_retry, Working, WorkPcs
    <2>3. \A s \in Runners \ {r} : (Working(s)' <=> Working(s)) /\ held'[s] = held[s]
      BY <1>7 DEF fail_or_retry, Release, Dies, Working, TypeOK
    <2>4. ~Working(r)'
      BY <1>7 DEF fail_or_retry, Release, Dies, Working, WorkPcs, CommitPcs, TypeOK
    <2>5. \A j \in Jobs \ {k} : jobs'[j] = jobs[j]
      BY <1>7, <2>1 DEF fail_or_retry, TypeOK
    <2>6. FailOrRetryRow(jobs[k], pc[r] = "retrying", MaxAttempts).status \in {"queued", "failed"}
      BY DEF FailOrRetryRow, TypeOK, JobRow
    <2>7. jobs'[k].status \in {"queued", "failed"} \/ jobs'[k].status = jobs[k].status
      BY <1>7, <2>1, <2>6 DEF fail_or_retry, TypeOK
    <2>8. Queue!Settle(r, k) \/ Queue!Abandon(r, k)
      <3>1. \A j \in Jobs \ {k} : jobs'[j].status = jobs[j].status
        BY <2>5
      <3>2. QED
        BY <2>1, <2>2, <2>3, <2>4, <2>7, <3>1, LeavesMaps
    <2>9. QED
      BY <2>8 DEF Queue!Next
  <1>8. ASSUME NEW j \in Jobs, LeaseExpires(j) \/ BackoffElapses(j) PROVE Maps
    <2>1. \A k \in Jobs : jobs'[k].status = jobs[k].status
      <3>1. CASE LeaseExpires(j)
        BY <3>1 DEF LeaseExpires, TypeOK, JobRow
      <3>2. CASE BackoffElapses(j)
        BY <3>2 DEF BackoffElapses, TypeOK, JobRow
      <3>3. QED
        BY <1>8, <3>1, <3>2
    <2>2. UNCHANGED <<pc, held>>
      BY <1>8 DEF LeaseExpires, BackoffElapses, runnerVars
    <2>3. QED
      BY <2>1, <2>2, StutterMaps DEF Working
  <1>9. ASSUME (\E c \in Commits : ChunkingStep(c) \/ ChunkingSucceeds(c)) \/ UNCHANGED vars
        PROVE  Maps
    <2>1. UNCHANGED <<jobs, pc, held>>
      BY <1>9 DEF ChunkingStep, ChunkingSucceeds, vars, database, runnerVars
    <2>2. QED
      BY <2>1, StutterMaps DEF Working
  <1>10. QED
    BY <1>1, <1>2, <1>3, <1>4, <1>5, <1>6, <1>7, <1>8, <1>9 DEF Next, Step

\* The stage implements the abstract queue: every claim is a take by a single
\* owner, every outcome is written by the owner, and finished jobs stay finished.
THEOREM ImplementsQueue == ASSUME LeaseOutlivesWork PROVE Spec => QueueSpec
  <1>1. Init => Queue!Init
    BY QueueInit
  <1>2. IInv /\ IInv' /\ [Next]_vars
        => [Queue!Next]_<<[j \in Jobs |-> jobs[j].status], [j \in Jobs |-> OwnerOf(j)]>>
    BY QueueNext
  <1>3. QED
    BY <1>1, <1>2, Safety, PTL DEF Spec, QueueSpec, Queue!Spec

\* A succeeded job is never run, retried or failed afterwards: its row is left
\* alone by every later claim, failure and lease.
THEOREM Final == ASSUME LeaseOutlivesWork PROVE Spec => SucceededIsFinal
  <1> DEFINE Stays == \A j \in Jobs : jobs[j].status = "succeeded" => jobs'[j].status = "succeeded"
             stat  == [j \in Jobs |-> jobs[j].status]
  <1>1. ASSUME IInv, IInv', [Next]_vars PROVE Stays
    <2> SUFFICES ASSUME NEW j \in Jobs, stat[j] = "succeeded" PROVE stat'[j] = "succeeded"
      OBVIOUS
    <2>1. CASE Queue!Reclaim
      BY <2>1 DEF Queue!Reclaim, Queue!Orphans, Queue!Requeued
    <2>2. ASSUME NEW k \in Jobs, Queue!Submit(k) PROVE stat'[j] = "succeeded"
      BY <2>2 DEF Queue!Submit
    <2>3. ASSUME NEW r \in Runners, NEW k \in Jobs,
                 Queue!Take(r, k) \/ Queue!Settle(r, k) \/ Queue!Abandon(r, k)
          PROVE  stat'[j] = "succeeded"
      BY <2>3 DEF Queue!Take, Queue!Settle, Queue!Abandon, Queue!Orphans, Queue!Requeued
    <2>4. CASE Queue!Discard
      BY <2>4 DEF Queue!Discard
    <2>5. ASSUME NEW k \in Jobs, Queue!Reopen(k) PROVE FALSE
      BY <2>5 DEF Queue!Reopen
    <2>6. QED
      BY <1>1, <2>1, <2>2, <2>3, <2>4, <2>5, QueueNext DEF Queue!Next
  <1>2. QED
    BY <1>1, Safety, PTL DEF Spec, SucceededIsFinal

-----------------------------------------------------------------------------
(* Safety, whatever the leases do.                                         *)

\* Steps that write nothing to ingestion_jobs but the snapshot a job ended with.
JobsKept == /\ jobs' = jobs
            /\ \A j \in Jobs : target'[j].repo = target[j].repo

\* Most steps are of that kind.
LEMMA KeepsJobs ==
  ASSUME TypeOK, NEW r \in Runners,
         \/ Begin(r) \/ Lookup(r) \/ PublishFile(r) \/ SelectOld(r) \/ DeleteFile(r)
         \/ DeleteRows(r) \/ RetentionFails(r) \/ Fails(r) \/ Crash(r) \/ Restart(r)
  PROVE  JobsKept
  <1>1. CASE DeleteRows(r)
    BY <1>1 DEF DeleteRows, JobsKept, TypeOK, Target
  <1>2. QED
    BY <1>1 DEF Begin, Lookup, PublishFile, SelectOld, DeleteFile, RetentionFails, Fails,
                Crash, Restart, database, JobsKept

\* A step of a runner that writes the row of the job it holds.
WritesRow(r, j) ==
  /\ held[r] = j
  /\ \/ jobs' = [jobs EXCEPT ![j] = RenewLease(@)]
     \/ jobs' = [jobs EXCEPT ![j] = SucceedRow(@)]
     \/ \E transient \in BOOLEAN :
          LET row == FailOrRetryRow(jobs[j], transient, MaxAttempts) IN
          /\ jobs' = [jobs EXCEPT ![j] = row]
          /\ Active(row) => ActiveOf(target[j].repo) \ {j} = {}
  /\ \A k \in Jobs : target'[k].repo = target[k].repo

\* The other steps of a runner write at most the row of the job in its hands.
LEMMA WriterSteps ==
  ASSUME TypeOK, NEW r \in Runners,
         \/ Resolve(r) \/ Download(r) \/ ReuseSnapshot(r) \/ RecordSnapshot(r) \/ fail_or_retry(r)
  PROVE  JobsKept \/ \E j \in Jobs : WritesRow(r, j)
  <1>1. PICK j \in Jobs : j = held[r]
    BY DEF Resolve, Download, ReuseSnapshot, RecordSnapshot, fail_or_retry, TypeOK, WorkPcs, CommitPcs
  <1>2. CASE Resolve(r) \/ Download(r)
    BY <1>1, <1>2 DEF Resolve, Download, WritesRow
  <1>3. CASE ReuseSnapshot(r) \/ RecordSnapshot(r)
    <2>1. CASE succeed(held[r], sha[r])
      <3>1. \A k \in Jobs : target'[k].repo = target[k].repo
        BY <1>1, <2>1 DEF succeed, TypeOK, Target
      <3>2. QED
        BY <1>1, <2>1, <3>1 DEF succeed, WritesRow
    <2>2. CASE UNCHANGED <<jobs, target>>
      BY <2>2 DEF JobsKept
    <2>3. QED
      BY <1>3, <2>1, <2>2 DEF ReuseSnapshot, RecordSnapshot
  <1>4. CASE fail_or_retry(r)
    <2> DEFINE transient == (pc[r] = "retrying")
    <2>1. transient \in BOOLEAN /\ target' = target
      BY <1>4 DEF fail_or_retry
    <2>2. CASE UNCHANGED jobs
      BY <2>1, <2>2 DEF JobsKept
    <2>3. CASE LET row == FailOrRetryRow(jobs[j], transient, MaxAttempts) IN
               /\ jobs' = [jobs EXCEPT ![j] = row]
               /\ Active(row) => ActiveOf(target[j].repo) \ {j} = {}
      <3> HIDE DEF transient
      <3>1. QED
        BY <1>1, <2>1, <2>3 DEF WritesRow
    <2>4. QED
      BY <1>1, <1>4, <2>2, <2>3 DEF fail_or_retry
  <1>5. QED
    BY <1>2, <1>3, <1>4

\* One active job for a repository survives every step, those of zombies too.
LEMMA OneActiveNext ==
  ASSUME TypeOK, OneActivePerRepository, [Next]_vars
  PROVE  OneActivePerRepository'
  <1>1. ASSUME NEW p \in Repos, NEW m \in Selections, enqueue_ingestion(p, m)
        PROVE  OneActivePerRepository'
    <2>1. PICK j \in Jobs :
            /\ jobs' = [jobs EXCEPT ![j] = QueuedJob]
            /\ target' = [target EXCEPT ![j] = [repo |-> p, selection |-> m, snapshot |-> None]]
      BY <1>1 DEF enqueue_ingestion
    <2>2. \A k \in Jobs : ~(Active(jobs[k]) /\ target[k].repo = p)
      BY <1>1 DEF enqueue_ingestion, ActiveOf
    <2>3. \A k \in Jobs \ {j} : jobs'[k] = jobs[k] /\ target'[k] = target[k]
      BY <2>1 DEF TypeOK
    <2>4. target'[j].repo = p
      BY <2>1 DEF TypeOK
    <2>5. QED
      BY <2>2, <2>3, <2>4 DEF OneActivePerRepository
  <1>2. ASSUME NEW r \in Runners, claim_next(r) PROVE OneActivePerRepository'
    <2>1. \A j \in Jobs : Active(jobs'[j]) => Active(jobs[j])
      BY <1>2 DEF claim_next, RequeueExpired, Claimable, Active, TypeOK
    <2>2. target' = target
      BY <1>2 DEF claim_next
    <2>3. QED
      BY <2>1, <2>2 DEF OneActivePerRepository
  <1>3. ASSUME JobsKept PROVE OneActivePerRepository'
    BY <1>3 DEF JobsKept, OneActivePerRepository
  <1>4. ASSUME NEW r \in Runners, NEW j \in Jobs, WritesRow(r, j) PROVE OneActivePerRepository'
    <2>1. \A k \in Jobs \ {j} : jobs'[k] = jobs[k]
      BY <1>4 DEF WritesRow, TypeOK
    <2>2. ASSUME Active(jobs'[j])
          PROVE  Active(jobs[j]) \/ ActiveOf(target[j].repo) \ {j} = {}
      <3>1. jobs[j] \in JobRow /\ j \in DOMAIN jobs
        BY DEF TypeOK
      <3>2. CASE jobs' = [jobs EXCEPT ![j] = RenewLease(@)]
        BY <2>2, <3>1, <3>2 DEF RenewLease, Active, JobRow
      <3>3. CASE jobs' = [jobs EXCEPT ![j] = SucceedRow(@)]
        <4>1. jobs'[j].status = "succeeded"
          BY <3>1, <3>3 DEF SucceedRow, JobRow
        <4>2. QED
          BY <2>2, <4>1 DEF Active
      <3>4. ASSUME NEW row, jobs' = [jobs EXCEPT ![j] = row],
                   Active(row) => ActiveOf(target[j].repo) \ {j} = {}
            PROVE  ActiveOf(target[j].repo) \ {j} = {}
        <4>1. jobs'[j] = row
          BY <3>1, <3>4
        <4>2. QED
          BY <2>2, <3>4, <4>1
      <3>5. QED
        BY <1>4, <3>2, <3>3, <3>4 DEF WritesRow
    <2>3. \A k \in Jobs : target'[k].repo = target[k].repo
      BY <1>4 DEF WritesRow
    <2>4. QED
      BY <2>1, <2>2, <2>3 DEF OneActivePerRepository, ActiveOf
  <1>5. ASSUME NEW j \in Jobs, LeaseExpires(j) \/ BackoffElapses(j) PROVE OneActivePerRepository'
    <2>1. \A k \in Jobs : jobs'[k].status = jobs[k].status
      <3>1. CASE LeaseExpires(j)
        BY <3>1 DEF LeaseExpires, TypeOK, JobRow
      <3>2. CASE BackoffElapses(j)
        BY <3>2 DEF BackoffElapses, TypeOK, JobRow
      <3>3. QED
        BY <1>5, <3>1, <3>2
    <2>2. target' = target
      BY <1>5 DEF LeaseExpires, BackoffElapses
    <2>3. QED
      BY <2>1, <2>2 DEF OneActivePerRepository, Active
  <1>6. ASSUME (\E c \in Commits : ChunkingStep(c) \/ ChunkingSucceeds(c)) \/ UNCHANGED vars
        PROVE  JobsKept
    BY <1>6 DEF ChunkingStep, ChunkingSucceeds, vars, database, JobsKept
  <1>7. QED
    BY <1>1, <1>2, <1>3, <1>4, <1>5, <1>6, KeepsJobs, WriterSteps DEF Next, Step

\* A repository never has two queued or running jobs, even when runners whose
\* lease ran out write to jobs that others have claimed: the unique index holds
\* because every write that could break it is rejected.
THEOREM OneActive == Spec => []OneActivePerRepository
  <1>1. Init => OneActivePerRepository
    BY DEF Init, OneActivePerRepository, Active, AbsentJob
  <1>2. TypeOK /\ OneActivePerRepository /\ [Next]_vars => OneActivePerRepository'
    BY OneActiveNext
  <1>3. QED
    BY <1>1, <1>2, TypeCorrect, PTL DEF Spec

-----------------------------------------------------------------------------
(* How often a job is attempted, whatever the leases do.                   *)

\* A job that waits for an attempt, or is about to be queued again, can still be
\* attempted once within the bound.
Attempts(job, bound) ==
  /\ job.attempts <= bound
  /\ job.status = "queued" \/ (job.status = "running" /\ job.lease = "expired")
       => job.attempts < bound

AllAttempts == \A j \in Jobs : Attempts(jobs[j], MaxAttempts + expiries)

\* The five updates of a row keep to the bound.
LEMMA AttemptsOfRows ==
  ASSUME NEW job \in JobRow, NEW bound \in Nat, bound >= MaxAttempts, Attempts(job, bound)
  PROVE  /\ Attempts(RequeueExpired(job), bound)
         /\ Claimable(job) => Attempts(ClaimRow(job), bound)
         /\ Attempts(RenewLease(job), bound)
         /\ Attempts(SucceedRow(job), bound)
         /\ \A transient \in BOOLEAN :
              Attempts(FailOrRetryRow(job, transient, MaxAttempts), bound)
  <1> USE SettingsAssumption DEF JobRow, Attempts
  <1>1. Attempts(RequeueExpired(job), bound)
    BY DEF RequeueExpired
  <1>2. Claimable(job) => Attempts(ClaimRow(job), bound)
    BY DEF Claimable, ClaimRow
  <1>3. Attempts(RenewLease(job), bound) /\ Attempts(SucceedRow(job), bound)
    BY DEF RenewLease, SucceedRow
  <1>4. ASSUME NEW transient \in BOOLEAN
        PROVE  Attempts(FailOrRetryRow(job, transient, MaxAttempts), bound)
    <2>1. CASE transient /\ job.attempts < MaxAttempts
      BY <2>1 DEF FailOrRetryRow
    <2>2. CASE ~(transient /\ job.attempts < MaxAttempts)
      BY <2>2 DEF FailOrRetryRow
    <2>3. QED
      BY <2>1, <2>2
  <1>5. QED
    BY <1>1, <1>2, <1>3, <1>4

\* Only a lease that expires moves the bound, and it takes one attempt for it.
LEMMA AttemptsNext ==
  ASSUME TypeOK, AllAttempts, [Next]_vars
  PROVE  AllAttempts'
  <1> DEFINE bound == MaxAttempts + expiries
  <1>0. bound \in Nat /\ bound >= MaxAttempts /\ \A j \in Jobs : jobs[j] \in JobRow
    BY SettingsAssumption DEF TypeOK
  <1>1. ASSUME JobsKept, expiries' = expiries PROVE AllAttempts'
    BY <1>1 DEF JobsKept, AllAttempts
  <1>2. ASSUME NEW r \in Runners, NEW j \in Jobs, WritesRow(r, j), expiries' = expiries
        PROVE  AllAttempts'
    <2> HIDE DEF bound
    <2>1. \A k \in Jobs \ {j} : jobs'[k] = jobs[k]
      BY <1>2 DEF WritesRow, TypeOK
    <2>2. \/ jobs'[j] = RenewLease(jobs[j]) \/ jobs'[j] = SucceedRow(jobs[j])
          \/ \E transient \in BOOLEAN : jobs'[j] = FailOrRetryRow(jobs[j], transient, MaxAttempts)
      BY <1>2 DEF WritesRow, TypeOK
    <2>3. Attempts(jobs[j], bound)
      BY DEF AllAttempts, bound
    <2>4. Attempts(jobs'[j], bound)
      BY <1>0, <2>2, <2>3, AttemptsOfRows
    <2>5. QED
      BY <1>2, <2>1, <2>4 DEF AllAttempts, bound
  <1>3. ASSUME NEW p \in Repos, NEW m \in Selections, enqueue_ingestion(p, m) PROVE AllAttempts'
    <2>1. PICK j \in Jobs : jobs' = [jobs EXCEPT ![j] = QueuedJob]
      BY <1>3 DEF enqueue_ingestion
    <2>2. Attempts(QueuedJob, bound)
      BY SettingsAssumption DEF QueuedJob, Attempts, TypeOK
    <2>3. expiries' = expiries
      BY <1>3 DEF enqueue_ingestion, counters
    <2>4. QED
      BY <2>1, <2>2, <2>3 DEF AllAttempts, TypeOK
  <1>4. ASSUME NEW r \in Runners, claim_next(r) PROVE AllAttempts'
    <2> DEFINE requeued == [j \in Jobs |-> RequeueExpired(jobs[j])]
    <2>1. \A j \in Jobs : requeued[j] \in JobRow /\ Attempts(requeued[j], bound)
      BY <1>0, AttemptsOfRows, RowTypes DEF AllAttempts
    <2>2. expiries' = expiries
      BY <1>4 DEF claim_next, counters
    <2>3. CASE jobs' = requeued
      BY <2>1, <2>2, <2>3 DEF AllAttempts
    <2>4. ASSUME NEW j \in Jobs, Claimable(requeued[j]),
                 jobs' = [requeued EXCEPT ![j] = ClaimRow(requeued[j])]
          PROVE  AllAttempts'
      <3>1. Attempts(ClaimRow(requeued[j]), bound)
        BY <1>0, <2>1, <2>4, AttemptsOfRows
      <3>2. DOMAIN requeued = Jobs
        OBVIOUS
      <3> HIDE DEF requeued
      <3>3. \A k \in Jobs : Attempts(jobs'[k], bound)
        BY <2>1, <2>4, <3>1, <3>2
      <3>4. QED
        BY <2>2, <3>3 DEF AllAttempts
    <2>5. QED
      BY <1>4, <2>3, <2>4 DEF claim_next
  <1>5. ASSUME NEW j \in Jobs, LeaseExpires(j) PROVE AllAttempts'
    <2>1. /\ jobs' = [jobs EXCEPT ![j] = [jobs[j] EXCEPT !.lease = "expired"]]
          /\ expiries' = expiries + 1
      BY <1>5 DEF LeaseExpires
    <2>2. [jobs[j] EXCEPT !.lease = "expired"].attempts = jobs[j].attempts
      BY <1>0 DEF JobRow
    <2>3. \A k \in Jobs : jobs'[k].attempts = jobs[k].attempts
      BY <2>1, <2>2 DEF TypeOK
    <2>4. \A k \in Jobs : jobs[k].attempts \in Nat /\ jobs[k].attempts <= bound
      BY <1>0 DEF AllAttempts, Attempts, JobRow
    <2>5. QED
      BY <1>0, <2>1, <2>3, <2>4, SettingsAssumption DEF AllAttempts, Attempts, TypeOK
  <1>6. ASSUME NEW j \in Jobs, BackoffElapses(j) PROVE AllAttempts'
    <2>1. /\ jobs' = [jobs EXCEPT ![j] = [jobs[j] EXCEPT !.backoff = FALSE]]
          /\ expiries' = expiries
      BY <1>6 DEF BackoffElapses, counters
    <2>2. Attempts([jobs[j] EXCEPT !.backoff = FALSE], bound)
      BY <1>0 DEF AllAttempts, Attempts, JobRow
    <2>3. QED
      BY <2>1, <2>2 DEF AllAttempts, TypeOK
  <1>7. ASSUME NEW r \in Runners, Step(r) \/ Crash(r) \/ Restart(r) PROVE expiries' = expiries
    BY <1>7 DEF Step, claim_next, Begin, Resolve, Lookup, ReuseSnapshot, Download, PublishFile,
                RecordSnapshot, SelectOld, DeleteFile, DeleteRows, RetentionFails, Fails,
                fail_or_retry, Crash, Restart, counters
  <1>8. ASSUME (\E c \in Commits : ChunkingStep(c) \/ ChunkingSucceeds(c)) \/ UNCHANGED vars
        PROVE  JobsKept /\ expiries' = expiries
    BY <1>8 DEF ChunkingStep, ChunkingSucceeds, vars, database, counters, JobsKept
  <1>9. QED
    BY <1>1, <1>2, <1>3, <1>4, <1>5, <1>6, <1>7, <1>8, KeepsJobs, WriterSteps DEF Next, Step

\* Without an expired lease a job is attempted ingestion_max_attempts times at most,
\* and each expired lease adds one attempt (_fail_or_retry, claim_next).
THEOREM Bounded == Spec => []AttemptsBounded
  <1>1. Init => AllAttempts
    BY SettingsAssumption DEF Init, AllAttempts, Attempts, AbsentJob
  <1>2. TypeOK /\ AllAttempts /\ [Next]_vars => AllAttempts'
    BY AttemptsNext
  <1>3. AllAttempts => AttemptsBounded
    BY DEF AllAttempts, Attempts, AttemptsBounded
  <1>4. QED
    BY <1>1, <1>2, <1>3, TypeCorrect, PTL DEF Spec

-----------------------------------------------------------------------------
(* The rows of the later stages, whatever the leases do.                   *)

\* A set of jobs has a latest one.
LEMMA LatestJob ==
  ASSUME NEW S \in SUBSET Jobs, S # {}
  PROVE  \E j \in S : \A k \in S : k <= j
  <1> DEFINE after(j) == {k \in Jobs : k > j}
             T == {after(j) : j \in S}
  <1>1. T \subseteq FiniteSubsetsOf(Jobs) /\ T # {}
    <2>1. IsFiniteSet(Jobs)
      BY FS_Interval, BoundsAssumption DEF Jobs
    <2>2. \A j \in S : after(j) \in SUBSET Jobs
      OBVIOUS
    <2>3. \A j \in S : IsFiniteSet(after(j))
      BY <2>1, <2>2, FS_Subset
    <2> HIDE DEF after
    <2>4. QED
      BY <2>2, <2>3 DEF FiniteSubsetsOf
  <1>2. PICK x \in T : \A y \in T : ~ (<<y, x>> \in StrictSubsetOrdering(Jobs))
    BY <1>1, WFMin, FS_StrictSubsetOrderingWellFounded
  <1>3. PICK j \in S : x = after(j)
    BY <1>2
  <1>4. ASSUME NEW k \in S, k > j PROVE FALSE
    <2>1. after(k) \subseteq after(j) /\ after(k) # after(j)
      <3>1. k \in after(j) /\ k \notin after(k)
        BY <1>4, BoundsAssumption DEF Jobs
      <3>2. \A l \in Jobs : l > k => l > j
        BY <1>4, BoundsAssumption DEF Jobs
      <3>3. QED
        BY <3>1, <3>2
    <2>2. <<after(k), after(j)>> \in StrictSubsetOrdering(Jobs)
      BY <2>1 DEF StrictSubsetOrdering
    <2>3. QED
      BY <1>2, <1>3, <2>2
  <1>5. QED
    BY <1>4, BoundsAssumption DEF Jobs

\* A publication always hands some selection to the embedding stage.
LEMMA SomeSelection ==
  ASSUME NEW c \in Commits
  PROVE  LatestSelection(c) # {}
  <1> DEFINE owners == {j \in Jobs : target[j].snapshot = c}
  <1>1. CASE owners = {}
    BY <1>1 DEF LatestSelection
  <1>2. CASE owners # {}
    BY <1>2, LatestJob DEF LatestSelection
  <1>3. QED
    BY <1>1, <1>2

\* A runner that reuses a snapshot has seen its row.
RowSeen == \A r \in Runners : pc[r] = "reusing" => seen[r].created > 0

StagesInv == StagesFollowSnapshot /\ ChunkedIsEmbedded /\ RowSeen

\* Every step keeps the rows of the later stages in line with the snapshots.
LEMMA StagesNext ==
  ASSUME TypeOK, StagesInv, [Next]_vars
  PROVE  StagesInv'
  <1> USE DEF TypeOK, StagesInv
  <1>1. ASSUME UNCHANGED <<created, chunking, embedding>>,
               \A r \in Runners : pc'[r] = "reusing" => pc[r] = "reusing" /\ seen'[r] = seen[r]
        PROVE  StagesInv'
    BY <1>1 DEF StagesFollowSnapshot, ChunkedIsEmbedded, RowSeen
  <1>2. ASSUME NEW r \in Runners, Lookup(r) PROVE StagesInv'
    <2>1. UNCHANGED <<created, chunking, embedding>>
      BY <1>2 DEF Lookup, database
    <2>2. \A q \in Runners : pc'[q] = "reusing" => seen'[q].created > 0
      BY <1>2 DEF Lookup, RowSeen, CommitPcs
    <2>3. QED
      BY <2>1, <2>2 DEF StagesFollowSnapshot, ChunkedIsEmbedded, RowSeen
  <1>3. ASSUME NEW r \in Runners, ReuseSnapshot(r) PROVE StagesInv'
    <2> DEFINE c == sha[r]
    <2>1. RowSeen'
      BY <1>3 DEF ReuseSnapshot, RowSeen, Release
    <2>2. CASE created[c] = seen[r].created
      <3>1. c \in Commits /\ created[c] > 0 /\ created' = created
        BY <1>3, <2>2 DEF ReuseSnapshot, RowSeen, CommitPcs
      <3>2. /\ \A d \in Commits : chunking'[d] = chunking[d] \/ (d = c /\ chunking'[d] = "queued")
            /\ \A d \in Commits : embedding[d] \subseteq embedding'[d]
            /\ \A d \in Commits : d # c => embedding'[d] = embedding[d]
        <4>1. chunking' = [chunking EXCEPT ![c] = "queued"] \/ chunking' = chunking
          BY <1>3, <2>2 DEF ReuseSnapshot
        <4>2. \/ embedding' = [embedding EXCEPT ![c] = @ \union {target[held[r]].selection}]
              \/ embedding' = embedding
          BY <1>3, <2>2 DEF ReuseSnapshot
        <4> HIDE DEF c
        <4>3. \A d \in Commits : chunking'[d] = chunking[d] \/ (d = c /\ chunking'[d] = "queued")
          BY <3>1, <4>1
        <4>4. /\ \A d \in Commits : embedding[d] \subseteq embedding'[d]
              /\ \A d \in Commits : d # c => embedding'[d] = embedding[d]
          <5>1. PICK m : embedding' = [embedding EXCEPT ![c] = @ \union m] \/ embedding' = embedding
            BY <4>2
          <5>2. ASSUME NEW d \in Commits
                PROVE  embedding'[d] = embedding[d] \/ (d = c /\ embedding'[d] = embedding[d] \union m)
            <6>1. DOMAIN embedding = Commits
              OBVIOUS
            <6>2. QED
              BY <3>1, <5>1, <5>2, <6>1
          <5>3. QED
            BY <5>2
        <4>5. QED
          BY <4>3, <4>4
      <3>3. QED
        BY <2>1, <3>1, <3>2 DEF StagesFollowSnapshot, ChunkedIsEmbedded
    <2>3. CASE created[c] # seen[r].created
      BY <1>3, <2>1, <2>3 DEF ReuseSnapshot, StagesFollowSnapshot, ChunkedIsEmbedded
    <2>4. QED
      BY <2>2, <2>3
  <1>4. ASSUME NEW r \in Runners, RecordSnapshot(r) PROVE StagesInv'
    <2>1. RowSeen'
      BY <1>4 DEF RecordSnapshot, RowSeen
    <2>2. QED
      BY <1>4, <2>1 DEF RecordSnapshot, CommitPcs, StagesFollowSnapshot, ChunkedIsEmbedded
  <1>5. ASSUME NEW r \in Runners, DeleteRows(r) PROVE StagesInv'
    <2>1. RowSeen'
      BY <1>5 DEF DeleteRows, RowSeen, Release
    <2>2. QED
      BY <1>5, <2>1 DEF DeleteRows, StagesFollowSnapshot, ChunkedIsEmbedded
  <1>6. ASSUME NEW c \in Commits, ChunkingStep(c) PROVE StagesInv'
    BY <1>6 DEF ChunkingStep, runnerVars, StagesFollowSnapshot, ChunkedIsEmbedded, RowSeen
  <1>7. ASSUME NEW c \in Commits, ChunkingSucceeds(c) PROVE StagesInv'
    <2>1. created[c] > 0
      BY <1>7 DEF ChunkingSucceeds, StagesFollowSnapshot
    <2>2. QED
      BY <1>7, <2>1, SomeSelection
         DEF ChunkingSucceeds, runnerVars, StagesFollowSnapshot, ChunkedIsEmbedded, RowSeen
  <1>8. ASSUME NEW r \in Runners,
               \/ claim_next(r) \/ Begin(r) \/ Resolve(r) \/ Download(r) \/ PublishFile(r)
               \/ SelectOld(r) \/ DeleteFile(r) \/ RetentionFails(r) \/ Fails(r)
               \/ fail_or_retry(r) \/ Crash(r) \/ Restart(r)
        PROVE  StagesInv'
    <2>1. UNCHANGED <<created, chunking, embedding>>
      BY <1>8 DEF claim_next, Begin, Resolve, Download, PublishFile, SelectOld, DeleteFile,
                  RetentionFails, Fails, fail_or_retry, Crash, Restart, database
    <2>2. \A q \in Runners : pc'[q] = "reusing" => pc[q] = "reusing" /\ seen'[q] = seen[q]
      BY <1>8 DEF claim_next, Begin, Resolve, Download, PublishFile, SelectOld, DeleteFile,
                  RetentionFails, Fails, fail_or_retry, Crash, Restart, Release, Dies
    <2>3. QED
      BY <1>1, <2>1, <2>2
  <1>9. ASSUME \/ \E p \in Repos, m \in Selections : enqueue_ingestion(p, m)
               \/ \E j \in Jobs : LeaseExpires(j) \/ BackoffElapses(j)
               \/ UNCHANGED vars
        PROVE  StagesInv'
    BY <1>1, <1>9 DEF enqueue_ingestion, LeaseExpires, BackoffElapses, vars, database, runnerVars
  <1>10. QED
    BY <1>2, <1>3, <1>4, <1>5, <1>6, <1>7, <1>8, <1>9 DEF Next, Step

\* The invariant behind the two theorems that follow.
LEMMA Stages == Spec => []StagesInv
  <1>1. Init => StagesInv
    BY DEF Init, StagesInv, StagesFollowSnapshot, ChunkedIsEmbedded, RowSeen
  <1>2. TypeOK /\ StagesInv /\ [Next]_vars => StagesInv'
    BY StagesNext
  <1>3. QED
    BY <1>1, <1>2, TypeCorrect, PTL DEF Spec

\* A snapshot has a chunking job as long as its row exists, and nothing of it is left
\* when retention has deleted the row (process, _enforce_retention).
THEOREM Followed == Spec => []StagesFollowSnapshot
  BY Stages, PTL DEF StagesInv

\* What chunking has finished has an embedding job (chunking.py _publish and the
\* existing-snapshot branch of process).
THEOREM Handed == Spec => []ChunkedIsEmbedded
  BY Stages, PTL DEF StagesInv
-----------------------------------------------------------------------------
(* Retention, with one runner: nobody publishes while it deletes.          *)

Recorded == {c \in Commits : created[c] > 0}

\* A row without its files is one that retention was after, and is again.
BrokenIsOld == \A c \in Recorded : files[c] # Parts => Cardinality(Newer(c)) >= Retention

Publishing ==
  \A r \in Runners : /\ pc[r] = "halfway" => "archive" \in files[sha[r]]
                     /\ pc[r] = "published" => files[sha[r]] = Parts

\* Retention is after the outdated rows of a repository, and the files of those.
Deletes(r, p) == /\ doomed[r] = {<<c, created[c]>> : c \in Outdated(p)}
                 /\ \A u \in unlinks[r] : u[1] \in Outdated(p)

Deleting == \A r \in Runners : pc[r] = "deleting" => \E p : Deletes(r, p)

RetentionInv == IsFiniteSet(Recorded) /\ BrokenIsOld /\ Publishing /\ Deleting

RetentionStep ==
  \A p \in Repos : Intact(p) \subseteq Intact(p)' \/ Cardinality(Intact(p)') >= Retention

\* When a row is outdated, the rows that are not are Retention many at least: all
\* that are newer than the newest outdated one.
LEMMA EnoughRemain ==
  ASSUME TypeOK, IsFiniteSet(Recorded), NEW p, NEW c \in Outdated(p)
  PROVE  LET current == Rows(p) \ Outdated(p)
         IN  IsFiniteSet(current) /\ Cardinality(current) >= Retention
  <1> DEFINE current == Rows(p) \ Outdated(p)
             T == {Newer(d) : d \in Outdated(p)}
  <1>1. \A d \in Outdated(p) : d \in Rows(p) /\ RepoOf[d] = p
    BY DEF Outdated, Rows
  <1>2. Rows(p) \subseteq Recorded
    BY DEF Rows, Recorded
  <1>3. IsFiniteSet(Rows(p)) /\ IsFiniteSet(current)
    BY <1>2, FS_Subset
  <1>4. \A d \in Outdated(p) : Newer(d) \subseteq Rows(p) /\ IsFiniteSet(Newer(d))
    BY <1>1, <1>3, FS_Subset DEF Newer
  <1>5. T \subseteq FiniteSubsetsOf(Rows(p)) /\ T # {}
    BY <1>4 DEF FiniteSubsetsOf
  <1>6. PICK x \in T : \A y \in T : ~ (<<y, x>> \in StrictSubsetOrdering(Rows(p)))
    BY <1>5, WFMin, FS_StrictSubsetOrderingWellFounded
  <1>7. PICK d \in Outdated(p) : x = Newer(d)
    BY <1>6
  <1>8. ASSUME NEW e \in Newer(d), e \in Outdated(p) PROVE FALSE
    <2>1. /\ e \in Commits /\ d \in Commits /\ created[e] > created[d]
          /\ RepoOf[e] = p /\ RepoOf[d] = p
      BY <1>1, <1>8 DEF Newer, Rows, TypeOK
    <2>2. Newer(e) \subseteq Newer(d)
      BY <1>8, <2>1 DEF Newer, Rows, TypeOK
    <2>3. e \notin Newer(e)
      BY <1>8, <2>1 DEF Newer, TypeOK
    <2>4. <<Newer(e), Newer(d)>> \in StrictSubsetOrdering(Rows(p))
      BY <1>4, <1>8, <2>2, <2>3 DEF StrictSubsetOrdering
    <2>5. QED
      BY <1>6, <1>7, <1>8, <2>4
  <1>9. Newer(d) \subseteq current
    BY <1>4, <1>8
  <1>10. Cardinality(Newer(d)) <= Cardinality(current)
    BY <1>3, <1>9, FS_Subset
  <1>11. Cardinality(Newer(d)) >= Retention
    BY DEF Outdated
  <1>12. Cardinality(Newer(d)) \in Nat /\ Cardinality(current) \in Nat
    BY <1>3, <1>4, FS_CardinalityType
  <1>13. QED
    BY <1>3, <1>10, <1>11, <1>12, SettingsAssumption

\* What is not outdated is intact, so that enough of it is left when files and rows of
\* outdated snapshots go.
LEMMA EnoughIntact ==
  ASSUME TypeOK, RetentionInv, TypeOK', IsFiniteSet(Recorded)', NEW p, Outdated(p) # {},
         Rows(p) \ Outdated(p) \subseteq Intact(p)'
  PROVE  Cardinality(Intact(p)') >= Retention
  <1> DEFINE current == Rows(p) \ Outdated(p)
  <1>1. IsFiniteSet(current) /\ Cardinality(current) >= Retention
    BY EnoughRemain DEF RetentionInv
  <1>2. Intact(p)' \subseteq Recorded'
    BY DEF Intact, Rows, Recorded
  <1>3. IsFiniteSet(Intact(p)')
    BY <1>2, FS_Subset
  <1> HIDE DEF current
  <1>4. Cardinality(current) <= Cardinality(Intact(p)')
    BY <1>3, FS_Subset DEF current
  <1>5. Cardinality(current) \in Nat /\ Cardinality(Intact(p)') \in Nat
    BY <1>1, <1>3, FS_CardinalityType
  <1>6. QED
    BY <1>1, <1>4, <1>5, SettingsAssumption

\* Rows that are not outdated have their files.
LEMMA CurrentIntact ==
  ASSUME TypeOK, RetentionInv, NEW p
  PROVE  Rows(p) \ Outdated(p) \subseteq Intact(p)
  BY DEF RetentionInv, BrokenIsOld, Outdated, Rows, Intact, Recorded

\* Nothing is published or deleted.
LEMMA RetentionFrame ==
  ASSUME RetentionInv, UNCHANGED <<created, files>>,
         \A r \in Runners : pc'[r] \in {"halfway", "published", "deleting"} =>
           pc'[r] = pc[r] /\ sha'[r] = sha[r] /\ doomed'[r] = doomed[r] /\ unlinks'[r] = unlinks[r]
  PROVE  RetentionInv' /\ RetentionStep
  <1>1. Recorded' = Recorded /\ BrokenIsOld'
    BY DEF RetentionInv, BrokenIsOld, Recorded, Newer, Rows
  <1>2. Publishing'
    BY DEF RetentionInv, Publishing
  <1>3. ASSUME NEW r \in Runners, pc'[r] = "deleting" PROVE \E p : Deletes(r, p)'
    <2>1. PICK p : Deletes(r, p)
      BY <1>3 DEF RetentionInv, Deleting
    <2>2. Deletes(r, p)'
      BY <1>3, <2>1, ZenonT(60) DEF Deletes, Outdated, Newer, Rows
    <2>3. QED
      BY <2>2
  <1>4. RetentionStep
    BY DEF RetentionStep, Intact, Rows
  <1>5. QED
    BY <1>1, <1>2, <1>3, <1>4 DEF RetentionInv, Deleting

-----------------------------------------------------------------------------
OneRunner == \A r, s \in Runners : r = s

LEMMA PublishKeeps ==
  ASSUME TypeOK, RetentionInv, NEW r \in Runners, OneRunner, PublishFile(r)
  PROVE  RetentionInv' /\ RetentionStep
  <1>1. sha[r] \in Commits /\ created' = created /\ sha' = sha
    BY DEF PublishFile, database, TypeOK, CommitPcs
  <1>2. PICK f \in Parts : files' = [files EXCEPT ![sha[r]] = @ \union {f}]
    BY DEF PublishFile, Parts
  <1>3. \A c \in Commits : files[c] = Parts => files'[c] = Parts
    BY <1>1, <1>2 DEF TypeOK
  <1>4. Recorded' = Recorded /\ BrokenIsOld'
    BY <1>1, <1>3 DEF RetentionInv, BrokenIsOld, Recorded, Newer, Rows
  <1>5. pc'[r] \in {"halfway", "published"}
    BY DEF PublishFile, TypeOK
  <1>6. Publishing'
    <2>1. CASE pc[r] = "publishing"
      <3>1. "archive" \in files'[sha[r]] /\ pc'[r] = "halfway"
        BY <1>1, <2>1 DEF PublishFile, TypeOK
      <3>2. QED
        BY <1>1, <3>1 DEF OneRunner, Publishing
    <2>2. CASE pc[r] = "halfway"
      <3>1. files'[sha[r]] = Parts /\ pc'[r] = "published"
        BY <1>1, <2>2 DEF PublishFile, RetentionInv, Publishing, TypeOK, Parts
      <3>2. QED
        BY <1>1, <3>1 DEF OneRunner, Publishing
    <2>3. QED
      BY <2>1, <2>2 DEF PublishFile
  <1>7. Deleting'
    BY <1>5 DEF OneRunner, Deleting
  <1>8. RetentionStep
    BY <1>1, <1>3 DEF RetentionStep, Intact, Rows
  <1>9. QED
    BY <1>4, <1>6, <1>7, <1>8 DEF RetentionInv

\* The new row has its files, and only makes the others older.
LEMMA RecordKeeps ==
  ASSUME TypeOK, RetentionInv, NEW r \in Runners, OneRunner, RecordSnapshot(r)
  PROVE  RetentionInv' /\ RetentionStep
  <1>1. CASE created[sha[r]] # 0
    <2>1. UNCHANGED <<created, files>> /\ pc'[r] = "retrying"
      BY <1>1 DEF RecordSnapshot, TypeOK
    <2>2. QED
      BY <2>1, RetentionFrame DEF OneRunner
  <1>2. CASE created[sha[r]] = 0
    <2> DEFINE c == sha[r]
    <2>1. /\ c \in Commits /\ files' = files /\ files[c] = Parts /\ pc'[r] = "pruning"
          /\ created' = [created EXCEPT ![c] = clock + 1]
      BY <1>2 DEF RecordSnapshot, TypeOK, CommitPcs, RetentionInv, Publishing
    <2>2. created'[c] > 0 /\ \A d \in Commits : d # c => created'[d] = created[d]
      BY <2>1 DEF TypeOK
    <2>3. Recorded' = Recorded \union {c}
      BY <2>1, <2>2 DEF Recorded
    <2>4. IsFiniteSet(Recorded')
      BY <2>3, FS_AddElement DEF RetentionInv
    <2>5. ASSUME NEW d \in Recorded', files'[d] # Parts
          PROVE  Cardinality(Newer(d)') >= Retention
      <3>1. d \in Recorded /\ d # c
        BY <2>1, <2>3, <2>5
      <3>2. Cardinality(Newer(d)) >= Retention
        BY <2>1, <2>5, <3>1 DEF RetentionInv, BrokenIsOld
      <3>3. Newer(d) \subseteq Newer(d)'
        BY <1>2, <2>1, <2>2, <3>1 DEF Newer, Rows, Recorded
      <3>4. Newer(d)' \subseteq Recorded'
        BY DEF Newer, Rows, Recorded
      <3>5. IsFiniteSet(Newer(d)')
        BY <2>4, <3>4, FS_Subset
      <3>6. /\ Cardinality(Newer(d)) <= Cardinality(Newer(d)') /\ IsFiniteSet(Newer(d))
        BY <3>3, <3>5, FS_Subset
      <3>7. Cardinality(Newer(d)) \in Nat /\ Cardinality(Newer(d)') \in Nat
        BY <3>5, <3>6, FS_CardinalityType
      <3>8. QED
        BY <3>2, <3>6, <3>7, SettingsAssumption
    <2>6. BrokenIsOld'
      BY <2>5 DEF BrokenIsOld
    <2>7. Publishing' /\ Deleting'
      BY <2>1 DEF OneRunner, Publishing, Deleting
    <2>8. RetentionStep
      BY <1>2, <2>1, <2>2 DEF RetentionStep, Intact, Rows
    <2>9. QED
      BY <2>4, <2>6, <2>7, <2>8 DEF RetentionInv
  <1>3. QED
    BY <1>1, <1>2

LEMMA SelectKeeps ==
  ASSUME TypeOK, RetentionInv, NEW r \in Runners, OneRunner, SelectOld(r)
  PROVE  RetentionInv' /\ RetentionStep
  <1> DEFINE p == target[held[r]].repo
  <1>1. UNCHANGED <<created, files, target, held>>
    BY DEF SelectOld, database
  <1>2. /\ pc'[r] = "deleting" /\ doomed'[r] = {<<c, created[c]>> : c \in Outdated(p)}
        /\ unlinks'[r] = Outdated(p) \X Parts
    BY DEF SelectOld, TypeOK
  <1>3. Recorded' = Recorded /\ BrokenIsOld'
    BY <1>1 DEF RetentionInv, BrokenIsOld, Recorded, Newer, Rows
  <1>4. Publishing'
    BY <1>2 DEF OneRunner, Publishing
  <1>5. Deletes(r, p)'
    <2>1. Outdated(p)' = Outdated(p)
      BY <1>1 DEF Outdated, Newer, Rows
    <2>2. QED
      BY <1>1, <1>2, <2>1 DEF Deletes
  <1>6. Deleting'
    BY <1>5 DEF OneRunner, Deleting
  <1>7. RetentionStep
    BY <1>1 DEF RetentionStep, Intact, Rows
  <1>8. QED
    BY <1>3, <1>4, <1>6, <1>7 DEF RetentionInv
\* A file that is unlinked is one of an outdated row.
LEMMA DeleteFileKeeps ==
  ASSUME TypeOK, TypeOK', RetentionInv, NEW r \in Runners, OneRunner, DeleteFile(r)
  PROVE  RetentionInv' /\ RetentionStep
  <1>1. PICK c \in Commits, part \in Parts :
          /\ <<c, part>> \in unlinks[r]
          /\ files' = [files EXCEPT ![c] = @ \ {part}]
          /\ unlinks' = [unlinks EXCEPT ![r] = @ \ {<<c, part>>}]
    BY DEF DeleteFile
  <1>2. pc[r] = "deleting" /\ UNCHANGED <<created, pc, sha, doomed>>
    BY DEF DeleteFile, database
  <1>3. PICK p : Deletes(r, p)
    BY <1>2 DEF RetentionInv, Deleting
  <1>4. c \in Outdated(p)
    BY <1>1, <1>3 DEF Deletes
  <1>5. \A d \in Commits \ {c} : files'[d] = files[d]
    BY <1>1 DEF TypeOK
  <1>6. Recorded' = Recorded /\ IsFiniteSet(Recorded)'
    BY <1>2 DEF RetentionInv, Recorded
  <1>7. BrokenIsOld'
    <2>1. Cardinality(Newer(c)) >= Retention
      BY <1>4 DEF Outdated
    <2>2. \A d \in Commits : Newer(d)' = Newer(d)
      BY <1>2 DEF Newer, Rows
    <2>3. QED
      BY <1>5, <1>6, <2>1, <2>2 DEF RetentionInv, BrokenIsOld, Recorded
  <1>8. Publishing'
    BY <1>2 DEF OneRunner, Publishing
  <1>9. Deletes(r, p)'
    <2>1. Outdated(p)' = Outdated(p)
      BY <1>2 DEF Outdated, Newer, Rows
    <2>2. unlinks'[r] \subseteq unlinks[r]
      BY <1>1 DEF TypeOK
    <2>3. QED
      BY <1>2, <1>3, <2>1, <2>2 DEF Deletes
  <1>10. Deleting'
    BY <1>9 DEF OneRunner, Deleting
  <1>11. ASSUME NEW q \in Repos
         PROVE  Intact(q) \subseteq Intact(q)' \/ Cardinality(Intact(q)') >= Retention
    <2>1. CASE q = p
      <3>1. Rows(p) \ Outdated(p) \subseteq Intact(p)
        BY CurrentIntact
      <3>2. Rows(p) \ Outdated(p) \subseteq Intact(p)'
        BY <1>2, <1>4, <1>5, <3>1 DEF Intact, Rows
      <3>3. QED
        BY <1>4, <1>6, <2>1, <3>2, EnoughIntact
    <2>2. CASE q # p
      BY <1>2, <1>4, <1>5, <2>2 DEF Intact, Rows, Outdated
    <2>3. QED
      BY <2>1, <2>2
  <1>12. QED
    BY <1>6, <1>7, <1>8, <1>10, <1>11 DEF RetentionInv, RetentionStep

\* The rows that go are the outdated ones of one repository.
LEMMA DeleteRowsKeeps ==
  ASSUME TypeOK, TypeOK', RetentionInv, NEW r \in Runners, OneRunner, DeleteRows(r)
  PROVE  RetentionInv' /\ RetentionStep
  <1> DEFINE gone == {c \in Commits : created[c] > 0 /\ <<c, created[c]>> \in doomed[r]}
  <1>1. /\ pc[r] = "deleting" /\ pc'[r] = "idle" /\ files' = files
        /\ created' = [c \in Commits |-> IF c \in gone THEN 0 ELSE created[c]]
    BY DEF DeleteRows, Release, TypeOK
  <1>2. PICK p : Deletes(r, p)
    BY <1>1 DEF RetentionInv, Deleting
  <1>3. gone = Outdated(p)
    BY <1>2 DEF Deletes, Outdated, Rows
  <1> HIDE DEF gone
  <1>4. \A c \in Commits : created'[c] = IF c \in Outdated(p) THEN 0 ELSE created[c]
    BY <1>1, <1>3
  <1>5. Recorded' \subseteq Recorded /\ IsFiniteSet(Recorded')
    <2>1. Recorded' \subseteq Recorded
      BY <1>4 DEF Recorded
    <2>2. QED
      BY <2>1, FS_Subset DEF RetentionInv
  <1>6. ASSUME NEW d \in Recorded', files'[d] # Parts
        PROVE  Cardinality(Newer(d)') >= Retention
    <2>1. d \in Recorded /\ d \notin Outdated(p)
      BY <1>4, <1>6 DEF Recorded
    <2>2. Cardinality(Newer(d)) >= Retention
      BY <1>1, <1>6, <2>1 DEF RetentionInv, BrokenIsOld
    <2>3. RepoOf[d] # p
      BY <2>1, <2>2 DEF Outdated, Rows, Recorded
    <2>4. Newer(d)' = Newer(d)
      BY <1>4, <2>1, <2>3 DEF Newer, Rows, Outdated, Recorded
    <2>5. QED
      BY <2>2, <2>4
  <1>7. BrokenIsOld'
    BY <1>6 DEF BrokenIsOld
  <1>8. Publishing' /\ Deleting'
    BY <1>1 DEF OneRunner, Publishing, Deleting
  <1>9. ASSUME NEW q \in Repos
        PROVE  Intact(q) \subseteq Intact(q)' \/ Cardinality(Intact(q)') >= Retention
    <2>1. CASE q = p /\ Outdated(p) # {}
      <3>1. Rows(p) \ Outdated(p) \subseteq Intact(p)
        BY CurrentIntact
      <3>2. Rows(p) \ Outdated(p) \subseteq Intact(p)'
        BY <1>1, <1>4, <3>1 DEF Intact, Rows
      <3>3. QED
        BY <1>5, <2>1, <3>2, EnoughIntact
    <2>2. CASE q # p \/ Outdated(p) = {}
      BY <1>1, <1>4, <2>2 DEF Intact, Rows, Outdated
    <2>3. QED
      BY <2>1, <2>2
  <1>10. QED
    BY <1>5, <1>7, <1>8, <1>9 DEF RetentionInv, RetentionStep

LEMMA RetentionNext ==
  ASSUME TypeOK, TypeOK', RetentionInv, OneRunner, [Next]_vars
  PROVE  RetentionInv' /\ RetentionStep
  <1> DEFINE Quiet == /\ UNCHANGED <<created, files>>
                      /\ \A r \in Runners : pc'[r] \in {"halfway", "published", "deleting"} =>
                           /\ pc'[r] = pc[r] /\ sha'[r] = sha[r]
                           /\ doomed'[r] = doomed[r] /\ unlinks'[r] = unlinks[r]
  <1>1. ASSUME NEW p \in Repos, NEW m \in Selections, enqueue_ingestion(p, m) PROVE Quiet
    BY <1>1 DEF enqueue_ingestion, runnerVars
  <1>2. ASSUME NEW j \in Jobs, LeaseExpires(j) \/ BackoffElapses(j) PROVE Quiet
    BY <1>2 DEF LeaseExpires, BackoffElapses, runnerVars
  <1>3. ASSUME NEW c \in Commits, ChunkingStep(c) \/ ChunkingSucceeds(c) PROVE Quiet
    BY <1>3 DEF ChunkingStep, ChunkingSucceeds, runnerVars
  <1>4. ASSUME NEW r \in Runners, Crash(r) \/ Restart(r) PROVE Quiet
    <2>1. UNCHANGED <<created, files>> /\ pc'[r] \in {"stopped", "idle"}
      BY <1>4 DEF Crash, Restart, database, TypeOK
    <2>2. QED
      BY <2>1 DEF OneRunner
  <1>5. ASSUME NEW r \in Runners, claim_next(r) PROVE Quiet
    <2>1. CASE UNCHANGED pc
      BY <1>5, <2>1 DEF claim_next
    <2>2. CASE pc' = [pc EXCEPT ![r] = "claimed"]
      BY <1>5, <2>2 DEF claim_next, OneRunner, TypeOK
    <2>3. QED
      BY <1>5, <2>1, <2>2 DEF claim_next
  <1>6. ASSUME NEW r \in Runners,
               Begin(r) \/ Resolve(r) \/ Lookup(r) \/ ReuseSnapshot(r) \/ Download(r)
        PROVE  Quiet
    <2>1. UNCHANGED <<created, files>>
      BY <1>6 DEF Begin, Resolve, Lookup, ReuseSnapshot, Download, database
    <2>2. pc'[r] \in {"resolving", "idle", "looking", "downloading", "reusing", "retrying",
                      "publishing"}
      BY <1>6 DEF Begin, Resolve, Lookup, ReuseSnapshot, Download, Release, TypeOK
    <2>3. QED
      BY <2>1, <2>2 DEF OneRunner
  <1>7. ASSUME NEW r \in Runners, RetentionFails(r) \/ Fails(r) \/ fail_or_retry(r) PROVE Quiet
    <2>1. UNCHANGED <<created, files>>
      BY <1>7 DEF RetentionFails, Fails, fail_or_retry, database
    <2>2. pc'[r] \in {"idle", "retrying", "failing", "dead"}
      BY <1>7 DEF RetentionFails, Fails, fail_or_retry, Release, Dies, TypeOK
    <2>3. QED
      BY <2>1, <2>2 DEF OneRunner
  <1>8. CASE UNCHANGED vars
    BY <1>8, RetentionFrame DEF vars, database, runnerVars
  <1>9. Quiet => RetentionInv' /\ RetentionStep
    BY RetentionFrame
  <1> HIDE DEF Quiet
  <1>10. QED
    BY <1>1, <1>2, <1>3, <1>4, <1>5, <1>6, <1>7, <1>8, <1>9, PublishKeeps, RecordKeeps,
       SelectKeeps, DeleteFileKeeps, DeleteRowsKeeps DEF Next, Step

\* With one runner, no step of retention takes a complete snapshot away unless
\* snapshot_retention_count complete ones remain, wherever the process was killed
\* before (_enforce_retention).  With two it is false: a slow retention can delete the
\* files of a snapshot that was pruned and ingested again in the meantime.
THEOREM Retained == ASSUME OneRunner PROVE Spec => RetentionKeeps
  <1>1. Init => RetentionInv
    <2>1. ASSUME Init PROVE Recorded = {}
      BY <2>1 DEF Init, Recorded
    <2>2. QED
      BY <2>1, FS_EmptySet DEF Init, RetentionInv, BrokenIsOld, Publishing, Deleting
  <1>2. TypeOK /\ TypeOK' /\ RetentionInv /\ [Next]_vars => RetentionInv'
    BY RetentionNext
  <1>3. TypeOK /\ TypeOK' /\ RetentionInv /\ [Next]_vars =>
          [\A p \in Repos : Intact(p) \subseteq Intact(p)'
                            \/ Cardinality(Intact(p)') >= Retention]_vars
    BY RetentionNext DEF RetentionStep
  <1>4. QED
    BY <1>1, <1>2, <1>3, TypeCorrect, PTL DEF Spec, RetentionKeeps
=============================================================================
