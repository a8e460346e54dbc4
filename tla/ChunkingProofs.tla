--------------------------- MODULE ChunkingProofs ---------------------------
(***************************************************************************)
(* Theorems about the chunking stage for every number of runners,          *)
(* snapshots and files, and about how a file is cut for every file, tree   *)
(* and size, proved with TLAPS.                                            *)
(***************************************************************************)
EXTENDS Chunking, Splitting, JobTableProofs, ListsProofs, TLAPS

-----------------------------------------------------------------------------
(* Type correctness.                                                       *)

\* The initial state is well typed.
LEMMA TypeInit == Init => TypeOK
  <1> SUFFICES ASSUME Init PROVE TypeOK
    OBVIOUS
  <1>1. jobs \in [Snapshots -> JobRow]
    BY ConstantRows DEF Init
  <1>2. reusable \in [Runners -> [Files -> Nat]] /\ made \in [Files -> Nat]
    BY DEF Init, NoRows
  <1>3. events \in [Runners -> [Files -> Events]]
    BY DEF Init, NoEvents, Events
  <1>4. member \in [Snapshots -> [Files -> FileStates]]
    BY DEF Init, NoMembers, FileStates
  <1>5. QED
    BY <1>1, <1>2, <1>3, <1>4 DEF Init, TypeOK, Pcs, WorkPcs, BeforePcs, AfterPcs

\* Releasing the locals of process keeps the types of a runner's variables.
LEMMA LeaveTypes ==
  ASSUME TypeOK, NEW r \in Runners, NEW where \in Pcs \ WorkPcs, Leave(r, where)
  PROVE  /\ pc' \in [Runners -> Pcs]
         /\ held' \in [Runners -> Snapshots \union {None}]
         /\ reusable' \in [Runners -> [Files -> Nat]]
         /\ events' \in [Runners -> [Files -> Events]]
         /\ orphans' \in [Runners -> SUBSET (Files \X Nat)]
         /\ ~Working(r)'
         /\ \A t \in Runners \ {r} : /\ pc'[t] = pc[t] /\ held'[t] = held[t]
                                     /\ reusable'[t] = reusable[t]
  <1>1. NoRows \in [Files -> Nat] /\ NoEvents \in [Files -> Events]
    BY DEF NoRows, NoEvents, Events
  <1>2. QED
    BY <1>1 DEF TypeOK, Leave, Working

\* The steps of the ingestion stage and of time keep the types.
LEMMA OutsideTypes ==
  ASSUME TypeOK, NEW s \in Snapshots,
         \/ ensure_chunking_job(s) \/ requeue_failed_chunking_job(s)
         \/ PruneSnapshot(s) \/ LeaseExpires(s) \/ BackoffElapses(s)
  PROVE  TypeOK'
  <1> USE DEF TypeOK, runnerVars, counters
  <1>1. CASE ensure_chunking_job(s)
    BY <1>1, ConstantRows DEF ensure_chunking_job
  <1>2. CASE requeue_failed_chunking_job(s)
    BY <1>2, ConstantRows DEF requeue_failed_chunking_job
  <1>3. CASE PruneSnapshot(s)
    <2>1. NoMembers \in [Files -> FileStates]
      BY DEF NoMembers, FileStates
    <2>2. QED
      BY <1>3, <2>1, ConstantRows DEF PruneSnapshot
  <1>4. CASE LeaseExpires(s)
    <2>1. jobs' \in [Snapshots -> JobRow]
      BY <1>4, ClockTypes DEF LeaseExpires
    <2>2. QED
      BY <1>4, <2>1 DEF LeaseExpires
  <1>5. CASE BackoffElapses(s)
    <2>1. jobs' \in [Snapshots -> JobRow]
      BY <1>5, ClockTypes DEF BackoffElapses
    <2>2. QED
      BY <1>5, <2>1 DEF BackoffElapses
  <1>6. QED
    BY <1>1, <1>2, <1>3, <1>4, <1>5

\* A claim keeps the types: what is claimed is a snapshot's job.
LEMMA ClaimTypes ==
  ASSUME TypeOK, NEW r \in Runners, claim_next(r)
  PROVE  TypeOK'
  <1> USE DEF TypeOK
  <1> DEFINE requeued == [s \in Snapshots |-> RequeueExpired(jobs[s])]
  <1>1. requeued \in [Snapshots -> JobRow]
    BY RowTypes
  <1>2. UNCHANGED <<made, stored, member, embedding, pruned, reusable, events, orphans, counters>>
    BY DEF claim_next
  <1>3. CASE jobs' = requeued /\ UNCHANGED <<pc, held>>
    <2> HIDE DEF requeued
    <2> QED
      BY <1>1, <1>2, <1>3 DEF counters
  <1>4. ASSUME NEW s \in Snapshots, jobs' = [requeued EXCEPT ![s] = ClaimRow(requeued[s])],
               pc' = [pc EXCEPT ![r] = "claimed"], held' = [held EXCEPT ![r] = s]
        PROVE  TypeOK'
    <2>1. ClaimRow(requeued[s]) \in JobRow
      BY <1>1, RowTypes
    <2> HIDE DEF requeued
    <2>2. jobs' \in [Snapshots -> JobRow]
      BY <1>1, <1>4, <2>1
    <2>3. QED
      BY <1>2, <1>4, <2>2 DEF Pcs, WorkPcs, BeforePcs, counters
  <1>5. QED
    BY <1>3, <1>4 DEF claim_next

\* The new membership has a row, of a final status, for every file of the
\* manifest and for no other.
LEMMA MembershipType ==
  ASSUME TypeOK, NEW r \in Runners, pc[r] = "publishing", Omitted(r) = {}
  PROVE  /\ Membership(r) \in [Files -> FileStates]
         /\ \A f \in Manifest[held[r]] : Membership(r)[f] \in {"succeeded", "skipped", "failed"}
         /\ \A f \in Files : Membership(r)[f] = "succeeded" <=> f \in Reused(r) \union Created(r)
  <1>1. held[r] \in Snapshots
    BY DEF TypeOK, WorkPcs, BeforePcs
  <1>2. Manifest[held[r]] \subseteq Files
    BY <1>1, ManifestAssumption
  <1>3. \A f \in Fresh(r) : events[r][f] \in {"succeeded", "skipped", "failed"}
    BY <1>2 DEF TypeOK, Omitted, Fresh, Selected, Events
  <1>4. QED
    BY <1>2, <1>3 DEF Membership, FileStates, Reused, Created, Fresh, Selected

\* A publication keeps the types.
LEMMA PublishTypes ==
  ASSUME TypeOK, NEW r \in Runners, Publish(r)
  PROVE  TypeOK'
  <1> USE DEF TypeOK
  <1>1. held[r] \in Snapshots /\ Created(r) \subseteq Files
    BY ManifestAssumption DEF Publish, WorkPcs, BeforePcs, Created, Fresh, Selected
  <1>2. member' \in [Snapshots -> [Files -> FileStates]]
    BY <1>1, MembershipType DEF Publish
  <1>3. SucceedRow(jobs[held[r]]) \in JobRow
    BY <1>1, RowTypes
  <1>4. jobs' \in [Snapshots -> JobRow]
    BY <1>1, <1>3 DEF Publish
  <1>5. made' \in [Files -> Nat]
    BY DEF Publish
  <1>6. pc' \in [Runners -> Pcs] /\ \A t \in Runners : pc'[t] \in WorkPcs => pc[t] \in WorkPcs
    BY DEF Publish, Pcs, WorkPcs, BeforePcs, AfterPcs
  <1>7. QED
    BY <1>1, <1>2, <1>4, <1>5, <1>6 DEF Publish, counters

\* The other steps of a runner keep the types.
LEMMA RunnerTypes ==
  ASSUME TypeOK, NEW r \in Runners,
         \/ Begin(r) \/ Find(r) \/ WorkerAnswers(r) \/ heartbeat(r) \/ PublishNothing(r)
         \/ PublishFails(r) \/ SelectOrphans(r) \/ DeleteOrphans(r) \/ Fails(r)
         \/ fail_or_retry(r) \/ Crash(r) \/ Restart(r)
  PROVE  TypeOK'
  <1> USE DEF TypeOK, counters
  <1> DEFINE Moves == /\ pc' \in [Runners -> Pcs]
                      /\ \A t \in Runners : pc'[t] \in WorkPcs => pc[t] \in WorkPcs
  <1>1. "idle" \in Pcs \ WorkPcs /\ "stopped" \in Pcs \ WorkPcs
    BY DEF Pcs, WorkPcs, BeforePcs, AfterPcs
  <1>2. \A where : Leave(r, where) =>
          \A t \in Runners : pc'[t] \in WorkPcs \/ t = r => pc'[t] = pc[t] \/ t = r
    BY DEF Leave
  <1>3. CASE Leave(r, "idle") /\ UNCHANGED <<database, counters>>
    BY <1>1, <1>3, LeaveTypes DEF Working, database
  <1>4. CASE Begin(r) /\ jobs[held[r]].status = "running"
    <2>1. Moves
      BY <1>4 DEF Begin, Pcs, WorkPcs, BeforePcs
    <2>2. QED
      BY <1>4, <2>1 DEF Begin, database
  <1>5. CASE Find(r)
    <2>1. Moves
      BY <1>5 DEF Find, Pcs, WorkPcs, BeforePcs
    <2>2. held[r] \in Snapshots
      BY <1>5 DEF Find, WorkPcs, BeforePcs
    <2>3. jobs' \in [Snapshots -> JobRow]
      BY <1>5, <2>2, RowTypes DEF Find
    <2>4. FindReusable(held[r]) \in [Files -> Nat]
      BY DEF FindReusable
    <2>5. QED
      BY <1>5, <2>1, <2>3, <2>4 DEF Find
  <1>6. CASE WorkerAnswers(r)
    <2>1. Moves
      BY <1>6 DEF WorkerAnswers, Pcs, WorkPcs, BeforePcs
    <2>2. QED
      BY <1>6, <2>1 DEF WorkerAnswers, database
  <1>7. CASE heartbeat(r)
    <2>1. held[r] \in Snapshots
      BY <1>7 DEF heartbeat, WorkPcs, BeforePcs
    <2>2. jobs' \in [Snapshots -> JobRow]
      BY <1>7, <2>1, RowTypes DEF heartbeat
    <2>3. QED
      BY <1>7, <2>2 DEF heartbeat, runnerVars
  <1>8. CASE PublishFails(r) \/ Fails(r) \/ Restart(r)
    <2>1. Moves
      BY <1>8 DEF PublishFails, Fails, Restart, Pcs, WorkPcs, BeforePcs, AfterPcs
    <2>2. QED
      BY <1>8, <2>1 DEF PublishFails, Fails, Restart, database
  <1>9. CASE SelectOrphans(r) /\ pc'[r] = "deleting"
    <2>1. Moves
      BY <1>9 DEF SelectOrphans, Leave, Pcs, WorkPcs, AfterPcs
    <2>2. ~Leave(r, "idle")
      BY <1>9 DEF SelectOrphans, Leave
    <2>3. \A f \in stored : <<f, made[f]>> \in Files \X Nat
      OBVIOUS
    <2>4. {<<f, made[f]>> : f \in {f \in stored : ~Listed(f)}} \in SUBSET (Files \X Nat)
      BY <2>3
    <2>5. orphans' \in [Runners -> SUBSET (Files \X Nat)]
      BY <1>9, <2>2, <2>4 DEF SelectOrphans
    <2>6. QED
      BY <1>9, <2>1, <2>2, <2>5 DEF SelectOrphans, database
  <1>10. CASE DeleteOrphans(r)
    <2>1. CASE Leave(r, "idle") /\ stored' = stored \ Doomed(r)
      BY <1>1, <1>10, <2>1, LeaveTypes DEF DeleteOrphans, Working
    <2>2. CASE pc' = [pc EXCEPT ![r] = "undoing"]
               /\ UNCHANGED <<stored, held, reusable, events, orphans>>
      <3>1. Moves
        BY <1>10, <2>2 DEF DeleteOrphans, Pcs, WorkPcs, AfterPcs
      <3>2. QED
        BY <1>10, <2>2, <3>1 DEF DeleteOrphans
    <2>3. QED
      BY <1>10, <2>1, <2>2 DEF DeleteOrphans
  <1>11. CASE fail_or_retry(r)
    <2>1. held[r] \in Snapshots
      BY <1>11 DEF fail_or_retry, WorkPcs, BeforePcs, AfterPcs
    <2>2. FailOrRetryRow(jobs[held[r]], pc[r] # "failing", MaxAttempts) \in JobRow
      BY <2>1, RowTypes, SettingsAssumption
    <2>3. jobs' \in [Snapshots -> JobRow]
      BY <1>11, <2>1, <2>2 DEF fail_or_retry
    <2>4. QED
      BY <1>1, <1>11, <2>3, LeaveTypes DEF fail_or_retry, Working
  <1>12. CASE Crash(r)
    <2>1. Leave(r, "stopped") /\ UNCHANGED <<database, reingests, expiries>> /\ crashes' \in Nat
      BY <1>12 DEF Crash
    <2>2. QED
      BY <1>1, <2>1, LeaveTypes DEF Working, database
  <1>13. CASE Begin(r) /\ jobs[held[r]].status # "running"
    BY <1>3, <1>13 DEF Begin
  <1>14. CASE SelectOrphans(r) /\ pc'[r] # "deleting"
    BY <1>3, <1>14 DEF SelectOrphans
  <1>15. CASE PublishNothing(r)
    BY <1>3, <1>15 DEF PublishNothing
  <1>16. QED
    BY <1>4, <1>5, <1>6, <1>7, <1>8, <1>9, <1>10, <1>11, <1>12, <1>13, <1>14, <1>15

\* Every step keeps the types.
LEMMA TypeNext == TypeOK /\ [Next]_vars => TypeOK'
  <1> SUFFICES ASSUME TypeOK, [Next]_vars PROVE TypeOK'
    OBVIOUS
  <1>1. CASE UNCHANGED vars
    BY <1>1 DEF TypeOK, vars, database, runnerVars, counters
  <1>2. QED
    BY <1>1, OutsideTypes, ClaimTypes, PublishTypes, RunnerTypes DEF Next, Step

-----------------------------------------------------------------------------
(* What the database keeps true, whatever the leases do.                   *)

Rows == ListedIsStored /\ PublishedComplete /\ PrunedIsGone

\* A step that writes nothing but job rows keeps it, unless it makes a job
\* succeed or brings the job of a removed snapshot back.
LEMMA RowsFrame ==
  ASSUME Rows, UNCHANGED <<made, stored, member, embedding, pruned>>,
         \A s \in Snapshots : jobs'[s].status = "succeeded" => jobs[s].status = "succeeded",
         \A s \in pruned : jobs[s].status = "absent" => jobs'[s].status = "absent"
  PROVE  Rows'
  BY DEF Rows, ListedIsStored, PublishedComplete, PrunedIsGone

\* Every step but a prune, a publication and a deletion is such a step.
LEMMA OtherRows ==
  ASSUME TypeOK, Rows, [Next]_vars,
         \A s \in Snapshots : ~PruneSnapshot(s),
         \A r \in Runners : ~Publish(r) /\ ~DeleteOrphans(r)
  PROVE  Rows'
  <1> DEFINE Kept == /\ UNCHANGED <<made, stored, member, embedding, pruned>>
                     /\ \A s \in Snapshots : jobs'[s].status = "succeeded" =>
                                               jobs[s].status = "succeeded"
                     /\ \A s \in pruned : jobs[s].status = "absent" => jobs'[s].status = "absent"
  <1> USE DEF TypeOK
  <1>1. ASSUME NEW s \in Snapshots,
               \/ ensure_chunking_job(s) \/ requeue_failed_chunking_job(s)
               \/ LeaseExpires(s) \/ BackoffElapses(s)
        PROVE  Kept
    <2>1. CASE ensure_chunking_job(s)
      BY <2>1 DEF ensure_chunking_job, Recorded, QueuedJob
    <2>2. CASE requeue_failed_chunking_job(s)
      BY <2>2 DEF requeue_failed_chunking_job, QueuedJob
    <2>3. CASE LeaseExpires(s)
      BY <2>3 DEF LeaseExpires, JobRow
    <2>4. CASE BackoffElapses(s)
      BY <2>4 DEF BackoffElapses, JobRow
    <2>5. QED
      BY <1>1, <2>1, <2>2, <2>3, <2>4
  <1>2. ASSUME NEW r \in Runners, claim_next(r) PROVE Kept
    <2> DEFINE requeued == [s \in Snapshots |-> RequeueExpired(jobs[s])]
    <2>1. \A s \in Snapshots : /\ requeued[s].status = "succeeded" => jobs[s].status = "succeeded"
                               /\ jobs[s].status = "absent" => requeued[s].status = "absent"
      BY DEF RequeueExpired, JobRow
    <2>2. UNCHANGED <<made, stored, member, embedding, pruned>>
      BY <1>2 DEF claim_next
    <2>3. CASE jobs' = requeued
      BY <2>1, <2>2, <2>3
    <2>4. ASSUME NEW s \in Snapshots, Claimable(requeued[s]),
                 jobs' = [requeued EXCEPT ![s] = ClaimRow(requeued[s])]
          PROVE  Kept
      <3>1. jobs[s].status # "absent" /\ ClaimRow(requeued[s]).status = "running"
        BY <2>1, <2>4 DEF Claimable, ClaimRow
      <3> HIDE DEF requeued
      <3>2. \A t \in Snapshots : jobs'[t] = IF t = s THEN ClaimRow(requeued[s]) ELSE requeued[t]
        BY <2>4 DEF requeued
      <3>3. QED
        BY <2>1, <2>2, <3>1, <3>2
    <2>5. QED
      BY <1>2, <2>3, <2>4 DEF claim_next
  <1>3. ASSUME NEW r \in Runners, Find(r) \/ heartbeat(r) \/ fail_or_retry(r) PROVE Kept
    <2>1. held[r] \in Snapshots
      BY <1>3 DEF Find, heartbeat, fail_or_retry, WorkPcs, BeforePcs, AfterPcs
    <2>2. RenewLease(jobs[held[r]]).status = jobs[held[r]].status
      BY <2>1 DEF RenewLease, JobRow
    <2>3. CASE Find(r) \/ heartbeat(r)
      BY <2>1, <2>2, <2>3 DEF Find, heartbeat
    <2>4. FailOrRetryRow(jobs[held[r]], pc[r] # "failing", MaxAttempts).status \in {"queued", "failed"}
      BY <2>1 DEF FailOrRetryRow, JobRow
    <2>5. CASE fail_or_retry(r)
      BY <2>1, <2>4, <2>5 DEF fail_or_retry
    <2>6. QED
      BY <1>3, <2>3, <2>5
  <1>4. ASSUME \/ UNCHANGED vars
               \/ \E r \in Runners :
                    \/ Begin(r) \/ WorkerAnswers(r) \/ PublishNothing(r) \/ PublishFails(r)
                    \/ SelectOrphans(r) \/ Fails(r) \/ Crash(r) \/ Restart(r)
        PROVE  Kept
    BY <1>4 DEF Begin, WorkerAnswers, PublishNothing, PublishFails, SelectOrphans, Fails, Crash,
                Restart, vars, database
  <1>5. Kept
    BY <1>1, <1>2, <1>3, <1>4 DEF Next, Step
  <1>6. QED
    BY <1>5, RowsFrame

\* A publication replaces the membership of its snapshot by a complete one, of
\* chunked files that are there or that it inserts.
LEMMA PublishRows ==
  ASSUME TypeOK, Rows, NEW r \in Runners, Publish(r)
  PROVE  Rows'
  <1> USE DEF TypeOK
  <1> DEFINE s == held[r]
  <1>1. s \in Snapshots /\ Manifest[s] \subseteq Files
    BY ManifestAssumption DEF Publish, WorkPcs, BeforePcs
  <1>2. s \notin pruned
    BY DEF Publish, Rows, PrunedIsGone
  <1>3. /\ \A f \in Manifest[s] : Membership(r)[f] \in {"succeeded", "skipped", "failed"}
        /\ \A f \in Files : Membership(r)[f] = "succeeded" <=> f \in Reused(r) \union Created(r)
    BY MembershipType DEF Publish
  <1>4. Reused(r) \union Created(r) \subseteq Selected(s) /\ Selected(s) \subseteq Files
    BY <1>1 DEF Reused, Created, Fresh, Selected
  <1>5. /\ member'[s] = Membership(r)
        /\ \A t \in Snapshots \ {s} : /\ member'[t] = member[t] /\ jobs'[t] = jobs[t]
                                      /\ t \in embedding' <=> t \in embedding
        /\ s \in embedding' /\ pruned' = pruned /\ stored' = stored \union Created(r)
        /\ Reused(r) \union Created(r) # {} /\ ~Conflicting(r)
        /\ \A f \in Files : made'[f] = IF f \in Created(r) THEN made[f] + 1 ELSE made[f]
    BY <1>1 DEF Publish
  <1>6. ListedIsStored'
    <2>1. \A f \in Reused(r) : f \in stored /\ made[f] > 0
      BY <1>4, <1>5 DEF Conflicting, Reused
    <2>2. \A f \in Files : made[f] > 0 \/ f \in Created(r) => made'[f] > 0
      BY <1>5
    <2>3. QED
      BY <1>3, <1>4, <1>5, <2>1, <2>2 DEF Rows, ListedIsStored, Selected
  <1>7. PublishedComplete'
    <2>1. \E f \in Manifest[s] : Membership(r)[f] = "succeeded"
      BY <1>3, <1>4, <1>5 DEF Selected
    <2>2. ASSUME NEW t \in Snapshots, t \in embedding' \/ jobs'[t].status = "succeeded"
          PROVE  /\ t \in embedding'
                 /\ \A f \in Manifest[t] : member'[t][f] \in {"succeeded", "skipped", "failed"}
                 /\ \E f \in Manifest[t] : member'[t][f] = "succeeded"
      <3>1. CASE t = s
        BY <1>3, <1>5, <2>1, <3>1
      <3>2. CASE t # s
        <4>1. (t \in embedding \/ jobs[t].status = "succeeded") /\ member'[t] = member[t]
          BY <1>5, <2>2, <3>2
        <4>2. t \in embedding' <=> t \in embedding
          BY <1>5, <3>2
        <4>3. QED
          BY <4>1, <4>2 DEF Rows, PublishedComplete
      <3>3. QED
        BY <3>1, <3>2
    <2>3. QED
      BY <2>2 DEF PublishedComplete
  <1>8. PrunedIsGone'
    BY <1>2, <1>5 DEF Rows, PrunedIsGone
  <1>9. QED
    BY <1>6, <1>7, <1>8 DEF Rows

\* A prune takes all rows of the snapshot, a deletion no row that is listed.
LEMMA RemovalRows ==
  ASSUME TypeOK, Rows,
         (\E s \in Snapshots : PruneSnapshot(s)) \/ (\E r \in Runners : DeleteOrphans(r))
  PROVE  Rows'
  <1> USE DEF TypeOK, Rows
  <1>1. ASSUME NEW s \in Snapshots, PruneSnapshot(s) PROVE Rows'
    BY <1>1 DEF PruneSnapshot, ListedIsStored, PublishedComplete, PrunedIsGone, NoMembers, AbsentJob
  <1>2. ASSUME NEW r \in Runners, DeleteOrphans(r) PROVE Rows'
    BY <1>2 DEF DeleteOrphans, ListedIsStored, PublishedComplete, PrunedIsGone, Listed
  <1>3. QED
    BY <1>1, <1>2

\* With no assumption on leases, a file that a snapshot lists has its chunked
\* file, a snapshot handed to the embedding stage is complete, and a removed one
\* leaves no row: _publish, the garbage collection and retention, in any order.
THEOREM RowsSafe == Spec => []RowsInv
  <1>1. Init => RowsInv
    BY TypeInit DEF Init, RowsInv, ListedIsStored, PublishedComplete, PrunedIsGone, NoMembers, AbsentJob
  <1>2. RowsInv /\ [Next]_vars => RowsInv'
    BY TypeNext, OtherRows, PublishRows, RemovalRows DEF RowsInv, Rows
  <1>3. QED
    BY <1>1, <1>2, PTL DEF Spec

\* What is handed to the embedding stage accounts for every file (_publish).
THEOREM Complete == Spec => []PublishedComplete
  BY RowsSafe, PTL DEF RowsInv

\* A file that a snapshot lists keeps its chunked file, whatever is collected
\* meanwhile (_publish, _collect_garbage).
THEOREM ListedSurvive == Spec => []ListedIsStored
  BY RowsSafe, PTL DEF RowsInv

-----------------------------------------------------------------------------
(* When leases outlive the work they cover.                                *)

HeldOf(r) ==
  Working(r) /\ held[r] \notin pruned =>
    IF pc[r] \in BeforePcs
    THEN jobs[held[r]].status = "running" /\ jobs[held[r]].lease = "live"
    ELSE jobs[held[r]].status = "succeeded"

ReusesOf(r) ==
  \A f \in Files : pc[r] \in {"chunking", "publishing"} /\ member[held[r]][f] = "succeeded" =>
                     reusable[r][f] = made[f]

Work == (\A r \in Runners : HeldOf(r) /\ ReusesOf(r)) /\ ExclusiveWork

\* The named parts of the invariant, runner by runner.
LEMMA CInvParts == CInv <=> TypeOK /\ Rows /\ Work
  BY DEF CInv, RowsInv, Rows, Work, HeldJobs, ReusesListed, HeldOf, ReusesOf

\* A runner that does not step keeps its part, as long as the rows of its
\* snapshot do not change under it, or the snapshot is removed.
LEMMA Bystander ==
  ASSUME TypeOK, NEW t \in Runners, HeldOf(t), ReusesOf(t),
         pc'[t] = pc[t], held'[t] = held[t], reusable'[t] = reusable[t],
         pruned \subseteq pruned',
         Working(t) /\ held[t] \notin pruned' => jobs'[held[t]] = jobs[held[t]],
         \A f \in Files : Working(t) /\ member'[held[t]][f] = "succeeded" =>
                            member[held[t]][f] = "succeeded" /\ made'[f] = made[f]
  PROVE  HeldOf(t)' /\ ReusesOf(t)'
  BY DEF HeldOf, ReusesOf, Working, WorkPcs, BeforePcs

\* A step of one runner that keeps hold of its job, or lets it go, and writes
\* only what belongs to its snapshot keeps the part of all the others.
LEMMA OwnStep ==
  ASSUME TypeOK, Work, NEW r \in Runners,
         \A t \in Runners \ {r} : /\ pc'[t] = pc[t] /\ held'[t] = held[t]
                                  /\ reusable'[t] = reusable[t],
         Working(r)' => Working(r) /\ held'[r] = held[r],
         pruned' = pruned,
         \A s \in Snapshots : ~(Working(r) /\ s = held[r]) =>
                                jobs'[s] = jobs[s] /\ member'[s] = member[s],
         \A s \in Snapshots, f \in Files :
           member[s][f] = "succeeded" /\ ~(Working(r) /\ s = held[r]) => made'[f] = made[f]
  PROVE  (\A t \in Runners \ {r} : HeldOf(t)' /\ ReusesOf(t)') /\ ExclusiveWork'
  <1>1. ASSUME NEW t \in Runners \ {r}, Working(t)
        PROVE  /\ held[t] \in Snapshots /\ ~(Working(r) /\ held[t] = held[r])
               /\ jobs'[held[t]] = jobs[held[t]] /\ member'[held[t]] = member[held[t]]
    BY <1>1 DEF Work, ExclusiveWork, TypeOK, Working
  <1>2. ASSUME NEW t \in Runners \ {r} PROVE HeldOf(t)' /\ ReusesOf(t)'
    <2>1. CASE ~Working(t)
      BY <2>1 DEF HeldOf, ReusesOf, Working, WorkPcs, BeforePcs
    <2>2. CASE Working(t)
      BY <1>1, <2>2, Bystander DEF Work
    <2>3. QED
      BY <2>1, <2>2
  <1>3. ExclusiveWork'
    BY DEF Work, ExclusiveWork, Working
  <1>4. QED
    BY <1>2, <1>3

\* A runner that lets its job go has no part to keep.
LEMMA LeaveStep ==
  ASSUME TypeOK, Work, NEW r \in Runners, NEW where \in Pcs \ WorkPcs, Leave(r, where),
         UNCHANGED <<made, member, pruned>>,
         \A s \in Snapshots : ~(Working(r) /\ s = held[r]) => jobs'[s] = jobs[s]
  PROVE  Work'
  <1>1. ~Working(r)'
    BY LeaveTypes
  <1>2. HeldOf(r)' /\ ReusesOf(r)'
    BY <1>1 DEF HeldOf, ReusesOf, Working, WorkPcs, BeforePcs
  <1>3. (\A t \in Runners \ {r} : HeldOf(t)' /\ ReusesOf(t)') /\ ExclusiveWork'
    BY <1>1, LeaveTypes, OwnStep
  <1>4. QED
    BY <1>2, <1>3 DEF Work

\* Steps inside process that write no row: the runner stays on its side of the
\* publication.
LEMMA InnerWork ==
  ASSUME TypeOK, Work, NEW r \in Runners,
         \/ Begin(r) /\ jobs[held[r]].status = "running"
         \/ SelectOrphans(r) /\ pc'[r] = "deleting"
         \/ DeleteOrphans(r) /\ pc'[r] = "undoing"
         \/ WorkerAnswers(r) \/ PublishFails(r) \/ Fails(r) \/ Restart(r)
  PROVE  Work'
  <1> USE DEF TypeOK
  <1>1. UNCHANGED <<jobs, made, member, pruned, held, reusable>>
    BY DEF Begin, SelectOrphans, DeleteOrphans, Leave, WorkerAnswers, PublishFails, Fails, Restart,
           database
  <1>2. /\ \A t \in Runners \ {r} : pc'[t] = pc[t]
        /\ pc'[r] \in BeforePcs => pc[r] \in BeforePcs
        /\ pc'[r] \in AfterPcs => pc[r] \in AfterPcs
        /\ pc'[r] \in {"chunking", "publishing"} => pc[r] = "chunking"
    BY DEF Begin, SelectOrphans, DeleteOrphans, Leave, WorkerAnswers, PublishFails, Fails, Restart,
           BeforePcs, AfterPcs, WorkPcs
  <1>3. (\A t \in Runners \ {r} : HeldOf(t)' /\ ReusesOf(t)') /\ ExclusiveWork'
    BY <1>1, <1>2, OwnStep DEF Working, WorkPcs
  <1>4. HeldOf(r)' /\ ReusesOf(r)'
    BY <1>1, <1>2 DEF Work, HeldOf, ReusesOf, Working, WorkPcs, BeforePcs, AfterPcs
  <1>5. QED
    BY <1>3, <1>4 DEF Work

\* The lookup finds every row the snapshot lists, since listed rows are there.
LEMMA FindWork ==
  ASSUME TypeOK, Rows, Work, NEW r \in Runners, Find(r) \/ heartbeat(r)
  PROVE  Work'
  <1> USE DEF TypeOK
  <1>1. /\ Working(r) /\ held[r] \in Snapshots /\ pc[r] \in BeforePcs
        /\ UNCHANGED <<made, member, pruned, held>>
        /\ pc'[r] \in BeforePcs
        /\ \A t \in Runners \ {r} : pc'[t] = pc[t] /\ reusable'[t] = reusable[t]
    BY DEF Find, heartbeat, Working, WorkPcs, BeforePcs, runnerVars
  <1>2. \A s \in Snapshots : /\ jobs'[s].status = jobs[s].status
                             /\ jobs[s].lease = "live" => jobs'[s].lease = "live"
                             /\ s # held[r] => jobs'[s] = jobs[s]
    BY <1>1 DEF Find, heartbeat, RenewLease, JobRow, Leases
  <1>3. (\A t \in Runners \ {r} : HeldOf(t)' /\ ReusesOf(t)') /\ ExclusiveWork'
    BY <1>1, <1>2, OwnStep
  <1>4. HeldOf(r)'
    BY <1>1, <1>2 DEF Work, HeldOf
  <1>5. ReusesOf(r)'
    <2>1. CASE heartbeat(r)
      BY <1>1, <2>1 DEF heartbeat, runnerVars, Work, ReusesOf
    <2>2. CASE Find(r) /\ pc'[r] = "retrying"
      BY <2>2 DEF ReusesOf
    <2>3. CASE Find(r) /\ pc'[r] = "chunking"
      <3>1. reusable'[r] = FindReusable(held[r])
        BY <2>3 DEF Find
      <3>2. QED
        BY <1>1, <3>1 DEF ReusesOf, FindReusable, Rows, ListedIsStored
    <2>4. QED
      BY <2>1, <2>2, <2>3 DEF Find
  <1>6. QED
    BY <1>3, <1>4, <1>5 DEF Work

\* A publication inserts no row for a file that another snapshot lists.
LEMMA PublishWork ==
  ASSUME TypeOK, Rows, Work, NEW r \in Runners, Publish(r)
  PROVE  Work'
  <1> USE DEF TypeOK
  <1>1. /\ Working(r) /\ held[r] \in Snapshots /\ pc'[r] = "selecting"
        /\ UNCHANGED <<pruned, held, reusable>>
        /\ \A t \in Runners \ {r} : pc'[t] = pc[t]
        /\ \A s \in Snapshots \ {held[r]} : jobs'[s] = jobs[s] /\ member'[s] = member[s]
        /\ jobs'[held[r]].status = "succeeded"
    BY DEF Publish, Working, WorkPcs, BeforePcs, SucceedRow, JobRow
  <1>2. ASSUME NEW f \in stored PROVE made'[f] = made[f]
    <2>1. f \notin Created(r)
      BY DEF Publish, Conflicting
    <2>2. QED
      BY <2>1 DEF Publish
  <1>3. (\A t \in Runners \ {r} : HeldOf(t)' /\ ReusesOf(t)') /\ ExclusiveWork'
    BY <1>1, <1>2, OwnStep, ZenonT(60) DEF Rows, ListedIsStored
  <1>4. HeldOf(r)' /\ ReusesOf(r)'
    BY <1>1 DEF HeldOf, ReusesOf, BeforePcs
  <1>5. QED
    BY <1>3, <1>4 DEF Work

\* The steps by which a runner lets its job go.
LEMMA LeavingWork ==
  ASSUME TypeOK, Work, NEW r \in Runners,
         \/ Begin(r) /\ jobs[held[r]].status # "running"
         \/ SelectOrphans(r) /\ pc'[r] # "deleting"
         \/ DeleteOrphans(r) /\ pc'[r] # "undoing"
         \/ PublishNothing(r) \/ fail_or_retry(r) \/ Crash(r)
  PROVE  Work'
  <1> USE DEF TypeOK
  <1>1. "idle" \in Pcs \ WorkPcs /\ "stopped" \in Pcs \ WorkPcs
    BY DEF Pcs, WorkPcs, BeforePcs, AfterPcs
  <1>2. Leave(r, "idle") \/ Leave(r, "stopped")
    BY DEF Begin, SelectOrphans, DeleteOrphans, PublishNothing, fail_or_retry, Crash
  <1>3. UNCHANGED <<made, member, pruned>>
    BY DEF Begin, SelectOrphans, DeleteOrphans, PublishNothing, fail_or_retry, Crash, database
  <1>4. \A s \in Snapshots : ~(Working(r) /\ s = held[r]) => jobs'[s] = jobs[s]
    <2>1. CASE fail_or_retry(r)
      BY <2>1 DEF fail_or_retry, Working, WorkPcs, BeforePcs, AfterPcs
    <2>2. CASE UNCHANGED jobs
      BY <2>2
    <2>3. QED
      BY <2>1, <2>2 DEF Begin, SelectOrphans, DeleteOrphans, PublishNothing, Crash, database
  <1>5. QED
    BY <1>1, <1>2, <1>3, <1>4, LeaveStep

\* The ingestion stage and time write no row of a job that is being worked on,
\* or remove its snapshot.
LEMMA OutsideWork ==
  ASSUME LeaseOutlivesWork, TypeOK, Rows, Work, NEW s \in Snapshots,
         \/ ensure_chunking_job(s) \/ requeue_failed_chunking_job(s)
         \/ PruneSnapshot(s) \/ LeaseExpires(s) \/ BackoffElapses(s)
  PROVE  Work'
  <1> USE DEF TypeOK
  <1>1. UNCHANGED <<pc, held, reusable, made>> /\ pruned \subseteq pruned'
    BY DEF ensure_chunking_job, requeue_failed_chunking_job, PruneSnapshot, LeaseExpires,
           BackoffElapses, runnerVars
  <1>2. ASSUME NEW t \in Snapshots, NEW f \in Files, member'[t][f] = "succeeded"
        PROVE  member[t][f] = "succeeded"
    BY <1>2 DEF ensure_chunking_job, requeue_failed_chunking_job, PruneSnapshot, LeaseExpires,
                BackoffElapses, NoMembers
  <1>3. ASSUME NEW t \in Runners, Working(t), held[t] \notin pruned'
        PROVE  jobs'[held[t]] = jobs[held[t]]
    <2>1. /\ held[t] \in Snapshots /\ jobs[held[t]].status \in {"running", "succeeded"}
          /\ held[t] \notin pruned
      BY <1>1, <1>3 DEF Work, HeldOf, Working
    <2>2. CASE ensure_chunking_job(s)
      BY <2>1, <2>2 DEF ensure_chunking_job, Recorded
    <2>3. CASE requeue_failed_chunking_job(s) \/ BackoffElapses(s)
      BY <2>1, <2>3 DEF requeue_failed_chunking_job, BackoffElapses
    <2>4. CASE PruneSnapshot(s)
      BY <1>3, <2>1, <2>4 DEF PruneSnapshot
    <2>5. CASE LeaseExpires(s)
      BY <1>3, <2>1, <2>5 DEF LeaseExpires, InWork, Working
    <2>6. QED
      BY <2>2, <2>3, <2>4, <2>5
  <1>4. \A t \in Runners : HeldOf(t)' /\ ReusesOf(t)'
    BY <1>1, <1>2, <1>3, Bystander DEF Work, Working
  <1>5. ExclusiveWork'
    BY <1>1 DEF Work, ExclusiveWork, Working
  <1>6. QED
    BY <1>4, <1>5 DEF Work

\* A claim takes a job that nobody is working on.
LEMMA ClaimWork ==
  ASSUME TypeOK, Rows, Work, NEW r \in Runners, claim_next(r)
  PROVE  Work'
  <1> USE DEF TypeOK
  <1> DEFINE requeued == [s \in Snapshots |-> RequeueExpired(jobs[s])]
  <1>1. UNCHANGED <<made, member, pruned, reusable>> /\ ~Working(r)
    BY DEF claim_next, Working, WorkPcs, BeforePcs, AfterPcs
  <1>2. ASSUME NEW t \in Runners, Working(t), held[t] \notin pruned
        PROVE  /\ held[t] \in Snapshots /\ requeued[held[t]] = jobs[held[t]]
               /\ ~Claimable(requeued[held[t]])
    BY <1>2 DEF Work, HeldOf, Working, RequeueExpired, Claimable
  <1>3. CASE jobs' = requeued /\ UNCHANGED <<pc, held>>
    <2>1. \A t \in Runners : HeldOf(t)' /\ ReusesOf(t)'
      <3> HIDE DEF requeued
      <3> QED
        BY <1>1, <1>2, <1>3, Bystander DEF Work
    <2>2. ExclusiveWork'
      BY <1>3 DEF Work, ExclusiveWork, Working
    <2>3. QED
      BY <2>1, <2>2 DEF Work
  <1>4. ASSUME NEW s \in Snapshots, Claimable(requeued[s]),
               jobs' = [requeued EXCEPT ![s] = ClaimRow(requeued[s])],
               pc' = [pc EXCEPT ![r] = "claimed"], held' = [held EXCEPT ![r] = s]
        PROVE  Work'
    <2>1. s \notin pruned
      BY <1>4 DEF Rows, PrunedIsGone, Claimable, RequeueExpired
    <2>2. \A t \in Runners : Working(t) => held[t] # s
      BY <1>2, <1>4, <2>1
    <2> HIDE DEF requeued
    <2>3. \A t \in Runners \ {r} : HeldOf(t)' /\ ReusesOf(t)'
      <3>1. ASSUME NEW t \in Runners \ {r}, Working(t), held[t] \notin pruned
            PROVE  jobs'[held[t]] = jobs[held[t]]
        <4>1. held[t] \in Snapshots /\ held[t] # s /\ requeued[held[t]] = jobs[held[t]]
          BY <1>2, <2>2, <3>1
        <4>2. QED
          BY <1>4, <4>1 DEF requeued
      <3>2. QED
        BY <1>1, <1>4, <3>1, Bystander DEF Work
    <2>4. jobs'[s] = ClaimRow(requeued[s])
      BY <1>4 DEF requeued
    <2>5. HeldOf(r)' /\ ReusesOf(r)'
      BY <1>4, <2>4 DEF HeldOf, ReusesOf, ClaimRow, BeforePcs
    <2>6. ExclusiveWork'
      BY <1>4, <2>2 DEF Work, ExclusiveWork, Working
    <2>7. QED
      BY <2>3, <2>5, <2>6 DEF Work
  <1>5. QED
    BY <1>3, <1>4 DEF claim_next

\* The inductive invariant of the chunking stage.
THEOREM Safety == ASSUME LeaseOutlivesWork PROVE Spec => []CInv
  <1>1. Init => CInv
    <2> SUFFICES ASSUME Init PROVE CInv
      OBVIOUS
    <2>1. RowsInv
      BY TypeInit DEF Init, RowsInv, ListedIsStored, PublishedComplete, PrunedIsGone, NoMembers,
                      AbsentJob
    <2>2. \A r \in Runners : ~Working(r) /\ pc[r] = "idle"
      BY DEF Init, Working, WorkPcs, BeforePcs, AfterPcs
    <2>3. QED
      BY <2>1, <2>2 DEF CInv, HeldJobs, ExclusiveWork, ReusesListed
  <1>2. CInv /\ [Next]_vars => CInv'
    <2> SUFFICES ASSUME CInv, [Next]_vars PROVE CInv'
      OBVIOUS
    <2>0. TypeOK /\ Rows /\ Work
      BY CInvParts
    <2>1. TypeOK'
      BY <2>0, TypeNext
    <2>2. Rows'
      BY <2>0, OtherRows, PublishRows, RemovalRows
    <2>3. ASSUME UNCHANGED vars PROVE Work'
      <3>1. UNCHANGED <<jobs, made, member, pruned, pc, held, reusable>>
        BY <2>3 DEF vars, database, runnerVars
      <3>2. QED
        BY <2>0, <3>1 DEF Work, HeldOf, ReusesOf, ExclusiveWork, Working
    <2>4. ASSUME NEW r \in Runners, Step(r) \/ heartbeat(r) \/ Crash(r) \/ Restart(r)
          PROVE  Work'
      <3>1. CASE Begin(r) \/ SelectOrphans(r) \/ DeleteOrphans(r)
        BY <2>0, <3>1, InnerWork, LeavingWork
      <3>2. CASE Find(r) \/ heartbeat(r)
        BY <2>0, <3>2, FindWork
      <3>3. CASE WorkerAnswers(r) \/ PublishFails(r) \/ Fails(r) \/ Restart(r)
        BY <2>0, <3>3, InnerWork
      <3>4. CASE PublishNothing(r) \/ fail_or_retry(r) \/ Crash(r)
        BY <2>0, <3>4, LeavingWork
      <3>5. QED
        BY <2>0, <2>4, <3>1, <3>2, <3>3, <3>4, ClaimWork, PublishWork DEF Step
    <2>5. Work'
      BY <2>0, <2>3, <2>4, OutsideWork DEF Next
    <2>6. HeldJobs' /\ ExclusiveWork'
      BY <2>5 DEF Work, HeldOf, HeldJobs
    <2>7. ReusesListed'
      BY <2>5 DEF Work, ReusesOf, ReusesListed
    <2>8. QED
      BY <2>1, <2>2, <2>6, <2>7 DEF CInv, RowsInv, Rows
  <1>3. QED
    BY <1>1, <1>2, PTL DEF Spec

\* No two runners are in the middle of one job (claim_next, _heartbeat).
THEOREM Exclusive == ASSUME LeaseOutlivesWork PROVE Spec => []ExclusiveWork
  BY Safety, PTL DEF CInv

\* Published chunks are never taken away (_find_reusable, _publish): a second
\* publication has found every row that the snapshot lists.
THEOREM Grows == ASSUME LeaseOutlivesWork PROVE Spec => PublishedGrows
  <1> DEFINE Keeps == \A s \in Snapshots, f \in Files :
                        member[s][f] = "succeeded" /\ s \notin pruned' => member'[s][f] = "succeeded"
  <1>1. ASSUME CInv, [Next]_vars PROVE Keeps
    <2>1. TypeOK /\ Rows /\ Work
      BY <1>1, CInvParts
    <2>2. ASSUME NEW s \in Snapshots, PruneSnapshot(s) PROVE Keeps
      BY <2>1, <2>2 DEF PruneSnapshot, TypeOK
    <2>3. ASSUME NEW r \in Runners, Publish(r) PROVE Keeps
      <3>1. ASSUME NEW f \in Files, member[held[r]][f] = "succeeded"
            PROVE  Membership(r)[f] = "succeeded"
        <4>1. held[r] \in Snapshots
          BY <2>1, <2>3 DEF Publish, TypeOK, WorkPcs, BeforePcs
        <4>2. f \in Selected(held[r]) /\ made[f] > 0
          BY <2>1, <3>1, <4>1 DEF Rows, ListedIsStored
        <4>3. f \in Reused(r)
          BY <2>1, <2>3, <3>1, <4>2 DEF Publish, Work, ReusesOf, Reused
        <4>4. QED
          BY <2>1, <2>3, <4>3, MembershipType DEF Publish
      <3>2. QED
        BY <2>1, <2>3, <3>1 DEF Publish, TypeOK
    <2>4. CASE UNCHANGED member
      BY <2>4
    <2>5. ASSUME NEW r \in Runners, Step(r) \/ heartbeat(r) \/ Crash(r) \/ Restart(r), ~Publish(r)
          PROVE  UNCHANGED member
      BY <2>5 DEF Step, claim_next, Begin, Find, WorkerAnswers, PublishNothing, PublishFails,
                  SelectOrphans, DeleteOrphans, Fails, fail_or_retry, heartbeat, Crash, Restart,
                  database
    <2>6. ASSUME NEW s \in Snapshots,
                 \/ ensure_chunking_job(s) \/ requeue_failed_chunking_job(s)
                 \/ LeaseExpires(s) \/ BackoffElapses(s)
          PROVE  UNCHANGED member
      BY <2>6 DEF ensure_chunking_job, requeue_failed_chunking_job, LeaseExpires, BackoffElapses
    <2>7. QED
      BY <1>1, <2>2, <2>3, <2>4, <2>5, <2>6 DEF Next, vars, database
  <1>2. QED
    BY <1>1, Safety, PTL DEF Spec, PublishedGrows

-----------------------------------------------------------------------------
(* The stage implements the abstract queue.                                *)

\* The runner has the job in its hands.
Owns(r) == pc[r] \in BeforePcs

stat == [s \in Snapshots |-> jobs[s].status]
own  == [s \in Snapshots |-> OwnerOf(s)]
Maps == [Queue!Next]_<<stat, own>>

\* The owner of a job, before and after a step.
LEMMA Owners ==
  /\ ExclusiveWork =>
       \A r \in Runners, s \in Snapshots : OwnerOf(s) = r <=> Owns(r) /\ held[r] = s
  /\ ExclusiveWork' =>
       \A r \in Runners, s \in Snapshots : OwnerOf(s)' = r <=> Owns(r)' /\ held'[r] = s
  /\ \A s \in Snapshots : OwnerOf(s) \in Runners \union {None}
  /\ \A s \in Snapshots : OwnerOf(s)' \in Runners \union {None}
  <1>1. \A s \in Snapshots : OwnerOf(s) \in Runners \union {None}
    BY DEF OwnerOf
  <1>2. \A s \in Snapshots : OwnerOf(s)' \in Runners \union {None}
    BY DEF OwnerOf
  <1>3. ASSUME ExclusiveWork, NEW r \in Runners, NEW s \in Snapshots
        PROVE  OwnerOf(s) = r <=> Owns(r) /\ held[r] = s
    BY <1>3, NobodyAssumption DEF OwnerOf, ExclusiveWork, Owns, Working, WorkPcs
  <1>4. ASSUME ExclusiveWork', NEW r \in Runners, NEW s \in Snapshots
        PROVE  OwnerOf(s)' = r <=> Owns(r)' /\ held'[r] = s
    BY <1>4, NobodyAssumption DEF OwnerOf, ExclusiveWork, Owns, Working, WorkPcs
  <1>5. QED
    BY <1>1, <1>2, <1>3, <1>4

\* No runner takes or drops a job: the owners stay.
LEMMA SameOwners ==
  ASSUME ExclusiveWork, ExclusiveWork',
         \A t \in Runners : Owns(t)' <=> Owns(t),
         \A t \in Runners : Owns(t) => held'[t] = held[t]
  PROVE  own' = own
  <1>1. ASSUME NEW s \in Snapshots PROVE OwnerOf(s)' = OwnerOf(s)
    BY Owners
  <1>2. QED
    BY <1>1 DEF own

\* One runner drops its job: the job loses its owner, the others keep theirs.
LEMMA OwnerLeaves ==
  ASSUME ExclusiveWork, ExclusiveWork', NEW r \in Runners, Owns(r),
         NEW k \in Snapshots, held[r] = k, ~Owns(r)',
         \A t \in Runners \ {r} : (Owns(t)' <=> Owns(t)) /\ held'[t] = held[t]
  PROVE  own' = [own EXCEPT ![k] = None]
  <1>1. OwnerOf(k)' = None
    BY Owners DEF ExclusiveWork, Owns, Working, WorkPcs
  <1>2. ASSUME NEW s \in Snapshots, s # k PROVE OwnerOf(s)' = OwnerOf(s)
    BY <1>2, Owners
  <1>3. QED
    BY <1>1, <1>2 DEF own

\* One runner takes job k: it becomes the owner.
LEMMA OwnerEnters ==
  ASSUME ExclusiveWork, ExclusiveWork', NEW r \in Runners, ~Owns(r),
         NEW k \in Snapshots, Owns(r)', held'[r] = k,
         \A t \in Runners \ {r} : (Owns(t)' <=> Owns(t)) /\ held'[t] = held[t]
  PROVE  own' = [own EXCEPT ![k] = r]
  <1>1. OwnerOf(k)' = r
    BY Owners
  <1>2. ASSUME NEW s \in Snapshots, s # k PROVE OwnerOf(s)' = OwnerOf(s)
    <2>1. \A t \in Runners : Owns(t)' /\ held'[t] = s <=> Owns(t) /\ held[t] = s
      BY <1>2
    <2>2. \A t \in Runners : OwnerOf(s)' = t <=> OwnerOf(s) = t
      BY <2>1, Owners
    <2>3. QED
      BY <2>2, Owners
  <1>3. QED
    BY <1>1, <1>2 DEF own

\* The statuses change in job k only.
LEMMA OneStatus ==
  ASSUME NEW k \in Snapshots, \A s \in Snapshots \ {k} : jobs'[s].status = jobs[s].status
  PROVE  stat' = [stat EXCEPT ![k] = jobs'[k].status]
  BY DEF stat

\* A step that keeps the statuses and the owners is a stutter.
LEMMA StutterMaps ==
  ASSUME CInv, CInv',
         \A s \in Snapshots : jobs'[s].status = jobs[s].status,
         \A t \in Runners : Owns(t)' <=> Owns(t),
         \A t \in Runners : Owns(t) => held'[t] = held[t]
  PROVE  Maps
  <1>1. stat' = stat
    BY DEF stat
  <1>2. QED
    BY <1>1, SameOwners DEF CInv, Maps

\* A runner that drops its job settles it, or abandons it with its status.
LEMMA LeavesMaps ==
  ASSUME CInv, CInv', NEW r \in Runners, Owns(r), NEW k \in Snapshots, held[r] = k, ~Owns(r)',
         \A t \in Runners \ {r} : (Owns(t)' <=> Owns(t)) /\ held'[t] = held[t],
         \A s \in Snapshots \ {k} : jobs'[s].status = jobs[s].status,
         \/ /\ jobs[k].status # "absent"
            /\ jobs'[k].status \in {"queued", "succeeded", "failed"}
         \/ jobs'[k].status = jobs[k].status
  PROVE  Maps
  <1> USE DEF CInv
  <1>1. own[k] = r /\ own' = [own EXCEPT ![k] = None]
    BY Owners, OwnerLeaves DEF own
  <1>2. stat' = [stat EXCEPT ![k] = jobs'[k].status]
    BY OneStatus
  <1>3. CASE jobs[k].status # "absent" /\ jobs'[k].status \in {"queued", "succeeded", "failed"}
    <2>1. stat[k] = "running"
      BY <1>3 DEF HeldJobs, RowsInv, PrunedIsGone, Owns, Working, WorkPcs, stat
    <2>2. Queue!Settle(r, k)
      BY <1>1, <1>2, <1>3, <2>1 DEF Queue!Settle, stat, own
    <2>3. QED
      BY <2>2 DEF Maps, Queue!Next
  <1>4. CASE jobs'[k].status = jobs[k].status
    <2>1. stat' = stat
      BY <1>2, <1>4 DEF stat
    <2>2. Queue!Abandon(r, k)
      BY <1>1, <2>1 DEF Queue!Abandon, stat, own
    <2>3. QED
      BY <2>2 DEF Maps, Queue!Next
  <1>5. QED
    BY <1>3, <1>4

\* A settled job that nobody owns is queued again or fails: it is reopened.
LEMMA ReopenMaps ==
  ASSUME CInv, CInv', NEW k \in Snapshots, jobs[k].status \in {"succeeded", "failed"},
         jobs'[k].status \in {"queued", "failed"},
         \A s \in Snapshots \ {k} : jobs'[s].status = jobs[s].status,
         \A t \in Runners : Owns(t)' <=> Owns(t),
         \A t \in Runners : Owns(t) => held'[t] = held[t]
  PROVE  Maps
  <1> USE DEF CInv
  <1>1. own[k] = None
    BY Owners DEF HeldJobs, RowsInv, PrunedIsGone, Owns, Working, WorkPcs, own
  <1>2. own' = own
    BY SameOwners
  <1>3. stat' = [stat EXCEPT ![k] = jobs'[k].status]
    BY OneStatus
  <1>4. Queue!Reopen(k)
    BY <1>1, <1>2, <1>3 DEF Queue!Reopen, stat, own
  <1>5. QED
    BY <1>4 DEF Maps, Queue!Next

\* claim_next queues orphans again and takes at most one job.
LEMMA ClaimMaps ==
  ASSUME CInv, CInv', NEW r \in Runners, claim_next(r)
  PROVE  Maps
  <1> USE DEF CInv
  <1> DEFINE lost     == {s \in Snapshots : jobs[s].status = "running" /\ jobs[s].lease = "expired"}
             requeued == [s \in Snapshots |-> RequeueExpired(jobs[s])]
             freed    == [s \in Snapshots |-> IF s \in lost THEN "queued" ELSE stat[s]]
  <1>1. lost \subseteq {s \in Snapshots : stat[s] = "running" /\ own[s] = None}
    BY Owners DEF HeldJobs, RowsInv, PrunedIsGone, Owns, Working, WorkPcs, stat, own
  <1>2. \A s \in Snapshots : requeued[s].status = freed[s]
    BY DEF RequeueExpired, RowsInv, TypeOK, JobRow, stat
  <1>3. ~Owns(r)
    BY DEF claim_next, Owns, BeforePcs
  <1>4. CASE jobs' = requeued /\ UNCHANGED <<pc, held>>
    <2>1. stat' = freed
      BY <1>2, <1>4 DEF stat
    <2>2. own' = own
      BY <1>4, SameOwners DEF Owns
    <2>3. Queue!Reclaim
      BY <1>1, <2>1, <2>2 DEF Queue!Reclaim, Queue!Orphans, Queue!Requeued, stat, own
    <2>4. QED
      BY <2>3 DEF Maps, Queue!Next
  <1>5. ASSUME NEW k \in Snapshots, Claimable(requeued[k]),
               jobs' = [requeued EXCEPT ![k] = ClaimRow(requeued[k])],
               pc' = [pc EXCEPT ![r] = "claimed"], held' = [held EXCEPT ![r] = k]
        PROVE  Queue!Take(r, k)
    <2>1. freed[k] = "queued"
      BY <1>2, <1>5 DEF Claimable
    <2>2. stat' = [freed EXCEPT ![k] = "running"]
      BY <1>2, <1>5 DEF ClaimRow, stat
    <2>3. own' = [own EXCEPT ![k] = r]
      <3>1. Owns(r)' /\ held'[r] = k
        BY <1>5 DEF Owns, BeforePcs, RowsInv, TypeOK
      <3>2. \A t \in Runners \ {r} : (Owns(t)' <=> Owns(t)) /\ held'[t] = held[t]
        BY <1>5 DEF Owns, RowsInv, TypeOK
      <3>3. QED
        BY <1>3, <3>1, <3>2, OwnerEnters
    <2>4. own[k] = None
      BY <1>1, <2>1, Owners DEF HeldJobs, RowsInv, PrunedIsGone, Owns, Working, WorkPcs, stat, own
    <2>5. \A s \in Snapshots : own[s] # r
      BY <1>3, Owners DEF own
    <2>6. QED
      BY <1>1, <2>1, <2>2, <2>3, <2>4, <2>5 DEF Queue!Take, Queue!Orphans, Queue!Requeued, stat, own
  <1>6. QED
    BY <1>4, <1>5 DEF claim_next, Maps, Queue!Next

\* New jobs are submitted, failed ones reopened, removed ones discarded.
LEMMA OutsideMaps ==
  ASSUME CInv, CInv', NEW s \in Snapshots,
         \/ ensure_chunking_job(s) \/ requeue_failed_chunking_job(s)
         \/ PruneSnapshot(s) \/ LeaseExpires(s) \/ BackoffElapses(s)
  PROVE  Maps
  <1> USE DEF CInv, RowsInv, TypeOK
  <1>1. UNCHANGED <<pc, held>> /\ \A t \in Snapshots \ {s} : jobs'[t].status = jobs[t].status
    BY DEF ensure_chunking_job, requeue_failed_chunking_job, PruneSnapshot, LeaseExpires,
           BackoffElapses, runnerVars
  <1>2. own' = own /\ stat' = [stat EXCEPT ![s] = jobs'[s].status]
    <2>1. own' = own
      BY <1>1, SameOwners DEF Owns
    <2>2. QED
      BY <1>1, <2>1, OneStatus
  <1>3. CASE ensure_chunking_job(s)
    <2>1. jobs[s].status = "absent" /\ jobs'[s].status = "queued"
      BY <1>3 DEF ensure_chunking_job, Recorded, QueuedJob
    <2>2. Queue!Submit(s)
      BY <1>2, <2>1 DEF Queue!Submit, stat, own
    <2>3. QED
      BY <2>2 DEF Maps, Queue!Next
  <1>4. CASE requeue_failed_chunking_job(s)
    <2>1. jobs[s].status = "failed" /\ jobs'[s].status = "queued"
      BY <1>4 DEF requeue_failed_chunking_job, QueuedJob
    <2>2. QED
      BY <1>1, <2>1, ReopenMaps DEF Owns
  <1>5. CASE PruneSnapshot(s)
    <2>1. jobs'[s].status = "absent"
      BY <1>5 DEF PruneSnapshot, AbsentJob
    <2>2. stat' = [t \in Snapshots |-> IF t \in {s} THEN "absent" ELSE stat[t]]
      BY <1>2, <2>1 DEF stat
    <2>3. Queue!Discard
      <3>1. {s} \in SUBSET Snapshots
        OBVIOUS
      <3>2. QED
        BY <1>2, <2>2, <3>1, ZenonT(60) DEF Queue!Discard, stat, own
    <2>4. QED
      BY <2>3 DEF Maps, Queue!Next
  <1>6. CASE LeaseExpires(s) \/ BackoffElapses(s)
    <2>1. jobs'[s].status = jobs[s].status
      <3>1. CASE LeaseExpires(s)
        BY <3>1 DEF LeaseExpires, JobRow
      <3>2. CASE BackoffElapses(s)
        BY <3>2 DEF BackoffElapses, JobRow
      <3>3. QED
        BY <1>6, <3>1, <3>2
    <2>2. QED
      BY <1>1, <2>1, StutterMaps DEF Owns
  <1>7. QED
    BY <1>3, <1>4, <1>5, <1>6

\* Steps inside process, a restart, and the end of the garbage collection.
LEMMA InnerMaps ==
  ASSUME CInv, CInv', NEW r \in Runners,
         \/ Begin(r) /\ jobs[held[r]].status = "running"
         \/ Find(r) \/ heartbeat(r) \/ WorkerAnswers(r) \/ PublishFails(r) \/ SelectOrphans(r)
         \/ DeleteOrphans(r) \/ Fails(r) \/ Restart(r)
  PROVE  Maps
  <1> USE DEF CInv, RowsInv, TypeOK
  <1>1. \A s \in Snapshots : jobs'[s].status = jobs[s].status
    <2>1. CASE Find(r) \/ heartbeat(r)
      <3>1. held[r] \in Snapshots
        BY <2>1 DEF Find, heartbeat, WorkPcs, BeforePcs
      <3>2. jobs' = jobs \/ jobs' = [jobs EXCEPT ![held[r]] = RenewLease(@)]
        BY <2>1 DEF Find, heartbeat
      <3>3. RenewLease(jobs[held[r]]).status = jobs[held[r]].status
        BY <3>1 DEF RenewLease, JobRow
      <3>4. QED
        BY <3>1, <3>2, <3>3
    <2>2. CASE UNCHANGED jobs
      BY <2>2
    <2>3. QED
      BY <2>1, <2>2 DEF Begin, WorkerAnswers, PublishFails, SelectOrphans, DeleteOrphans, Fails,
                        Restart, database
  <1>2. \A t \in Runners : Owns(t)' <=> Owns(t)
    BY DEF Begin, Find, heartbeat, WorkerAnswers, PublishFails, SelectOrphans, DeleteOrphans, Leave,
           Fails, Restart, Owns, BeforePcs, AfterPcs, WorkPcs, runnerVars
  <1>3. \A t \in Runners : Owns(t) => held'[t] = held[t]
    BY DEF Begin, Find, heartbeat, WorkerAnswers, PublishFails, SelectOrphans, DeleteOrphans, Leave,
           Fails, Restart, Owns, BeforePcs, runnerVars
  <1>4. QED
    BY <1>1, <1>2, <1>3, StutterMaps

\* A publication settles the job, and so does the end of process without one;
\* an error of the garbage collection reopens it.
LEMMA SettleMaps ==
  ASSUME CInv, CInv', NEW r \in Runners,
         \/ Begin(r) /\ jobs[held[r]].status # "running"
         \/ PublishNothing(r) \/ Publish(r) \/ fail_or_retry(r) \/ Crash(r)
  PROVE  Maps
  <1> USE DEF CInv, RowsInv, TypeOK
  <1> DEFINE k == held[r]
  <1>1. ~Owns(r)' /\ \A t \in Runners \ {r} : (Owns(t)' <=> Owns(t)) /\ held'[t] = held[t]
    BY DEF Begin, PublishNothing, Publish, fail_or_retry, Crash, Leave, Owns, BeforePcs
  <1>2. CASE Crash(r) /\ ~Owns(r)
    BY <1>1, <1>2, StutterMaps DEF Crash, database
  <1>3. k \in Snapshots \/ (Crash(r) /\ ~Owns(r))
    BY DEF Begin, PublishNothing, Publish, fail_or_retry, Owns, WorkPcs, BeforePcs, AfterPcs
  <1>4. CASE k \in Snapshots /\ (Crash(r) \/ Begin(r) \/ PublishNothing(r)) /\ Owns(r)
    <2>1. UNCHANGED jobs
      BY <1>4 DEF Crash, Begin, PublishNothing, database
    <2>2. QED
      BY <1>1, <1>4, <2>1, LeavesMaps
  <1>5. CASE Publish(r)
    <2>1. /\ Owns(r) /\ k \in Snapshots /\ jobs[k].status # "absent"
          /\ jobs'[k].status = "succeeded"
          /\ \A s \in Snapshots \ {k} : jobs'[s].status = jobs[s].status
      BY <1>5 DEF Publish, Owns, BeforePcs, WorkPcs, SucceedRow, JobRow
    <2>2. QED
      BY <1>1, <2>1, LeavesMaps
  <1>6. CASE fail_or_retry(r)
    <2>1. k \in Snapshots /\ Working(r)
      BY <1>6 DEF fail_or_retry, Working, WorkPcs, BeforePcs, AfterPcs
    <2>2. FailOrRetryRow(jobs[k], pc[r] # "failing", MaxAttempts).status \in {"queued", "failed"}
      BY <2>1 DEF FailOrRetryRow, JobRow
    <2>3. /\ \A s \in Snapshots \ {k} : jobs'[s].status = jobs[s].status
          /\ IF jobs[k].status = "absent" THEN jobs'[k].status = jobs[k].status
                                          ELSE jobs'[k].status \in {"queued", "failed"}
      BY <1>6, <2>1, <2>2 DEF fail_or_retry
    <2>4. CASE Owns(r)
      BY <1>1, <2>1, <2>3, <2>4, LeavesMaps
    <2>5. CASE ~Owns(r) /\ jobs[k].status = "absent"
      BY <1>1, <2>3, <2>5, StutterMaps
    <2>6. CASE ~Owns(r) /\ jobs[k].status # "absent"
      <3>1. jobs[k].status = "succeeded"
        BY <2>1, <2>6 DEF HeldJobs, PrunedIsGone, Owns
      <3>2. QED
        BY <1>1, <2>1, <2>3, <2>6, <3>1, ReopenMaps
    <2>7. QED
      BY <2>4, <2>5, <2>6
  <1>7. QED
    BY <1>2, <1>3, <1>4, <1>5, <1>6 DEF Begin, PublishNothing, Owns, BeforePcs

\* The stage implements the abstract queue, with jobs that are taken up again
\* after a failed garbage collection or by a later ingestion: every claim is a
\* take by a single owner, every outcome is written by the owner.
THEOREM ImplementsQueue == ASSUME LeaseOutlivesWork PROVE Spec => QueueSpec
  <1>1. ASSUME Init PROVE Queue!Init
    <2>1. \A s \in Snapshots : OwnerOf(s) = None /\ jobs[s].status = "absent"
      BY <1>1 DEF Init, OwnerOf, BeforePcs, AbsentJob
    <2>2. QED
      BY <2>1 DEF Queue!Init
  <1>2. ASSUME CInv, CInv', [Next]_vars PROVE [Queue!Next]_<<stat, own>>
    <2>1. ASSUME UNCHANGED vars PROVE Maps
      <3>1. UNCHANGED <<jobs, pc, held>>
        BY <2>1 DEF vars, database, runnerVars
      <3>2. QED
        BY <1>2, <3>1, StutterMaps DEF Owns
    <2>2. ASSUME NEW r \in Runners, Step(r) \/ heartbeat(r) \/ Crash(r) \/ Restart(r) PROVE Maps
      <3>1. CASE Begin(r)
        BY <1>2, <3>1, InnerMaps, SettleMaps
      <3>2. CASE Find(r) \/ heartbeat(r) \/ WorkerAnswers(r) \/ PublishFails(r) \/ SelectOrphans(r)
                 \/ DeleteOrphans(r) \/ Fails(r) \/ Restart(r)
        BY <1>2, <3>2, InnerMaps
      <3>3. CASE PublishNothing(r) \/ Publish(r) \/ fail_or_retry(r) \/ Crash(r)
        BY <1>2, <3>3, SettleMaps
      <3>4. CASE claim_next(r)
        BY <1>2, <3>4, ClaimMaps
      <3>5. QED
        BY <2>2, <3>1, <3>2, <3>3, <3>4 DEF Step
    <2>3. Maps
      BY <1>2, <2>1, <2>2, OutsideMaps DEF Next
    <2>4. QED
      BY <2>3 DEF Maps
  <1>3. QED
    BY <1>1, <1>2, Safety, PTL DEF Spec, QueueSpec, Queue!Spec, stat, own

-----------------------------------------------------------------------------
(* How a file is cut: the invariant in terms of the file.                    *)

\* Clean and Covers with the file, the size limit and whether nodes count spelt out.
CleanAt(f, t, o) ==
  \/ o \notin f.inside
  \/ t /\ \E n \in DOMAIN f.tree : o \in {f.tree[n].start, f.tree[n].end}

RangesOf(f) == [start: 0 .. f.size, end: 0 .. f.size]

Cover(f, m, t, s, a, b) ==
  /\ s \in Seq(RangesOf(f))
  /\ Tiles(s, a, b)
  /\ \A i \in DOMAIN s : s[i].end - s[i].start <= m /\ CleanAt(f, t, s[i].start)

\* What FramesSound says of the locals w of node n, and their type.
LocalsOf(f) == [phase: {"uncalled", "open", "returned"}, next: Nat \ {0}, cursor: 0 .. f.size,
                upto: 0 .. f.size, units: Seq(RangesOf(f))]

FrameOK(f, m, t, n, w) ==
  /\ w \in LocalsOf(f)
  /\ w.phase = "open" =>
       /\ Cover(f, m, t, w.units, f.tree[n].start, w.cursor)
       /\ w.cursor <= w.upto /\ w.upto <= f.tree[n].end
       /\ CleanAt(f, t, w.cursor) /\ CleanAt(f, t, w.upto)
       /\ w.next <= Len(f.tree[n].children) => w.upto <= f.tree[f.tree[n].children[w.next]].start
  /\ w.phase = "returned" => Cover(f, m, t, w.units, f.tree[n].start, f.tree[n].end)

\* The same for the file.
FileOK(f, m, t, at, w, s) ==
  /\ w \in LocalsOf(f) /\ w.phase # "returned" /\ s \in Seq(RangesOf(f))
  /\ at \in {"prefix", "suffix", "blocks"} =>
       /\ Cover(f, m, t, w.units, 0, w.cursor)
       /\ w.cursor <= w.upto /\ CleanAt(f, t, w.cursor) /\ CleanAt(f, t, w.upto)
  /\ at = "prefix" => w.upto = f.tree[f.root].start
  /\ at \in {"parse", "nodes", "prefix", "suffix", "blocks"} => s = <<>>
  /\ at = "merge" =>
       LET met == IF s = <<>> THEN 0 ELSE s[Len(s)].end IN
       /\ Cover(f, m, t, s, 0, met) /\ Cover(f, m, t, w.units, met, f.size)
       /\ \A i \in DOMAIN s : s[i].start < s[i].end
  /\ at \in {"measure", "delivered"} =>
       /\ Cover(f, m, t, s, 0, f.size)
       /\ \A i \in DOMAIN s : s[i].start < s[i].end

SplitScalars ==
  /\ source \in Sources /\ engine \in Engines /\ route \in Engines /\ stage \in Stages
  /\ configured \in Sizes /\ maxSize \in Sizes /\ maxSize <= configured /\ attempt \in 0 .. 2
  /\ frame \in [DOMAIN source.tree -> LocalsOf(source)]
  /\ stage \in {"parse", "nodes", "prefix", "suffix"} => route = "tree"
  /\ stage \in {"prefix", "suffix"} => frame[source.root].phase = "returned"

FramesOK == \A n \in DOMAIN source.tree : FrameOK(source, maxSize, route = "tree", n, frame[n])

\* The two ways of saying it agree.
LEMMA CleanSame == \A o : Clean(o) <=> CleanAt(source, route = "tree", o)
BY DEF Clean, ParserTears, CleanAt

LEMMA CoversSame ==
  \A s \in Seq(RangesOf(source)) : \A a, b :
    Covers(s, a, b) <=> Cover(source, maxSize, route = "tree", s, a, b)
BY CleanSame DEF Covers, Cover

LEMMA SplitParts ==
  SplitInv <=> SplitScalars /\ FramesOK /\ FileOK(source, maxSize, route = "tree", stage, whole, spans)
<1> DEFINE tree == route = "tree"
<1>0. /\ Ranges = RangesOf(source)
      /\ \A w \in LocalsOf(source) : /\ w.units \in Seq(RangesOf(source))
                                     /\ w.cursor \in 0 .. source.size /\ w.upto \in 0 .. source.size
                                     /\ w.phase \in {"uncalled", "open", "returned"}
  <2>1. Ranges = RangesOf(source)
    BY DEF Ranges, Offsets, RangesOf
  <2>2. ASSUME NEW w \in LocalsOf(source)
        PROVE  /\ w.units \in Seq(RangesOf(source))
               /\ w.cursor \in 0 .. source.size /\ w.upto \in 0 .. source.size
               /\ w.phase \in {"uncalled", "open", "returned"}
    BY DEF LocalsOf
  <2> QED BY <2>1, <2>2
<1>1. ASSUME SplitInv
      PROVE  SplitScalars /\ FramesOK /\ FileOK(source, maxSize, tree, stage, whole, spans)
  <2>1. SplitScalars
    BY <1>0, <1>1 DEF SplitInv, SplitTypeOK, WholeSound, SplitScalars, LocalsOf, Offsets
  <2>2. /\ whole \in LocalsOf(source) /\ whole.phase # "returned" /\ spans \in Seq(RangesOf(source))
    BY <1>0, <1>1 DEF SplitInv, SplitTypeOK, LocalsOf, Offsets
  <2>3. FramesOK
    <3> SUFFICES ASSUME NEW n \in DOMAIN source.tree PROVE FrameOK(source, maxSize, tree, n, frame[n])
      BY DEF FramesOK
    <3>1. frame[n] \in LocalsOf(source) /\ frame[n].units \in Seq(RangesOf(source))
      BY <1>0, <2>1 DEF SplitScalars
    <3>2. \A a, b : Covers(frame[n].units, a, b) <=> Cover(source, maxSize, tree, frame[n].units, a, b)
      BY <3>1, CoversSame
    <3> HIDE DEF tree
    <3> QED BY <1>1, <3>1, <3>2, CleanSame DEF tree, SplitInv, FramesSound, FrameOK, NodeCount, ChildOf
  <2>4. FileOK(source, maxSize, tree, stage, whole, spans)
    <3>1. whole.units \in Seq(RangesOf(source))
      BY <1>0, <2>2
    <3>2. \A a, b : /\ Covers(whole.units, a, b) <=> Cover(source, maxSize, tree, whole.units, a, b)
                    /\ Covers(spans, a, b) <=> Cover(source, maxSize, tree, spans, a, b)
      BY <2>2, <3>1, CoversSame
    <3>3. \A o : Clean(o) <=> CleanAt(source, tree, o)
      BY CleanSame
    <3>4. WholeSound /\ RangesRebuild
      BY <1>1 DEF SplitInv
    <3> HIDE DEF tree
    <3> QED BY <2>2, <3>2, <3>3, <3>4 DEF WholeSound, RangesRebuild, FileOK
  <2> QED BY <2>1, <2>3, <2>4
<1>2. ASSUME SplitScalars, FramesOK, FileOK(source, maxSize, tree, stage, whole, spans)
      PROVE  SplitInv
  <2>1. SplitTypeOK
    BY <1>0, <1>2 DEF SplitTypeOK, SplitScalars, FileOK, LocalsOf, Offsets
  <2>2. FramesSound
    <3> SUFFICES ASSUME NEW n \in DOMAIN source.tree
                 PROVE  FramesSound!(n)
      BY DEF FramesSound
    <3>1. frame[n] \in LocalsOf(source) /\ frame[n].units \in Seq(RangesOf(source))
      BY <1>0, <1>2 DEF SplitScalars
    <3>2. \A a, b : Covers(frame[n].units, a, b) <=> Cover(source, maxSize, tree, frame[n].units, a, b)
      BY <3>1, CoversSame
    <3>3. FrameOK(source, maxSize, tree, n, frame[n])
      BY <1>2 DEF FramesOK
    <3> HIDE DEF tree
    <3> QED BY <3>2, <3>3, CleanSame DEF tree, FrameOK, NodeCount, ChildOf
  <2>3. WholeSound /\ RangesRebuild
    <3>1. whole \in LocalsOf(source) /\ whole.units \in Seq(RangesOf(source)) /\ spans \in Seq(RangesOf(source))
      BY <1>0, <1>2 DEF FileOK
    <3>2. \A a, b : /\ Covers(whole.units, a, b) <=> Cover(source, maxSize, tree, whole.units, a, b)
                    /\ Covers(spans, a, b) <=> Cover(source, maxSize, tree, spans, a, b)
      BY <3>1, CoversSame
    <3>3. \A o : Clean(o) <=> CleanAt(source, tree, o)
      BY CleanSame
    <3>4. whole.upto <= source.size
      <4>1. source.size \in Nat
        BY <1>0, <1>2, SplittingAssumption DEF SplitScalars
      <4>2. whole.upto \in 0 .. source.size
        BY <3>1 DEF LocalsOf
      <4> QED BY <4>1, <4>2
    <3>5. maxSize <= configured
      BY <1>2 DEF SplitScalars
    <3>6. /\ stage \in {"parse", "nodes", "prefix", "suffix"} => route = "tree"
          /\ stage \in {"prefix", "suffix"} => frame[source.root].phase = "returned"
      BY <1>2 DEF SplitScalars
    <3>7. stage \in {"measure", "delivered"} =>
             TextsRebuild \/ \E i \in DOMAIN spans : ParserTears(spans[i].start)
      <4>1. stage \in {"measure", "delivered"} => Covers(spans, 0, source.size)
        BY <1>2, <3>2 DEF FileOK
      <4> QED BY <4>1 DEF Covers, Clean, TextsRebuild
    <3> HIDE DEF tree
    <3> QED BY <1>2, <3>2, <3>3, <3>4, <3>5, <3>6, <3>7 DEF WholeSound, RangesRebuild, FileOK
  <2> QED BY <2>1, <2>2, <2>3 DEF SplitInv
<1> QED BY <1>1, <1>2

-----------------------------------------------------------------------------
(* Lists of ranges.                                                          *)

LEMMA CoverNone ==
  ASSUME NEW f, NEW m, NEW t, NEW a
  PROVE  Cover(f, m, t, <<>>, a, a)
BY DEF Cover, Tiles

LEMMA CoverOne ==
  ASSUME NEW f, f.size \in Nat, NEW m \in Nat, NEW t, NEW a \in 0 .. f.size, NEW b \in 0 .. f.size,
         a <= b, b - a <= m, CleanAt(f, t, a)
  PROVE  Cover(f, m, t, <<Span(a, b)>>, a, b)
<1> DEFINE s == <<Span(a, b)>>
<1>1. Span(a, b) \in RangesOf(f) /\ Span(a, b).start = a /\ Span(a, b).end = b
  BY DEF Span, RangesOf
<1>2. s \in Seq(RangesOf(f)) /\ Len(s) = 1 /\ DOMAIN s = {1} /\ s[1] = Span(a, b) /\ s # <<>>
  BY <1>1
<1> HIDE DEF s
<1>3. Tiles(s, a, b)
  BY <1>1, <1>2 DEF Tiles
<1> QED BY <1>1, <1>2, <1>3 DEF Cover

LEMMA CoverJoin ==
  ASSUME NEW f, f.size \in Nat, NEW m, NEW t, NEW a, NEW b, NEW c, NEW s, NEW u,
         Cover(f, m, t, s, a, b), Cover(f, m, t, u, b, c)
  PROVE  Cover(f, m, t, s \o u, a, c)
<1> USE DEF Cover
<1>1. CASE s = <<>>
  <2>1. s \o u = u /\ a = b
    BY <1>1 DEF Tiles
  <2> QED BY <2>1
<1>2. CASE u = <<>>
  <2>1. s \o u = s /\ b = c
    BY <1>2 DEF Tiles
  <2> QED BY <2>1
<1>3. CASE s # <<>> /\ u # <<>>
  <2> DEFINE v == s \o u
             p == Len(s)
             q == Len(u)
  <2>1. /\ v \in Seq(RangesOf(f)) /\ Len(v) = p + q
        /\ p \in Nat \ {0} /\ q \in Nat \ {0}
        /\ \A i \in 1 .. p : v[i] = s[i]
        /\ \A i \in 1 .. q : v[p + i] = u[i]
        /\ DOMAIN v = 1 .. p + q /\ DOMAIN s = 1 .. p /\ DOMAIN u = 1 .. q
    BY <1>3
  <2>2. /\ s[1].start = a /\ s[p].end = b /\ u[1].start = b /\ u[q].end = c
        /\ \A i \in 1 .. p : s[i].start <= s[i].end
        /\ \A i \in 1 .. q : u[i].start <= u[i].end
        /\ \A i \in 1 .. p - 1 : s[i].end = s[i + 1].start
        /\ \A i \in 1 .. q - 1 : u[i].end = u[i + 1].start
    BY <1>3, <2>1 DEF Tiles
  <2> HIDE DEF v, p, q
  <2>3. v # <<>> /\ v[1] = s[1] /\ v[p + q] = u[q]
    BY <2>1
  <2>4. ASSUME NEW i \in 1 .. p + q
        PROVE  \/ i \in 1 .. p /\ v[i] = s[i]
               \/ \E j \in 1 .. q : i = p + j /\ v[i] = u[j]
    <3>1. CASE i <= p
      BY <2>1, <3>1
    <3>2. CASE i > p
      <4>1. i - p \in 1 .. q /\ i = p + (i - p)
        BY <2>1, <3>2
      <4> QED BY <2>1, <4>1
    <3> QED BY <2>1, <3>1, <3>2
  <2>5. ASSUME NEW i \in 1 .. p + q - 1 PROVE v[i].end = v[i + 1].start
    <3>1. CASE i < p
      <4>1. i \in 1 .. p - 1 /\ i \in 1 .. p /\ i + 1 \in 1 .. p
        BY <2>1, <3>1
      <4> QED BY <2>1, <2>2, <4>1
    <3>2. CASE i = p
      <4>1. p \in 1 .. p /\ 1 \in 1 .. q
        BY <2>1
      <4>2. v[p] = s[p] /\ v[p + 1] = u[1]
        BY <2>1, <4>1
      <4> QED BY <2>2, <3>2, <4>2
    <3>3. CASE i > p
      <4> DEFINE j == i - p
      <4>0. i \in Nat /\ p \in Nat /\ q \in Nat /\ i <= p + q - 1 /\ i > p
        BY <2>1, <3>3
      <4>1. j \in 1 .. q - 1 /\ j \in 1 .. q /\ j + 1 \in 1 .. q /\ i = p + j /\ i + 1 = p + (j + 1)
        BY ONLY <4>0
      <4> HIDE DEF j
      <4>2. v[i] = u[j] /\ v[i + 1] = u[j + 1]
        BY <2>1, <4>1
      <4> QED BY <2>2, <4>1, <4>2
    <3> QED BY <2>1, <3>1, <3>2, <3>3
  <2>6. Tiles(v, a, c)
    <3>1. \A i \in 1 .. p + q : v[i].start <= v[i].end
      BY <2>2, <2>4
    <3> QED BY <2>1, <2>2, <2>3, <2>5, <3>1 DEF Tiles
  <2>7. \A i \in DOMAIN v : v[i].end - v[i].start <= m /\ CleanAt(f, t, v[i].start)
    BY <2>1, <2>4
  <2>8. Cover(f, m, t, v, a, c)
    BY <2>1, <2>6, <2>7
  <2> QED BY <2>8 DEF v
<1> QED BY <1>1, <1>2, <1>3

LEMMA CoverAppend ==
  ASSUME NEW f, f.size \in Nat, NEW m \in Nat, NEW t, NEW s, NEW a,
         NEW b \in 0 .. f.size, NEW c \in 0 .. f.size,
         Cover(f, m, t, s, a, b), b <= c, c - b <= m, CleanAt(f, t, b)
  PROVE  Cover(f, m, t, Append(s, Span(b, c)), a, c)
<1>1. Cover(f, m, t, <<Span(b, c)>>, b, c)
  BY CoverOne
<1>2. Cover(f, m, t, s \o <<Span(b, c)>>, a, c)
  BY <1>1, CoverJoin
<1>3. Span(b, c) \in RangesOf(f) /\ s \in Seq(RangesOf(f))
  BY DEF Span, RangesOf, Cover
<1>4. Append(s, Span(b, c)) = s \o <<Span(b, c)>>
  BY <1>3
<1> QED BY <1>2, <1>4

\* The first range is drawn out to an earlier beginning, the last one to a later end.
LEMMA CoverFirst ==
  ASSUME NEW f, f.size \in Nat, NEW m \in Nat, NEW t, NEW s, s # <<>>,
         NEW a \in 0 .. f.size, NEW b, NEW c,
         Cover(f, m, t, s, b, c), a <= b, s[1].end - a <= m, CleanAt(f, t, a)
  PROVE  Cover(f, m, t, [s EXCEPT ![1].start = a], a, c)
<1> DEFINE k == Len(s)
           u == [s EXCEPT ![1].start = a]
<1>1. s \in Seq(RangesOf(f)) /\ k \in Nat \ {0} /\ 1 \in 1 .. k /\ DOMAIN s = 1 .. k
  BY DEF Cover
<1>2. \A i \in 1 .. k : s[i].start \in 0 .. f.size /\ s[i].end \in 0 .. f.size /\ s[i] \in RangesOf(f)
  <2>1. \A i \in 1 .. k : s[i] \in RangesOf(f)
    BY <1>1
  <2>2. \A x \in RangesOf(f) : x.start \in 0 .. f.size /\ x.end \in 0 .. f.size
    BY DEF RangesOf
  <2> QED BY <2>1, <2>2
<1>3. /\ u[1] = [s[1] EXCEPT !.start = a]
      /\ \A i \in 1 .. k : i # 1 => u[i] = s[i]
      /\ DOMAIN u = 1 .. k
  BY <1>1
<1>4. u[1] \in RangesOf(f) /\ u[1].start = a /\ u[1].end = s[1].end
  <2>1. \A x \in RangesOf(f) : LET y == [x EXCEPT !.start = a] IN
          y \in RangesOf(f) /\ y.start = a /\ y.end = x.end
    BY DEF RangesOf
  <2> HIDE DEF u, k
  <2> QED BY <1>1, <1>2, <1>3, <2>1
<1>5. u \in Seq(RangesOf(f)) /\ Len(u) = k /\ u # <<>>
  BY <1>1, <1>2, <1>3, <1>4
<1> HIDE DEF u, k
<1>6. /\ s[1].start = b /\ s[k].end = c
      /\ \A i \in 1 .. k : s[i].start <= s[i].end
      /\ \A i \in 1 .. k - 1 : s[i].end = s[i + 1].start
      /\ \A i \in 1 .. k : s[i].end - s[i].start <= m /\ CleanAt(f, t, s[i].start)
  BY <1>1 DEF Cover, Tiles, k
<1>7. \A i \in 1 .. k : u[i].end = s[i].end
  BY <1>3, <1>4
<1>8. \A i \in 1 .. k : u[i].start <= u[i].end /\ u[i].end - u[i].start <= m /\ CleanAt(f, t, u[i].start)
  <2>1. a <= s[1].end
    BY <1>1, <1>2, <1>6
  <2> QED BY <1>1, <1>3, <1>4, <1>6, <2>1
<1>9. ASSUME NEW i \in 1 .. k - 1 PROVE u[i].end = u[i + 1].start
  <2>1. i \in 1 .. k /\ i + 1 \in 1 .. k /\ i + 1 # 1
    BY <1>1
  <2> QED BY <1>3, <1>6, <1>7, <2>1
<1>10. k \in 1 .. k
  BY <1>1
<1>11. Tiles(u, a, c)
  BY <1>3, <1>4, <1>5, <1>6, <1>7, <1>8, <1>9, <1>10 DEF Tiles
<1>12. Cover(f, m, t, u, a, c)
  BY <1>3, <1>5, <1>8, <1>11 DEF Cover
<1> QED BY <1>12 DEF u

LEMMA CoverLast ==
  ASSUME NEW f, f.size \in Nat, NEW m \in Nat, NEW t, NEW s, s # <<>>,
         NEW a, NEW b, NEW c \in 0 .. f.size,
         Cover(f, m, t, s, a, b), b <= c, c - s[Len(s)].start <= m
  PROVE  Cover(f, m, t, [s EXCEPT ![Len(s)].end = c], a, c)
<1> DEFINE k == Len(s)
           u == [s EXCEPT ![k].end = c]
<1>1. s \in Seq(RangesOf(f)) /\ k \in Nat \ {0} /\ k \in 1 .. k /\ 1 \in 1 .. k /\ DOMAIN s = 1 .. k
  BY DEF Cover
<1>2. \A i \in 1 .. k : s[i].start \in 0 .. f.size /\ s[i].end \in 0 .. f.size /\ s[i] \in RangesOf(f)
  <2>1. \A i \in 1 .. k : s[i] \in RangesOf(f)
    BY <1>1
  <2>2. \A x \in RangesOf(f) : x.start \in 0 .. f.size /\ x.end \in 0 .. f.size
    BY DEF RangesOf
  <2> QED BY <2>1, <2>2
<1>3. /\ u[k] = [s[k] EXCEPT !.end = c]
      /\ \A i \in 1 .. k : i # k => u[i] = s[i]
      /\ DOMAIN u = 1 .. k
  BY <1>1
<1>4. u[k] \in RangesOf(f) /\ u[k].end = c /\ u[k].start = s[k].start
  BY <1>1, <1>2, <1>3 DEF RangesOf
<1>5. u \in Seq(RangesOf(f)) /\ Len(u) = k /\ u # <<>>
  BY <1>1, <1>2, <1>3, <1>4
<1>6. /\ s[1].start = a /\ s[k].end = b
      /\ \A i \in 1 .. k : s[i].start <= s[i].end
      /\ \A i \in 1 .. k - 1 : s[i].end = s[i + 1].start
      /\ \A i \in 1 .. k : s[i].end - s[i].start <= m /\ CleanAt(f, t, s[i].start)
  BY <1>1 DEF Cover, Tiles
<1>0. c - s[k].start <= m
  OBVIOUS
<1> HIDE DEF u, k
<1>7. \A i \in 1 .. k : u[i].start = s[i].start
  BY <1>3, <1>4
<1>8. \A i \in 1 .. k : u[i].start <= u[i].end /\ u[i].end - u[i].start <= m /\ CleanAt(f, t, u[i].start)
  <2>1. s[k].start <= c
    BY <1>1, <1>2, <1>6
  <2> QED BY <1>0, <1>1, <1>3, <1>4, <1>6, <2>1
<1>9. ASSUME NEW i \in 1 .. k - 1 PROVE u[i].end = u[i + 1].start
  <2>1. i \in 1 .. k /\ i + 1 \in 1 .. k /\ i # k
    BY <1>1
  <2> QED BY <1>3, <1>6, <1>7, <2>1
<1>10. Tiles(u, a, c)
  BY <1>1, <1>3, <1>4, <1>5, <1>6, <1>7, <1>8, <1>9 DEF Tiles
<1>11. Cover(f, m, t, u, a, c)
  BY <1>3, <1>5, <1>8, <1>10 DEF Cover
<1> QED BY <1>11 DEF u, k

LEMMA CoverTail ==
  ASSUME NEW f, f.size \in Nat, NEW m, NEW t, NEW s, s # <<>>, NEW a, NEW b,
         Cover(f, m, t, s, a, b)
  PROVE  /\ Head(s) \in RangesOf(f) /\ Head(s).start = a /\ Head(s).start <= Head(s).end
         /\ Head(s).end - Head(s).start <= m /\ CleanAt(f, t, a)
         /\ Cover(f, m, t, Tail(s), Head(s).end, b)
<1> DEFINE k == Len(s)
           u == Tail(s)
<1>1. /\ s \in Seq(RangesOf(f)) /\ k \in Nat \ {0} /\ 1 \in 1 .. k /\ DOMAIN s = 1 .. k
      /\ Head(s) = s[1]
  BY DEF Cover
<1>2. /\ s[1].start = a /\ s[k].end = b
      /\ \A i \in 1 .. k : s[i].start <= s[i].end
      /\ \A i \in 1 .. k - 1 : s[i].end = s[i + 1].start
      /\ \A i \in 1 .. k : s[i].end - s[i].start <= m /\ CleanAt(f, t, s[i].start)
  BY <1>1 DEF Cover, Tiles
<1>3. u \in Seq(RangesOf(f)) /\ Len(u) = k - 1 /\ DOMAIN u = 1 .. k - 1
      /\ \A i \in 1 .. k - 1 : u[i] = s[i + 1]
  BY <1>1
<1> HIDE DEF u, k
<1>4. \A i \in 1 .. k - 1 : i + 1 \in 1 .. k
  BY <1>1
<1>5. Tiles(u, s[1].end, b)
  <2>1. CASE k = 1
    <3>1. u = <<>>
      BY <1>3, <2>1
    <3> QED BY <1>2, <1>3, <2>1, <3>1 DEF Tiles
  <2>2. CASE k # 1
    <3>1. u # <<>> /\ 1 \in 1 .. k - 1 /\ k - 1 \in 1 .. k - 1 /\ (k - 1) + 1 = k /\ 1 + 1 = 2
      BY <1>1, <1>3, <2>2
    <3>2. u[1].start = s[1].end /\ u[k - 1].end = b
      BY <1>2, <1>3, <3>1
    <3>3. \A i \in 1 .. k - 1 : u[i].start <= u[i].end
      BY <1>2, <1>3, <1>4
    <3>4. ASSUME NEW i \in 1 .. (k - 1) - 1 PROVE u[i].end = u[i + 1].start
      <4>1. i \in 1 .. k - 1 /\ i + 1 \in 1 .. k - 1
        BY <1>1
      <4> QED BY <1>2, <1>3, <4>1
    <3> QED BY <1>3, <3>1, <3>2, <3>3, <3>4 DEF Tiles
  <2> QED BY <2>1, <2>2
<1>6. \A i \in DOMAIN u : u[i].end - u[i].start <= m /\ CleanAt(f, t, u[i].start)
  BY <1>2, <1>3, <1>4
<1>7. Cover(f, m, t, u, s[1].end, b)
  BY <1>3, <1>5, <1>6 DEF Cover
<1> QED BY <1>1, <1>2, <1>7 DEF u

-----------------------------------------------------------------------------
(* The steps that cut, and that the file is covered after each of them.      *)

\* What the assumption says of the file at hand.
LEMMA SourceFacts ==
  ASSUME SplitScalars
  PROVE  /\ source.size \in Nat \ {0} /\ maxSize \in Nat /\ maxSize >= 4
         /\ source.lines \subseteq 1 .. source.size
         /\ source.inside \subseteq 1 .. source.size - 1
         /\ source.inside \intersect source.lines = {}
         /\ \A o \in 0 .. source.size : \E k \in 0 .. 3 : o + k \notin source.inside
         /\ source.root \in DOMAIN source.tree
BY SplittingAssumption DEF SplitScalars

LEMMA NodeFacts ==
  ASSUME SplitScalars, NEW n \in DOMAIN source.tree
  PROVE  LET node == source.tree[n] IN
         /\ node.start \in 0 .. source.size /\ node.end \in 0 .. source.size
         /\ node.start <= node.end
         /\ node.children \in Seq(DOMAIN source.tree) /\ NodeCount(n) \in Nat
         /\ \A i \in 1 .. NodeCount(n) :
              /\ ChildOf(n, i) \in DOMAIN source.tree
              /\ node.start <= source.tree[ChildOf(n, i)].start
              /\ source.tree[ChildOf(n, i)].start < source.tree[ChildOf(n, i)].end
              /\ source.tree[ChildOf(n, i)].end <= node.end
              /\ i > 1 => source.tree[ChildOf(n, i - 1)].end <= source.tree[ChildOf(n, i)].start
<1> DEFINE node == source.tree[n]
<1>1. /\ node.start \in 0 .. source.size
      /\ node.end \in node.start .. source.size
      /\ node.children \in Seq(DOMAIN source.tree)
      /\ \A i \in DOMAIN node.children :
           LET child == source.tree[node.children[i]] IN
           /\ node.start <= child.start
           /\ child.start < child.end
           /\ child.end <= node.end
           /\ \A j \in 1 .. i - 1 : source.tree[node.children[j]].end <= child.start
  BY SplittingAssumption DEF SplitScalars
<1>2. source.size \in Nat
  BY SourceFacts
<1>3. NodeCount(n) = Len(node.children) /\ \A i : ChildOf(n, i) = node.children[i]
  BY DEF NodeCount, ChildOf
<1> HIDE DEF node
<1>4. NodeCount(n) \in Nat /\ DOMAIN node.children = 1 .. NodeCount(n)
  BY <1>1, <1>3
<1>5. node.start \in 0 .. source.size /\ node.end \in 0 .. source.size /\ node.start <= node.end
  BY <1>1, <1>2
<1>6. ASSUME NEW i \in 1 .. NodeCount(n)
      PROVE  /\ ChildOf(n, i) \in DOMAIN source.tree
             /\ node.start <= source.tree[ChildOf(n, i)].start
             /\ source.tree[ChildOf(n, i)].start < source.tree[ChildOf(n, i)].end
             /\ source.tree[ChildOf(n, i)].end <= node.end
             /\ i > 1 => source.tree[ChildOf(n, i - 1)].end <= source.tree[ChildOf(n, i)].start
  <2>1. i > 1 => i - 1 \in 1 .. i - 1
    BY <1>4
  <2> QED BY <1>1, <1>3, <1>4, <2>1, SMTT(30)
<1> QED BY <1>1, <1>4, <1>5, <1>6 DEF node

\* A split makes progress, keeps the limit and begins a character, or ends the range.
LEMMA NextCutFacts ==
  ASSUME SplitScalars, NEW from \in 0 .. source.size, NEW upto \in 0 .. source.size, from < upto
  PROVE  LET o == NextCut(from, upto) IN
         /\ o \in 0 .. source.size /\ from < o /\ o <= upto /\ o - from <= maxSize
         /\ (o \notin source.inside \/ o = upto)
<1> DEFINE limit == from + maxSize
           behind == source.lines \intersect (from + 1 .. limit)
           split == IF behind # {} THEN Max(behind) ELSE limit
           clean == (from + 1 .. split) \ source.inside
<1>0. NextCut(from, upto) = IF limit >= upto THEN upto ELSE IF clean # {} THEN Max(clean) ELSE limit
  BY DEF NextCut
<1>1. from \in Nat /\ upto \in Nat /\ source.size \in Nat /\ maxSize \in Nat /\ maxSize >= 4 /\ limit \in Nat
  BY SourceFacts
<1>2. CASE limit >= upto
  BY <1>0, <1>1, <1>2
<1>3. CASE limit < upto
  <2>1. split \in from + 1 .. limit /\ clean # {}
    <3>1. CASE behind # {}
      <4>1. Max(behind) \in behind
        <5>1. behind \in SUBSET (0 .. limit)
          BY <1>1
        <5> HIDE DEF behind
        <5> QED BY <1>1, <3>1, <5>1, Largest
      <4>2. split \in source.lines /\ split \in from + 1 .. limit
        BY <3>1, <4>1
      <4>3. split \notin source.inside /\ split \in from + 1 .. split
        BY <1>1, <4>2, SourceFacts
      <4> QED BY <4>2, <4>3
    <3>2. CASE behind = {}
      <4>1. split = limit
        BY <3>2
      <4>2. from + 1 \in 0 .. source.size
        BY <1>1
      <4>3. PICK k \in 0 .. 3 : (from + 1) + k \notin source.inside
        BY <4>2, SourceFacts
      <4>4. (from + 1) + k \in from + 1 .. limit /\ limit \in from + 1 .. limit
        BY <1>1
      <4> QED BY <4>1, <4>3, <4>4
    <3> QED BY <3>1, <3>2
  <2> HIDE DEF split
  <2>2. Max(clean) \in clean
    <3>1. clean \in SUBSET (0 .. limit)
      BY <1>1, <2>1
    <3> HIDE DEF clean
    <3> QED BY <1>1, <2>1, <3>1, Largest
  <2>3. Max(clean) \in from + 1 .. split /\ Max(clean) \notin source.inside
    BY <2>2
  <2>4. NextCut(from, upto) = Max(clean)
    BY <1>0, <1>1, <1>3, <2>1
  <2> HIDE DEF clean
  <2> QED BY <1>1, <1>3, <2>1, <2>3, <2>4
<1> QED BY <1>1, <1>2, <1>3

\* A round of splitAtLines takes the units further.
LEMMA CutOneKeeps ==
  ASSUME SplitScalars, NEW t, NEW w \in LocalsOf(source), NEW a,
         Cover(source, maxSize, t, w.units, a, w.cursor), w.cursor < w.upto,
         CleanAt(source, t, w.cursor), CleanAt(source, t, w.upto)
  PROVE  LET v == CutOne(w) IN
         /\ v \in LocalsOf(source) /\ v.phase = w.phase /\ v.next = w.next /\ v.upto = w.upto
         /\ v.cursor <= v.upto /\ CleanAt(source, t, v.cursor)
         /\ Cover(source, maxSize, t, v.units, a, v.cursor)
<1> DEFINE o == NextCut(w.cursor, w.upto)
           v == [w EXCEPT !.units = Append(@, Span(w.cursor, o)), !.cursor = o]
<1>1. CutOne(w) = v
  BY DEF CutOne
<1>2. w.cursor \in 0 .. source.size /\ w.upto \in 0 .. source.size /\ w.units \in Seq(RangesOf(source))
  BY DEF LocalsOf
<1>3. /\ o \in 0 .. source.size /\ w.cursor < o /\ o <= w.upto /\ o - w.cursor <= maxSize
      /\ (o \notin source.inside \/ o = w.upto)
  BY <1>2, NextCutFacts
<1> HIDE DEF o
<1>4. CleanAt(source, t, o)
  BY <1>3 DEF CleanAt
<1>5. Cover(source, maxSize, t, Append(w.units, Span(w.cursor, o)), a, o)
  <2>1. source.size \in Nat /\ maxSize \in Nat /\ w.cursor <= o
    BY <1>2, <1>3, SourceFacts
  <2> QED BY <1>2, <1>3, <2>1, CoverAppend
<1>6. /\ v \in LocalsOf(source) /\ v.phase = w.phase /\ v.next = w.next /\ v.upto = w.upto
      /\ v.cursor = o /\ v.units = Append(w.units, Span(w.cursor, o))
  <2>1. Span(w.cursor, o) \in RangesOf(source)
    BY <1>2, <1>3 DEF Span, RangesOf
  <2>2. Append(w.units, Span(w.cursor, o)) \in Seq(RangesOf(source))
    BY <1>2, <2>1
  <2> QED BY <1>2, <1>3, <2>2 DEF LocalsOf
<1> HIDE DEF v
<1> QED BY <1>1, <1>3, <1>4, <1>5, <1>6

\* The locals with which a call of structuralUnits begins.
LEMMA LocalsFacts ==
  ASSUME NEW f, NEW phase \in {"uncalled", "open", "returned"}, NEW next \in Nat \ {0},
         NEW cursor \in 0 .. f.size, NEW upto \in 0 .. f.size, NEW units \in Seq(RangesOf(f))
  PROVE  LET w == Locals(phase, next, cursor, upto, units) IN
         /\ w \in LocalsOf(f) /\ w.phase = phase /\ w.next = next
         /\ w.cursor = cursor /\ w.upto = upto /\ w.units = units
BY DEF Locals, LocalsOf

LEMMA CalledKeeps ==
  ASSUME SplitScalars, NEW n \in DOMAIN source.tree
  PROVE  FrameOK(source, maxSize, TRUE, n, Called(n))
<1> DEFINE node == source.tree[n]
<1>1. /\ node.start \in 0 .. source.size /\ node.end \in 0 .. source.size /\ node.start <= node.end
      /\ NodeCount(n) \in Nat /\ NodeCount(n) = Len(node.children)
      /\ source.size \in Nat /\ maxSize \in Nat
  BY NodeFacts, SourceFacts DEF NodeCount
<1>2. CleanAt(source, TRUE, node.start) /\ CleanAt(source, TRUE, node.end)
  BY DEF CleanAt
<1>3. CASE node.end - node.start <= maxSize
  <2> DEFINE units == <<Span(node.start, node.end)>>
             w == Locals("returned", 1, node.end, node.end, units)
  <2>1. Called(n) = w
    BY <1>3 DEF Called
  <2>2. Cover(source, maxSize, TRUE, units, node.start, node.end)
    BY <1>1, <1>2, <1>3, CoverOne
  <2> HIDE DEF node, units
  <2>3. units \in Seq(RangesOf(source))
    BY <2>2 DEF Cover
  <2>4. w \in LocalsOf(source) /\ w.phase = "returned" /\ w.units = units
    <3>1. 1 \in Nat \ {0}
      OBVIOUS
    <3> QED BY <1>1, <2>3, <3>1, LocalsFacts
  <2> HIDE DEF w
  <2> QED BY <2>1, <2>2, <2>4 DEF FrameOK, node
<1>4. CASE node.end - node.start > maxSize
  <2>0. Cover(source, maxSize, TRUE, <<>>, node.start, node.start) /\ <<>> \in Seq(RangesOf(source))
    <3>1. <<>> \in Seq(RangesOf(source))
      OBVIOUS
    <3> QED BY <3>1, CoverNone
  <2>1. \/ Called(n) = Locals("open", NodeCount(n) + 1, node.start, node.end, <<>>)
        \/ NodeCount(n) > 0 /\ Called(n) = Locals("open", 1, node.start, node.start, <<>>)
    <3>1. node.children # <<>> => NodeCount(n) > 0
      BY <1>1, NodeFacts
    <3> QED BY <1>1, <1>4, <3>1 DEF Called
  <2> DEFINE none == <<>>
  <2>5. Cover(source, maxSize, TRUE, none, node.start, node.start) /\ none \in Seq(RangesOf(source))
    BY <2>0
  <2>2. CASE Called(n) = Locals("open", NodeCount(n) + 1, node.start, node.end, <<>>)
    <3> DEFINE last == NodeCount(n) + 1
               w == Locals("open", last, node.start, node.end, none)
    <3>1. last \in Nat \ {0} /\ ~ (last <= Len(node.children))
      BY <1>1
    <3>2. /\ w \in LocalsOf(source) /\ w.phase = "open" /\ w.next = last
          /\ w.cursor = node.start /\ w.upto = node.end /\ w.units = none
      <4> HIDE DEF node, none, last
      <4> QED BY <1>1, <2>5, <3>1, LocalsFacts
    <3> HIDE DEF w, none, last
    <3>3. w.cursor <= w.upto /\ w.upto <= node.end
      BY <1>1, <3>2
    <3>4. FrameOK(source, maxSize, TRUE, n, w)
      BY <1>2, <2>5, <3>1, <3>2, <3>3 DEF FrameOK
    <3> QED BY <2>2, <3>4 DEF w, none, last
  <2>3. CASE NodeCount(n) > 0 /\ Called(n) = Locals("open", 1, node.start, node.start, <<>>)
    <3> DEFINE w == Locals("open", 1, node.start, node.start, none)
    <3>1. 1 \in Nat \ {0} /\ 1 \in 1 .. NodeCount(n)
      BY <1>1, <2>3
    <3>2. /\ w \in LocalsOf(source) /\ w.phase = "open" /\ w.next = 1
          /\ w.cursor = node.start /\ w.upto = node.start /\ w.units = none
      <4> HIDE DEF node, none
      <4> QED BY <1>1, <2>5, <3>1, LocalsFacts
    <3>3. node.start <= source.tree[node.children[1]].start
      BY <3>1, NodeFacts DEF ChildOf
    <3> HIDE DEF w, none
    <3>4. w.cursor <= w.upto /\ w.upto <= node.end
      BY <1>1, <3>2
    <3>5. FrameOK(source, maxSize, TRUE, n, w)
      BY <1>2, <2>5, <3>2, <3>3, <3>4 DEF FrameOK
    <3> QED BY <2>3, <3>5 DEF w, none
  <2> QED BY <2>1, <2>2, <2>3
<1>5. node.end - node.start <= maxSize \/ node.end - node.start > maxSize
  <2> HIDE DEF node
  <2> QED BY <1>1
<1> QED BY <1>3, <1>4, <1>5

\* The units of a child are taken behind what there is, or its gap is cut first.
LEMMA TakeUnitsKeeps ==
  ASSUME SplitScalars, NEW n \in DOMAIN source.tree, TakeUnits(n),
         FrameOK(source, maxSize, TRUE, n, frame[n]),
         FrameOK(source, maxSize, TRUE, ChildOf(n, frame[n].next), frame[ChildOf(n, frame[n].next)])
  PROVE  \E w : frame' = [frame EXCEPT ![n] = w] /\ FrameOK(source, maxSize, TRUE, n, w)
<1> DEFINE w == frame[n]
           c == ChildOf(n, w.next)
           node == source.tree[n]
           child == source.tree[c]
           new == frame[c].units
<1>1. /\ w.phase = "open" /\ w.cursor = w.upto /\ w.next <= NodeCount(n)
      /\ frame[c].phase = "returned"
      /\ frame' = [frame EXCEPT ![n] =
           IF w.cursor < child.start /\ new[1].end - w.cursor > maxSize
           THEN [w EXCEPT !.upto = child.start]
           ELSE Locals("open", w.next + 1, child.end, child.end,
                       w.units \o [new EXCEPT ![1].start = w.cursor])]
  BY DEF TakeUnits, Waits, SplitScalars
<1>2. /\ w \in LocalsOf(source) /\ w.next \in Nat \ {0} /\ w.cursor \in 0 .. source.size
      /\ w.units \in Seq(RangesOf(source))
  BY DEF FrameOK, LocalsOf
<1>3. NodeCount(n) \in Nat /\ w.next \in 1 .. NodeCount(n) /\ NodeCount(n) = Len(node.children)
  BY <1>1, <1>2, NodeFacts DEF NodeCount
<1>4. /\ c \in DOMAIN source.tree /\ node.start <= child.start /\ child.start < child.end
      /\ child.end <= node.end /\ c = node.children[w.next]
  BY <1>3, NodeFacts DEF ChildOf
<1>5. /\ child.start \in 0 .. source.size /\ child.end \in 0 .. source.size
      /\ node.start \in 0 .. source.size /\ node.end \in 0 .. source.size
      /\ source.size \in Nat /\ maxSize \in Nat
  BY <1>4, NodeFacts, SourceFacts
<1>6. CleanAt(source, TRUE, child.start) /\ CleanAt(source, TRUE, child.end)
  BY <1>4 DEF CleanAt
<1>7. /\ Cover(source, maxSize, TRUE, w.units, node.start, w.cursor)
      /\ w.cursor <= child.start /\ CleanAt(source, TRUE, w.cursor)
      /\ Cover(source, maxSize, TRUE, new, child.start, child.end)
  BY <1>1, <1>3, <1>4 DEF FrameOK
<1> HIDE DEF w, c, node, child, new
<1>8. CASE w.cursor < child.start /\ new[1].end - w.cursor > maxSize
  <2> DEFINE v == [w EXCEPT !.upto = child.start]
  <2>1. frame' = [frame EXCEPT ![n] = v]
    BY <1>1, <1>8
  <2>2. /\ v \in LocalsOf(source) /\ v.phase = "open" /\ v.next = w.next /\ v.cursor = w.cursor
        /\ v.upto = child.start /\ v.units = w.units
    BY <1>1, <1>2, <1>5 DEF LocalsOf
  <2> HIDE DEF v
  <2>3. v.cursor <= v.upto /\ v.upto <= node.end
    BY <1>4, <1>5, <1>7, <2>2
  <2>4. v.next <= Len(source.tree[n].children) => v.upto <= source.tree[source.tree[n].children[v.next]].start
    <3>1. source.tree[n].children[v.next] = c
      BY <1>4, <2>2 DEF node
    <3>2. child.start <= child.start
      BY <1>5
    <3> QED BY ONLY <2>2, <3>1, <3>2 DEF child
  <2>5. Cover(source, maxSize, TRUE, v.units, source.tree[n].start, v.cursor)
    BY <1>7, <2>2 DEF node
  <2>6. CleanAt(source, TRUE, v.cursor) /\ CleanAt(source, TRUE, v.upto)
    BY <1>6, <1>7, <2>2
  <2>7. FrameOK(source, maxSize, TRUE, n, v)
    BY <2>2, <2>3, <2>4, <2>5, <2>6 DEF FrameOK, node
  <2> QED BY <2>1, <2>7
<1>9. CASE ~ (w.cursor < child.start /\ new[1].end - w.cursor > maxSize)
  <2> DEFINE first == [new EXCEPT ![1].start = w.cursor]
             units == w.units \o first
             next == w.next + 1
             v == Locals("open", next, child.end, child.end, units)
  <2>1. frame' = [frame EXCEPT ![n] = v]
    BY <1>1, <1>9
  <2>2. new # <<>> /\ new[1].end \in 0 .. source.size /\ new[1].start = child.start
        /\ new[1].end - new[1].start <= maxSize
    <3>1. new # <<>> /\ new \in Seq(RangesOf(source))
      BY <1>4, <1>5, <1>7 DEF Cover, Tiles
    <3>2. 1 \in DOMAIN new /\ new[1] \in RangesOf(source)
      BY <3>1
    <3> QED BY <1>7, <3>1, <3>2 DEF Cover, Tiles, RangesOf
  <2>3. new[1].end - w.cursor <= maxSize
    BY <1>2, <1>5, <1>7, <1>9, <2>2
  <2>4. Cover(source, maxSize, TRUE, first, w.cursor, child.end)
    <3> HIDE DEF first
    <3> QED BY <1>2, <1>5, <1>7, <2>2, <2>3, CoverFirst DEF first
  <2> HIDE DEF first
  <2>5. Cover(source, maxSize, TRUE, units, node.start, child.end)
    BY <1>5, <1>7, <2>4, CoverJoin
  <2>6. units \in Seq(RangesOf(source))
    BY <2>5 DEF Cover
  <2> HIDE DEF units
  <2>7. next \in Nat \ {0} /\ next - 1 = w.next
    BY <1>2
  <2>8. next <= NodeCount(n) => child.end <= source.tree[node.children[next]].start
    <3>1. next <= NodeCount(n) => next \in 1 .. NodeCount(n) /\ next > 1
      BY <1>2, <1>3
    <3> HIDE DEF next
    <3>2. c = ChildOf(n, next - 1)
      BY <2>7 DEF c
    <3>3. ChildOf(n, next) = node.children[next]
      BY DEF ChildOf, node
    <3>4. next <= NodeCount(n) =>
            source.tree[ChildOf(n, next - 1)].end <= source.tree[ChildOf(n, next)].start
      BY <3>1, NodeFacts
    <3> QED BY <3>2, <3>3, <3>4 DEF child
  <2>9. /\ v \in LocalsOf(source) /\ v.phase = "open" /\ v.next = next /\ v.cursor = child.end
        /\ v.upto = child.end /\ v.units = units
    <3> DEFINE end == child.end
               u == Locals("open", next, end, end, units)
    <3>1. end \in 0 .. source.size /\ "open" \in {"uncalled", "open", "returned"}
      BY <1>5
    <3> HIDE DEF next, end
    <3>2. /\ u \in LocalsOf(source) /\ u.phase = "open" /\ u.next = next /\ u.cursor = end
          /\ u.upto = end /\ u.units = units
      BY <2>6, <2>7, <3>1, LocalsFacts
    <3> QED BY <3>2 DEF end
  <2> HIDE DEF v, next
  <2>10. v.cursor <= v.upto /\ v.upto <= node.end
    BY <1>4, <1>5, <2>9
  <2>11. FrameOK(source, maxSize, TRUE, n, v)
    BY <1>3, <1>6, <2>5, <2>8, <2>9, <2>10 DEF FrameOK, node
  <2> QED BY <2>1, <2>11
<1> QED BY <1>8, <1>9

\* What is behind the last child goes with its last unit, or is cut.
LEMMA ReturnKeeps ==
  ASSUME SplitScalars, NEW n \in DOMAIN source.tree, ReturnUnits(n),
         FrameOK(source, maxSize, TRUE, n, frame[n])
  PROVE  \E w : frame' = [frame EXCEPT ![n] = w] /\ FrameOK(source, maxSize, TRUE, n, w)
<1> DEFINE w == frame[n]
           node == source.tree[n]
           end == node.end
           k == Len(w.units)
<1>1. /\ w.phase = "open" /\ w.cursor = w.upto /\ w.next > NodeCount(n)
      /\ frame' = [frame EXCEPT ![n] =
           IF w.cursor = end THEN [w EXCEPT !.phase = "returned"]
           ELSE IF k > 0 /\ end - w.units[k].start <= maxSize
           THEN [w EXCEPT !.phase = "returned", !.cursor = end, !.upto = end, !.units[k].end = end]
           ELSE [w EXCEPT !.upto = end]]
  BY DEF ReturnUnits, Waits
<1>2. /\ w \in LocalsOf(source) /\ w.next \in Nat \ {0} /\ w.cursor \in 0 .. source.size
      /\ w.units \in Seq(RangesOf(source))
  BY DEF FrameOK, LocalsOf
<1>3. /\ NodeCount(n) \in Nat /\ NodeCount(n) = Len(node.children)
      /\ end \in 0 .. source.size /\ source.size \in Nat /\ maxSize \in Nat
  BY NodeFacts, SourceFacts DEF NodeCount
<1>4. CleanAt(source, TRUE, end)
  BY DEF CleanAt
<1>5. /\ Cover(source, maxSize, TRUE, w.units, node.start, w.cursor)
      /\ w.cursor <= end /\ CleanAt(source, TRUE, w.cursor)
  BY <1>1 DEF FrameOK
<1>6. ~ (w.next <= Len(node.children))
  BY <1>1, <1>2, <1>3
<1> HIDE DEF w, k, end
<1>7. CASE w.cursor = end
  <2> DEFINE v == [w EXCEPT !.phase = "returned"]
  <2>1. frame' = [frame EXCEPT ![n] = v]
    BY <1>1, <1>7
  <2>2. v \in LocalsOf(source) /\ v.phase = "returned" /\ v.units = w.units
    BY <1>2 DEF LocalsOf
  <2> HIDE DEF v
  <2> QED BY <1>5, <1>7, <2>1, <2>2 DEF FrameOK, end
<1>8. CASE w.cursor # end /\ k > 0 /\ end - w.units[k].start <= maxSize
  <2> DEFINE units == [w.units EXCEPT ![k].end = end]
             v == [w EXCEPT !.phase = "returned", !.cursor = end, !.upto = end, !.units[k].end = end]
  <2>1. frame' = [frame EXCEPT ![n] = v]
    BY <1>1, <1>8
  <2>2. w.units # <<>>
    BY <1>2, <1>8 DEF k
  <2>3. Cover(source, maxSize, TRUE, units, node.start, end)
    BY <1>3, <1>5, <1>8, <2>2, CoverLast DEF k
  <2>4. units \in Seq(RangesOf(source))
    BY <2>3 DEF Cover
  <2>5. v = [w EXCEPT !.phase = "returned", !.cursor = end, !.upto = end, !.units = units]
    BY <1>2 DEF LocalsOf
  <2> HIDE DEF units, v
  <2>6. v \in LocalsOf(source) /\ v.phase = "returned" /\ v.units = units
    BY <1>2, <1>3, <2>4, <2>5 DEF LocalsOf
  <2> QED BY <2>1, <2>3, <2>6 DEF FrameOK, end
<1>9. CASE w.cursor # end /\ ~ (k > 0 /\ end - w.units[k].start <= maxSize)
  <2> DEFINE v == [w EXCEPT !.upto = end]
  <2>1. frame' = [frame EXCEPT ![n] = v]
    BY <1>1, <1>9
  <2>2. /\ v \in LocalsOf(source) /\ v.phase = "open" /\ v.next = w.next /\ v.cursor = w.cursor
        /\ v.upto = end /\ v.units = w.units
    BY <1>1, <1>2, <1>3 DEF LocalsOf
  <2> HIDE DEF v
  <2>3. v.cursor <= v.upto /\ v.upto <= end
    BY <1>3, <1>5, <2>2
  <2> QED BY <1>4, <1>5, <1>6, <2>1, <2>2, <2>3 DEF FrameOK, end
<1> QED BY <1>7, <1>8, <1>9

LEMMA CutNodeKeeps ==
  ASSUME SplitScalars, NEW n \in DOMAIN source.tree, CutNode(n),
         FrameOK(source, maxSize, TRUE, n, frame[n])
  PROVE  \E w : frame' = [frame EXCEPT ![n] = w] /\ FrameOK(source, maxSize, TRUE, n, w)
<1> DEFINE w == frame[n]
           v == CutOne(w)
<1>1. w.phase = "open" /\ w.cursor < w.upto /\ frame' = [frame EXCEPT ![n] = v]
  BY DEF CutNode, SplitScalars
<1>2. w \in LocalsOf(source)
  BY DEF FrameOK
<1>3. /\ Cover(source, maxSize, TRUE, w.units, source.tree[n].start, w.cursor)
      /\ w.upto <= source.tree[n].end
      /\ CleanAt(source, TRUE, w.cursor) /\ CleanAt(source, TRUE, w.upto)
      /\ w.next <= Len(source.tree[n].children) =>
           w.upto <= source.tree[source.tree[n].children[w.next]].start
  BY <1>1 DEF FrameOK
<1> HIDE DEF w, v
<1>4. /\ v \in LocalsOf(source) /\ v.phase = w.phase /\ v.next = w.next /\ v.upto = w.upto
      /\ v.cursor <= v.upto /\ CleanAt(source, TRUE, v.cursor)
      /\ Cover(source, maxSize, TRUE, v.units, source.tree[n].start, v.cursor)
  BY <1>1, <1>2, <1>3, CutOneKeeps DEF v
<1>5. FrameOK(source, maxSize, TRUE, n, v)
  BY <1>1, <1>3, <1>4 DEF FrameOK
<1> QED BY <1>1, <1>5

\* structuralUnits as it is called for the root, and each of its rounds.
LEMMA NodeStep ==
  ASSUME SplitScalars, FramesOK, FileOK(source, maxSize, route = "tree", stage, whole, spans),
         Parse \/ StructuralUnits
  PROVE  /\ SplitScalars' /\ FramesOK'
         /\ FileOK(source, maxSize, route = "tree", stage, whole, spans)'
<1>1. /\ UNCHANGED <<source, engine, configured, maxSize, attempt, route, whole, spans>>
      /\ route = "tree" /\ stage \in {"parse", "nodes"} /\ stage' = "nodes"
  BY DEF Parse, StructuralUnits, SplitScalars
<1>2. \A n \in DOMAIN source.tree : FrameOK(source, maxSize, TRUE, n, frame[n])
  BY <1>1 DEF FramesOK
<1>3. PICK n \in DOMAIN source.tree :
        \E w : frame' = [frame EXCEPT ![n] = w] /\ FrameOK(source, maxSize, TRUE, n, w)
  <2>1. CASE Parse
    <3>1. source.root \in DOMAIN source.tree
      BY SourceFacts
    <3>2. FrameOK(source, maxSize, TRUE, source.root, Called(source.root))
      BY <3>1, CalledKeeps
    <3> QED BY <2>1, <3>1, <3>2 DEF Parse
  <2>2. ASSUME NEW n \in DOMAIN source.tree, CallChild(n) \/ TakeUnits(n)
        PROVE  ChildOf(n, frame[n].next) \in DOMAIN source.tree
    <3>1. frame[n].next \in Nat \ {0} /\ frame[n].next <= NodeCount(n)
      BY <1>2, <2>2 DEF FrameOK, LocalsOf, CallChild, TakeUnits
    <3>2. frame[n].next \in 1 .. NodeCount(n)
      BY <3>1, NodeFacts
    <3> QED BY <3>2, NodeFacts
  <2>3. ASSUME NEW n \in DOMAIN source.tree, CallChild(n)
        PROVE  \E c \in DOMAIN source.tree : \E w :
                 frame' = [frame EXCEPT ![c] = w] /\ FrameOK(source, maxSize, TRUE, c, w)
    <3> DEFINE c == ChildOf(n, frame[n].next)
    <3>1. c \in DOMAIN source.tree /\ frame' = [frame EXCEPT ![c] = Called(c)]
      BY <2>2, <2>3 DEF CallChild
    <3> HIDE DEF c
    <3>2. FrameOK(source, maxSize, TRUE, c, Called(c))
      BY <3>1, CalledKeeps
    <3> QED BY <3>1, <3>2
  <2>4. ASSUME NEW n \in DOMAIN source.tree, TakeUnits(n)
        PROVE  \E w : frame' = [frame EXCEPT ![n] = w] /\ FrameOK(source, maxSize, TRUE, n, w)
    BY <1>2, <2>2, <2>4, TakeUnitsKeeps
  <2>5. ASSUME NEW n \in DOMAIN source.tree, ReturnUnits(n)
        PROVE  \E w : frame' = [frame EXCEPT ![n] = w] /\ FrameOK(source, maxSize, TRUE, n, w)
    BY <1>2, <2>5, ReturnKeeps
  <2>6. ASSUME NEW n \in DOMAIN source.tree, CutNode(n)
        PROVE  \E w : frame' = [frame EXCEPT ![n] = w] /\ FrameOK(source, maxSize, TRUE, n, w)
    BY <1>2, <2>6, CutNodeKeeps
  <2>7. CASE StructuralUnits
    <3>1. PICK n \in DOMAIN source.tree : CallChild(n) \/ TakeUnits(n) \/ ReturnUnits(n) \/ CutNode(n)
      BY <2>7 DEF StructuralUnits
    <3> QED BY <2>3, <2>4, <2>5, <2>6, <3>1
  <2> QED BY <2>1, <2>7
<1>4. PICK w : frame' = [frame EXCEPT ![n] = w] /\ FrameOK(source, maxSize, TRUE, n, w)
  BY <1>3
<1>5. frame \in [DOMAIN source.tree -> LocalsOf(source)] /\ w \in LocalsOf(source)
  BY <1>4 DEF SplitScalars, FrameOK
<1>6. frame' \in [DOMAIN source.tree -> LocalsOf(source)]
  BY <1>4, <1>5
<1>7. \A m \in DOMAIN source.tree : FrameOK(source, maxSize, TRUE, m, frame'[m])
  BY <1>2, <1>4, <1>5
<1>8. SplitScalars'
  BY <1>1, <1>6 DEF SplitScalars, Stages
<1>9. FramesOK'
  BY <1>1, <1>7 DEF FramesOK
<1>10. FileOK(source, maxSize, route = "tree", stage, whole, spans)'
  BY <1>1 DEF FileOK
<1> QED BY <1>8, <1>9, <1>10

\* The file begins anew, with any size and engine.
LEMMA AnewKeeps ==
  ASSUME NEW f, f.size \in Nat, NEW m \in Nat, NEW t, f.inside \subseteq 1 .. f.size - 1
  PROVE  /\ Uncalled \in LocalsOf(f) /\ Uncalled.phase = "uncalled"
         /\ \A n : FrameOK(f, m, t, n, Uncalled)
         /\ \A at \in {"parse", "blocks"} : FileOK(f, m, t, at, Uncalled, <<>>)
<1> DEFINE none == <<>>
           w == Locals("uncalled", 1, 0, 0, none)
<1>1. none \in Seq(RangesOf(f)) /\ 0 \in 0 .. f.size /\ 1 \in Nat \ {0}
  OBVIOUS
<1>2. Cover(f, m, t, none, 0, 0)
  BY CoverNone
<1>3. CleanAt(f, t, 0)
  BY DEF CleanAt
<1> HIDE DEF none
<1>4. /\ w \in LocalsOf(f) /\ w.phase = "uncalled" /\ w.cursor = 0 /\ w.upto = 0 /\ w.units = none
  BY <1>1, LocalsFacts
<1>5. Uncalled = w
  BY DEF Uncalled, none
<1> HIDE DEF w
<1>6. \A n : FrameOK(f, m, t, n, w)
  BY <1>4 DEF FrameOK
<1>7. \A at \in {"parse", "blocks"} : FileOK(f, m, t, at, w, none)
  BY <1>1, <1>2, <1>3, <1>4 DEF FileOK, none
<1> QED BY <1>4, <1>5, <1>6, <1>7 DEF none

LEMMA RestartKeeps ==
  ASSUME SplitScalars, source' = source, engine' \in Engines, configured' = configured,
         maxSize' \in Sizes, maxSize' <= configured, attempt' \in 0 .. 2,
         NEW r \in Engines, Restarts(r)
  PROVE  /\ SplitScalars' /\ FramesOK'
         /\ FileOK(source, maxSize, route = "tree", stage, whole, spans)'
<1>1. /\ source.size \in Nat /\ source.inside \subseteq 1 .. source.size - 1 /\ maxSize' \in Nat
  BY SourceFacts, SplittingAssumption
<1>2. /\ Uncalled \in LocalsOf(source) /\ Uncalled.phase = "uncalled"
      /\ \A n : FrameOK(source, maxSize', (route = "tree")', n, Uncalled)
      /\ \A at \in {"parse", "blocks"} : FileOK(source, maxSize', (route = "tree")', at, Uncalled, <<>>)
  BY <1>1, AnewKeeps
<1>3. /\ route' = r /\ stage' = (IF r = "tree" THEN "parse" ELSE "blocks")
      /\ frame' = [n \in DOMAIN source.tree |-> Uncalled]
      /\ whole' = Uncalled /\ spans' = <<>>
  BY DEF Restarts
<1>4. SplitScalars'
  BY <1>2, <1>3 DEF SplitScalars, Stages
<1>5. FramesOK'
  BY <1>2, <1>3 DEF FramesOK
<1>6. FileOK(source, maxSize, route = "tree", stage, whole, spans)'
  BY <1>2, <1>3
<1> QED BY <1>4, <1>5, <1>6

\* The steps that leave the frames alone.
FileSteps ==
  \/ CutPrefix \/ AddRoot \/ CutWhole \/ AllUnits
  \/ \E end \in source.lines \union {source.size} : NextBlock(end)
  \/ MergeUnit \/ Merged

LEMMA FileScalars ==
  ASSUME SplitScalars, FramesOK, FileSteps
  PROVE  SplitScalars' /\ FramesOK'
<1>1. UNCHANGED <<source, engine, configured, maxSize, attempt, route, frame>>
  BY DEF FileSteps, CutPrefix, AddRoot, CutWhole, AllUnits, NextBlock, MergeUnit, Merged
<1>2. /\ stage' \in Stages
      /\ stage' \in {"parse", "nodes", "prefix", "suffix"} => route = "tree"
      /\ stage' \in {"prefix", "suffix"} => frame[source.root].phase = "returned"
  BY DEF FileSteps, CutPrefix, AddRoot, CutWhole, AllUnits, NextBlock, MergeUnit, Merged, SplitScalars, Stages
<1>3. SplitScalars'
  BY <1>1, <1>2 DEF SplitScalars
<1>4. FramesOK'
  BY <1>1 DEF FramesOK
<1> QED BY <1>3, <1>4

\* A stage in which the units of the file grow.
LEMMA GrowingOK ==
  ASSUME NEW f, NEW m, NEW t, NEW at \in {"prefix", "suffix", "blocks"}, NEW w \in LocalsOf(f),
         w.phase # "returned", NEW s \in Seq(RangesOf(f)), s = <<>>,
         Cover(f, m, t, w.units, 0, w.cursor), w.cursor <= w.upto,
         CleanAt(f, t, w.cursor), CleanAt(f, t, w.upto),
         at = "prefix" => w.upto = f.tree[f.root].start
  PROVE  FileOK(f, m, t, at, w, s)
BY DEF FileOK

LEMMA PrefixKeeps ==
  ASSUME SplitScalars, FileOK(source, maxSize, TRUE, stage, whole, spans), CutPrefix
  PROVE  FileOK(source, maxSize, TRUE, "prefix", whole', spans)
<1> DEFINE none == <<>>
           start == source.tree[source.root].start
           w == Locals("open", 1, 0, start, none)
<1>1. whole' = w /\ spans \in Seq(RangesOf(source)) /\ spans = <<>>
  BY DEF CutPrefix, FileOK
<1>2. source.root \in DOMAIN source.tree /\ source.size \in Nat
      /\ source.inside \subseteq 1 .. source.size - 1
  BY SourceFacts
<1>3. none \in Seq(RangesOf(source)) /\ 0 \in 0 .. source.size /\ 1 \in Nat \ {0}
      /\ start \in 0 .. source.size /\ 0 <= start
  BY <1>2, NodeFacts
<1>4. Cover(source, maxSize, TRUE, none, 0, 0)
  BY CoverNone
<1>5. CleanAt(source, TRUE, 0) /\ CleanAt(source, TRUE, start)
  BY <1>2 DEF CleanAt
<1> HIDE DEF none, start
<1>6. w \in LocalsOf(source) /\ w.phase = "open" /\ w.cursor = 0 /\ w.upto = start /\ w.units = none
  BY <1>3, LocalsFacts
<1> HIDE DEF w
<1>7. FileOK(source, maxSize, TRUE, "prefix", w, spans)
  BY <1>1, <1>3, <1>4, <1>5, <1>6, GrowingOK DEF start
<1> QED BY <1>1, <1>7

LEMMA RootKeeps ==
  ASSUME SplitScalars, FramesOK, route = "tree",
         FileOK(source, maxSize, TRUE, stage, whole, spans), AddRoot
  PROVE  FileOK(source, maxSize, TRUE, "suffix", whole', spans)
<1> DEFINE root == source.tree[source.root]
           end == root.end
           size == source.size
           units == whole.units \o frame[source.root].units
           w == Locals("open", 1, end, size, units)
<1>1. /\ whole' = w /\ spans \in Seq(RangesOf(source)) /\ spans = <<>>
      /\ whole.cursor = whole.upto /\ stage = "prefix"
  BY DEF AddRoot, FileOK
<1>2. /\ source.root \in DOMAIN source.tree /\ size \in Nat
      /\ source.inside \subseteq 1 .. size - 1
  BY SourceFacts
<1>3. end \in 0 .. size /\ size \in 0 .. size /\ end <= size /\ 1 \in Nat \ {0}
  BY <1>2, NodeFacts
<1>4. Cover(source, maxSize, TRUE, whole.units, 0, root.start)
  BY <1>1 DEF FileOK
<1>5. Cover(source, maxSize, TRUE, frame[source.root].units, root.start, end)
  BY <1>1, <1>2 DEF SplitScalars, FramesOK, FrameOK
<1>6. Cover(source, maxSize, TRUE, units, 0, end)
  BY <1>2, <1>4, <1>5, CoverJoin
<1>7. CleanAt(source, TRUE, end) /\ CleanAt(source, TRUE, size)
  BY <1>2 DEF CleanAt
<1>8. units \in Seq(RangesOf(source))
  BY <1>6 DEF Cover
<1> HIDE DEF units, end
<1>9. w \in LocalsOf(source) /\ w.phase = "open" /\ w.cursor = end /\ w.upto = size /\ w.units = units
  <2> HIDE DEF size
  <2>1. source.size = size
    BY DEF size
  <2> QED BY <1>3, <1>8, <2>1, LocalsFacts
<1> HIDE DEF w, size
<1>10. FileOK(source, maxSize, TRUE, "suffix", w, spans)
  BY <1>1, <1>3, <1>6, <1>7, <1>9, GrowingOK
<1> QED BY <1>1, <1>10

LEMMA BlockKeeps ==
  ASSUME SplitScalars, NEW t, FileOK(source, maxSize, t, stage, whole, spans),
         NEW end \in source.lines \union {source.size}, NextBlock(end)
  PROVE  FileOK(source, maxSize, t, "blocks", whole', spans)
<1> DEFINE cursor == whole.cursor
           units == Append(whole.units, Span(cursor, end))
           v == [whole EXCEPT !.upto = end]
           w == Locals("open", 1, end, end, units)
<1>1. /\ stage = "blocks" /\ cursor = whole.upto /\ end > cursor
      /\ whole' = IF end - cursor > maxSize THEN v ELSE w
  BY DEF NextBlock
<1>2. /\ whole \in LocalsOf(source) /\ whole.phase # "returned" /\ spans \in Seq(RangesOf(source))
      /\ cursor \in 0 .. source.size /\ whole.units \in Seq(RangesOf(source))
      /\ Cover(source, maxSize, t, whole.units, 0, cursor) /\ CleanAt(source, t, cursor)
      /\ spans = <<>>
  BY <1>1 DEF FileOK, LocalsOf
<1>3. /\ source.size \in Nat \ {0} /\ end \in 0 .. source.size /\ maxSize \in Nat /\ end \notin source.inside
  BY SourceFacts
<1>4. CleanAt(source, t, end)
  BY <1>3 DEF CleanAt
<1> HIDE DEF cursor
<1>5. CASE end - cursor > maxSize
  <2>1. /\ v \in LocalsOf(source) /\ v.phase = whole.phase /\ v.cursor = cursor /\ v.upto = end
        /\ v.units = whole.units
    BY <1>2, <1>3 DEF LocalsOf, cursor
  <2>2. cursor <= end /\ whole' = v
    BY <1>1, <1>2, <1>3, <1>5
  <2> HIDE DEF v
  <2> QED BY <1>2, <1>4, <2>1, <2>2, GrowingOK
<1>6. CASE ~ (end - cursor > maxSize)
  <2>1. cursor <= end /\ end - cursor <= maxSize /\ whole' = w /\ end <= end /\ 1 \in Nat \ {0}
    BY <1>1, <1>2, <1>3, <1>6
  <2>2. Cover(source, maxSize, t, units, 0, end)
    BY <1>2, <1>3, <2>1, CoverAppend
  <2>3. units \in Seq(RangesOf(source))
    BY <2>2 DEF Cover
  <2> HIDE DEF units
  <2>4. w \in LocalsOf(source) /\ w.phase = "open" /\ w.cursor = end /\ w.upto = end /\ w.units = units
    BY <1>3, <2>1, <2>3, LocalsFacts
  <2> HIDE DEF w
  <2> QED BY <1>2, <1>4, <2>1, <2>2, <2>4, GrowingOK
<1> QED BY <1>5, <1>6

LEMMA CutWholeKeeps ==
  ASSUME SplitScalars, NEW t, FileOK(source, maxSize, t, stage, whole, spans), CutWhole
  PROVE  FileOK(source, maxSize, t, stage, whole', spans)
<1> DEFINE v == CutOne(whole)
<1>1. stage \in {"prefix", "suffix", "blocks"} /\ whole.cursor < whole.upto /\ whole' = v
  BY DEF CutWhole
<1>2. /\ whole \in LocalsOf(source) /\ whole.phase # "returned" /\ spans \in Seq(RangesOf(source))
      /\ Cover(source, maxSize, t, whole.units, 0, whole.cursor)
      /\ CleanAt(source, t, whole.cursor) /\ CleanAt(source, t, whole.upto)
      /\ stage = "prefix" => whole.upto = source.tree[source.root].start
      /\ spans = <<>>
  BY <1>1 DEF FileOK
<1>3. /\ v \in LocalsOf(source) /\ v.phase = whole.phase /\ v.upto = whole.upto
      /\ v.cursor <= v.upto /\ CleanAt(source, t, v.cursor)
      /\ Cover(source, maxSize, t, v.units, 0, v.cursor)
  BY <1>1, <1>2, CutOneKeeps
<1> HIDE DEF v
<1> QED BY <1>1, <1>2, <1>3, GrowingOK

LEMMA AllUnitsKeeps ==
  ASSUME SplitScalars, NEW t, FileOK(source, maxSize, t, stage, whole, spans), AllUnits
  PROVE  FileOK(source, maxSize, t, "merge", whole, spans)
<1>1. /\ whole \in LocalsOf(source) /\ whole.phase # "returned" /\ spans \in Seq(RangesOf(source))
      /\ Cover(source, maxSize, t, whole.units, 0, source.size)
      /\ spans = <<>>
  BY DEF AllUnits, FileOK
<1>2. Cover(source, maxSize, t, spans, 0, 0) /\ DOMAIN spans = {}
  BY <1>1, CoverNone
<1> QED BY <1>1, <1>2 DEF FileOK

\* A unit goes with the last span, is a span of its own, or has nothing in it.
LEMMA MergeKeeps ==
  ASSUME SplitScalars, NEW t, FileOK(source, maxSize, t, stage, whole, spans), MergeUnit
  PROVE  FileOK(source, maxSize, t, "merge", whole', spans')
<1> DEFINE units == whole.units
           unit == Head(units)
           k == Len(spans)
           met == IF spans = <<>> THEN 0 ELSE spans[k].end
           v == [whole EXCEPT !.units = Tail(@)]
<1>1. /\ stage = "merge" /\ units # <<>> /\ whole' = v
      /\ spans' = IF unit.end <= unit.start THEN spans
                  ELSE IF k > 0 /\ unit.start = spans[k].end /\ unit.end - spans[k].start <= maxSize
                  THEN [spans EXCEPT ![k].end = unit.end]
                  ELSE Append(spans, unit)
  BY DEF MergeUnit
<1>2. /\ whole \in LocalsOf(source) /\ whole.phase # "returned" /\ spans \in Seq(RangesOf(source))
      /\ Cover(source, maxSize, t, spans, 0, met)
      /\ Cover(source, maxSize, t, units, met, source.size)
      /\ \A i \in DOMAIN spans : spans[i].start < spans[i].end
  BY <1>1 DEF FileOK
<1>3. source.size \in Nat /\ maxSize \in Nat
  BY SourceFacts
<1>4. /\ unit \in RangesOf(source) /\ unit.start = met /\ unit.start <= unit.end
      /\ unit.end - unit.start <= maxSize /\ CleanAt(source, t, met)
      /\ Cover(source, maxSize, t, Tail(units), unit.end, source.size)
  BY <1>1, <1>2, <1>3, CoverTail
<1>5. unit.start \in 0 .. source.size /\ unit.end \in 0 .. source.size /\ unit = Span(unit.start, unit.end)
  BY <1>4 DEF RangesOf, Span
<1>6. /\ k \in Nat /\ DOMAIN spans = 1 .. k /\ (k = 0 <=> spans = <<>>)
      /\ \A i \in 1 .. k : spans[i].start \in 0 .. source.size /\ spans[i].end \in 0 .. source.size
  <2>1. \A i \in DOMAIN spans : spans[i] \in RangesOf(source)
    BY <1>2
  <2>2. \A x \in RangesOf(source) : x.start \in 0 .. source.size /\ x.end \in 0 .. source.size
    BY DEF RangesOf
  <2> QED BY <1>2, <2>1, <2>2
<1>7. v \in LocalsOf(source) /\ v.phase = whole.phase /\ v.units = Tail(units)
  <2>1. Tail(units) \in Seq(RangesOf(source))
    BY <1>4 DEF Cover
  <2> QED BY <1>2, <2>1 DEF LocalsOf
<1> HIDE DEF v, unit
<1>8. ASSUME NEW s, Cover(source, maxSize, t, s, 0, unit.end),
             s = <<>> => unit.end = 0, s # <<>> => s[Len(s)].end = unit.end,
             \A i \in DOMAIN s : s[i].start < s[i].end
      PROVE  FileOK(source, maxSize, t, "merge", v, s)
  <2>1. s \in Seq(RangesOf(source))
    BY <1>8 DEF Cover
  <2>2. (IF s = <<>> THEN 0 ELSE s[Len(s)].end) = unit.end
    BY <1>8
  <2>3. Cover(source, maxSize, t, v.units, unit.end, source.size) /\ v.phase # "returned"
    BY <1>2, <1>4, <1>7
  <2> QED BY <1>7, <1>8, <2>1, <2>2, <2>3 DEF FileOK
<1>9. CASE unit.end <= unit.start
  <2>1. unit.end = met /\ spans' = spans
    BY <1>1, <1>4, <1>5, <1>9
  <2>2. /\ spans = <<>> => unit.end = 0
        /\ spans # <<>> => spans[Len(spans)].end = unit.end
    BY <2>1
  <2>3. Cover(source, maxSize, t, spans, 0, unit.end)
    BY <1>2, <2>1
  <2>4. FileOK(source, maxSize, t, "merge", v, spans)
    BY <1>2, <1>8, <2>2, <2>3
  <2> QED BY <1>1, <2>1, <2>4
<1>10. CASE unit.end > unit.start /\ k > 0 /\ unit.end - spans[k].start <= maxSize
  <2> DEFINE s == [spans EXCEPT ![k].end = unit.end]
  <2>1. spans # <<>> /\ met = spans[k].end
    BY <1>6, <1>10
  <2>2. spans' = s
    BY <1>1, <1>4, <1>5, <1>10, <2>1
  <2>3. Cover(source, maxSize, t, s, 0, unit.end)
    BY <1>2, <1>3, <1>4, <1>5, <1>10, <2>1, CoverLast
  <2>4. /\ DOMAIN s = 1 .. k /\ Len(s) = k /\ s # <<>> /\ k \in 1 .. k
        /\ s[k].end = unit.end /\ s[k].start = spans[k].start
        /\ \A i \in 1 .. k : i # k => s[i] = spans[i]
    BY <1>2, <1>6, <1>10
  <2> HIDE DEF s, k
  <2>5. \A i \in DOMAIN s : s[i].start < s[i].end
    BY <1>2, <1>4, <1>5, <1>6, <1>10, <2>1, <2>4
  <2>6. FileOK(source, maxSize, t, "merge", v, s)
    BY <1>8, <2>3, <2>4, <2>5
  <2> QED BY <1>1, <2>2, <2>6
<1>11. CASE unit.end > unit.start /\ ~ (k > 0 /\ unit.end - spans[k].start <= maxSize)
  <2> DEFINE s == Append(spans, unit)
  <2>1. spans' = s
    BY <1>1, <1>5, <1>11
  <2>2. met \in 0 .. source.size /\ met <= unit.end /\ unit.end - met <= maxSize
    BY <1>4, <1>5
  <2>3. Cover(source, maxSize, t, Append(spans, Span(met, unit.end)), 0, unit.end)
    BY <1>2, <1>3, <1>4, <1>5, <2>2, CoverAppend
  <2>4. Cover(source, maxSize, t, s, 0, unit.end)
    BY <1>4, <1>5, <2>3
  <2>5. /\ DOMAIN s = 1 .. k + 1 /\ Len(s) = k + 1 /\ s # <<>> /\ s[k + 1] = unit
        /\ \A i \in 1 .. k : s[i] = spans[i]
    BY <1>2, <1>4, <1>6
  <2> HIDE DEF s, k
  <2>6. \A i \in 1 .. k + 1 : i \in 1 .. k \/ i = k + 1
    BY <1>6
  <2>7. \A i \in DOMAIN s : s[i].start < s[i].end
    BY <1>2, <1>5, <1>6, <1>11, <2>5, <2>6
  <2>8. FileOK(source, maxSize, t, "merge", v, s)
    BY <1>8, <2>4, <2>5, <2>7
  <2> QED BY <1>1, <2>1, <2>8
<1>12. unit.end <= unit.start \/ unit.end > unit.start
  BY <1>5
<1> QED BY <1>9, <1>10, <1>11, <1>12

LEMMA MergedKeeps ==
  ASSUME SplitScalars, NEW t, FileOK(source, maxSize, t, stage, whole, spans), Merged
  PROVE  FileOK(source, maxSize, t, "measure", whole, spans)
<1> DEFINE met == IF spans = <<>> THEN 0 ELSE spans[Len(spans)].end
<1>1. stage = "merge" /\ whole.units = <<>>
  BY DEF Merged
<1>2. /\ whole \in LocalsOf(source) /\ whole.phase # "returned" /\ spans \in Seq(RangesOf(source))
      /\ Cover(source, maxSize, t, spans, 0, met) /\ Cover(source, maxSize, t, <<>>, met, source.size)
      /\ \A i \in DOMAIN spans : spans[i].start < spans[i].end
  BY <1>1 DEF FileOK
<1>3. met = source.size
  BY <1>2 DEF Cover, Tiles
<1> QED BY <1>2, <1>3 DEF FileOK

LEMMA FileStep ==
  ASSUME SplitScalars, FramesOK, FileOK(source, maxSize, route = "tree", stage, whole, spans), FileSteps
  PROVE  /\ SplitScalars' /\ FramesOK'
         /\ FileOK(source, maxSize, route = "tree", stage, whole, spans)'
<1>1. SplitScalars' /\ FramesOK'
  BY FileScalars
<1>2. UNCHANGED <<source, maxSize, route>>
  BY DEF FileSteps, CutPrefix, AddRoot, CutWhole, AllUnits, NextBlock, MergeUnit, Merged
<1> DEFINE t == route = "tree"
<1>3. t \in BOOLEAN /\ (t <=> route = "tree")
  OBVIOUS
<1>4. FileOK(source, maxSize, t, stage, whole, spans)
  OBVIOUS
<1> HIDE DEF t
<1>5. FileOK(source, maxSize, t, stage', whole', spans')
  <2>1. CASE CutPrefix
    <3>1. t = TRUE /\ stage' = "prefix" /\ spans' = spans
      BY <1>3, <2>1 DEF CutPrefix, SplitScalars
    <3> QED BY <1>4, <2>1, <3>1, PrefixKeeps
  <2>2. CASE AddRoot
    <3>1. t = TRUE /\ route = "tree" /\ stage' = "suffix" /\ spans' = spans
      BY <1>3, <2>2 DEF AddRoot, SplitScalars
    <3> QED BY <1>4, <2>2, <3>1, RootKeeps
  <2>3. CASE CutWhole
    <3>1. stage' = stage /\ spans' = spans
      BY <2>3 DEF CutWhole
    <3> QED BY <1>4, <2>3, <3>1, CutWholeKeeps
  <2>4. CASE AllUnits
    <3>1. stage' = "merge" /\ spans' = spans /\ whole' = whole
      BY <2>4 DEF AllUnits
    <3> QED BY <1>4, <2>4, <3>1, AllUnitsKeeps
  <2>5. ASSUME NEW end \in source.lines \union {source.size}, NextBlock(end)
        PROVE  FileOK(source, maxSize, t, stage', whole', spans')
    <3>1. stage' = "blocks" /\ spans' = spans
      BY <2>5 DEF NextBlock
    <3> QED BY <1>4, <2>5, <3>1, BlockKeeps
  <2>6. CASE MergeUnit
    <3>1. stage' = "merge"
      BY <2>6 DEF MergeUnit
    <3> QED BY <1>4, <2>6, <3>1, MergeKeeps
  <2>7. CASE Merged
    <3>1. stage' = "measure" /\ spans' = spans /\ whole' = whole
      BY <2>7 DEF Merged
    <3> QED BY <1>4, <2>7, <3>1, MergedKeeps
  <2> QED BY <2>1, <2>2, <2>3, <2>4, <2>5, <2>6, <2>7 DEF FileSteps
<1> QED BY <1>1, <1>2, <1>5 DEF t

\* What ends an attempt: its engine throws, or its inputs are measured.
LEMMA AttemptStep ==
  ASSUME SplitScalars, FramesOK, FileOK(source, maxSize, route = "tree", stage, whole, spans),
         Degrade \/ Measure
  PROVE  /\ SplitScalars' /\ FramesOK'
         /\ FileOK(source, maxSize, route = "tree", stage, whole, spans)'
<1>0. source' = source /\ engine' \in Engines /\ configured' = configured /\ maxSize \in Sizes
      /\ maxSize <= configured /\ attempt \in 0 .. 2 /\ engine \in Engines
  BY DEF Degrade, Measure, SplitScalars
<1>1. ASSUME UNCHANGED <<maxSize, attempt, route, frame, whole, spans>>,
             \/ stage' = "failed"
             \/ stage = "measure" /\ stage' = "delivered"
      PROVE  /\ SplitScalars' /\ FramesOK'
             /\ FileOK(source, maxSize, route = "tree", stage, whole, spans)'
  <2>1. SplitScalars'
    BY <1>0, <1>1 DEF SplitScalars, Stages
  <2>2. FramesOK'
    BY <1>0, <1>1 DEF FramesOK
  <2>3. FileOK(source, maxSize, route = "tree", stage', whole, spans)
    BY <1>1 DEF FileOK
  <2>4. FileOK(source, maxSize, route = "tree", stage, whole, spans)'
    BY <1>0, <1>1, <2>3
  <2> QED BY <2>1, <2>2, <2>4
<1>2. CASE Degrade
  <2>1. CASE \/ route = "tree" /\ Restarts("logical")
             \/ route = "logical" /\ Restarts("plain")
    <3>1. maxSize' \in Sizes /\ maxSize' <= configured /\ attempt' \in 0 .. 2
      BY <1>0, <1>2 DEF Degrade
    <3>2. "logical" \in Engines /\ "plain" \in Engines
      BY DEF Engines
    <3> QED BY <1>0, <2>1, <3>1, <3>2, RestartKeeps
  <2>2. CASE stage' = "failed" /\ UNCHANGED <<route, frame, whole, spans>>
    BY <1>1, <1>2, <2>2 DEF Degrade
  <2> QED BY <1>2, <2>1, <2>2 DEF Degrade
<1>3. CASE Measure
  <2>1. CASE /\ stage' \in (IF attempt = 2 THEN {"delivered", "failed"} ELSE {"delivered"})
             /\ UNCHANGED <<maxSize, attempt, route, frame, whole, spans>>
    BY <1>1, <1>3, <2>1 DEF Measure
  <2>2. CASE /\ attempt < 2
             /\ attempt' = attempt + 1
             /\ maxSize' \in (IF attempt = 0 THEN {MinSize} \union {z \in Sizes : z < maxSize}
                              ELSE {maxSize})
             /\ Restarts(engine)
    <3>1. MinSize \in Sizes /\ MinSize \in Nat /\ configured \in Nat /\ maxSize \in Nat
          /\ \A z \in Sizes : z \in Nat /\ MinSize <= z
      BY <1>0, SplittingAssumption DEF SplitScalars
    <3>2. maxSize' \in Sizes /\ maxSize' <= configured /\ attempt' \in 0 .. 2
      BY <1>0, <2>2, <3>1
    <3> QED BY <1>0, <2>2, <3>2, RestartKeeps
  <2> QED BY <1>3, <2>1, <2>2 DEF Measure
<1> QED BY <1>2, <1>3

LEMMA SplitStarts == SplitInit => SplitInv
<1> SUFFICES ASSUME SplitInit PROVE SplitInv
  OBVIOUS
<1>1. /\ source \in Sources /\ engine \in Engines /\ configured \in Sizes /\ maxSize = configured
      /\ attempt = 0 /\ route = engine
      /\ stage = (IF engine = "tree" THEN "parse" ELSE "blocks")
      /\ frame = [n \in DOMAIN source.tree |-> Uncalled]
      /\ whole = Uncalled /\ spans = <<>>
  BY DEF SplitInit
<1>2. /\ source.size \in Nat /\ source.inside \subseteq 1 .. source.size - 1
      /\ maxSize \in Nat /\ maxSize <= configured
  BY <1>1, SplittingAssumption
<1>3. /\ Uncalled \in LocalsOf(source) /\ Uncalled.phase = "uncalled"
      /\ \A n : FrameOK(source, maxSize, route = "tree", n, Uncalled)
      /\ \A at \in {"parse", "blocks"} : FileOK(source, maxSize, route = "tree", at, Uncalled, <<>>)
  BY <1>2, AnewKeeps
<1>4. SplitScalars
  BY <1>1, <1>2, <1>3 DEF SplitScalars, Stages
<1>5. FramesOK
  BY <1>1, <1>3 DEF FramesOK
<1>6. FileOK(source, maxSize, route = "tree", stage, whole, spans)
  BY <1>1, <1>3
<1> QED BY <1>4, <1>5, <1>6, SplitParts

LEMMA SplitSteps == SplitInv /\ [SplitNext]_splitVars => SplitInv'
<1> SUFFICES ASSUME SplitInv, [SplitNext]_splitVars PROVE SplitInv'
  OBVIOUS
<1> DEFINE Intact == SplitScalars /\ FramesOK /\ FileOK(source, maxSize, route = "tree", stage, whole, spans)
<1>1. Intact
  BY SplitParts
<1>2. SplitInv' <=> Intact'
  BY SplitParts, PTL
<1>3. CASE UNCHANGED splitVars
  <2>1. UNCHANGED <<source, engine, configured, maxSize, attempt, route, stage, frame, whole, spans>>
    BY <1>3 DEF splitVars
  <2>2. SplitScalars'
    BY <1>1, <2>1 DEF SplitScalars
  <2>3. FramesOK'
    BY <1>1, <2>1 DEF FramesOK
  <2>4. FileOK(source, maxSize, route = "tree", stage, whole, spans)'
    BY <1>1, <2>1
  <2> QED BY <1>2, <2>2, <2>3, <2>4
<1>4. CASE Parse \/ StructuralUnits
  BY <1>1, <1>2, <1>4, NodeStep
<1>5. CASE FileSteps
  BY <1>1, <1>2, <1>5, FileStep
<1>6. CASE Degrade \/ Measure
  BY <1>1, <1>2, <1>6, AttemptStep
<1> HIDE DEF Intact
<1> QED BY <1>3, <1>4, <1>5, <1>6 DEF SplitNext, FileSteps

\* Every call of structuralUnits stays within the file, and the limit only goes down.
THEOREM SplitTyped == SplitSpec => []SplitTypeOK
<1>1. SplitInv => SplitTypeOK
  BY DEF SplitInv
<1> QED BY <1>1, SplitStarts, SplitSteps, PTL DEF SplitSpec

\* The byte ranges of a file's chunks are the file, and so are their texts unless the parser
\* gives an offset within a character: for every file, syntax tree and size, wherever the
\* engines fail and however often the budget makes it chunk again.
THEOREM Rebuilt == SplitSpec => []RangesRebuild
<1>1. SplitInv => RangesRebuild
  BY DEF SplitInv
<1> QED BY <1>1, SplitStarts, SplitSteps, PTL DEF SplitSpec
=============================================================================
