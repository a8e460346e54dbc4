--------------------------- MODULE EmbeddingProofs ---------------------------
(***************************************************************************)
(* Theorems about the embedding stage for every number of runners,         *)
(* snapshots, chunks, models and jobs, proved with TLAPS.                  *)
(***************************************************************************)
EXTENDS Embedding, JobTableProofs, TLAPS

-----------------------------------------------------------------------------
(* Type correctness.                                                       *)

\* The initial state is well typed.
LEMMA TypeInit == Init => TypeOK
  <1> SUFFICES ASSUME Init PROVE TypeOK
    OBVIOUS
  <1>1. jobs \in [Jobs -> JobRow]
    BY ConstantRows DEF Init
  <1>2. target \in [Jobs -> Target]
    BY DEF Init, Target
  <1>3. QED
    BY <1>1, <1>2 DEF Init, TypeOK, Pcs, WorkPcs, StorePcs, AbsentJob

\* The model a runner is using is one of the catalog.
LEMMA ModelType ==
  ASSUME TypeOK, NEW r \in Runners, Working(r), rank[r] \in 1 .. Len(Candidates(r))
  PROVE  Model(r) \in Models
  <1>1. Snapshot(r) \in Snapshots /\ target[held[r]].selection \in Selections
    BY DEF TypeOK, Working, Snapshot, Target
  <1>2. Candidates(r) \in Seq(Models)
    BY <1>1, CandidatesAssumption DEF Candidates
  <1>3. QED
    BY <1>2 DEF Model

\* Releasing the locals of process keeps the types of a runner's variables.
LEMMA LeaveTypes ==
  ASSUME TypeOK, NEW r \in Runners, NEW where \in Pcs \ WorkPcs, Leave(r, where)
  PROVE  /\ pc' \in [Runners -> Pcs]
         /\ held' \in [Runners -> Jobs \union {None}]
         /\ rank' \in [Runners -> Nat]
         /\ pending' \in [Runners -> SUBSET Chunks]
         /\ \A s \in Runners : Working(s)' => Working(s) /\ held'[s] = held[s] /\ s # r
  BY DEF TypeOK, Leave, Working

\* A prune, which deletes rows, keeps the types.
LEMMA PruneTypes ==
  ASSUME TypeOK, NEW s \in Snapshots, PruneSnapshot(s)
  PROVE  TypeOK'
  <1>1. jobs' \in [Jobs -> JobRow]
    BY ConstantRows DEF PruneSnapshot, TypeOK
  <1>2. \A j \in Jobs : jobs'[j].status # "absent" => jobs[j].status # "absent"
    BY DEF PruneSnapshot, TypeOK, AbsentJob
  <1>3. QED
    BY <1>1, <1>2 DEF PruneSnapshot, TypeOK, runnerVars, counters

-----------------------------------------------------------------------------
(* Types and the progress of the store, whatever the leases do.            *)

\* A runner that does not step keeps its account of the store, as long as its
\* job keeps its target and no point goes away.
LEMMA OthersStore ==
  ASSUME TypeOK, NEW s \in Runners, StoreOf(s),
         pc'[s] = pc[s], held'[s] = held[s], rank'[s] = rank[s], pending'[s] = pending[s],
         Working(s) => target'[held[s]] = target[held[s]],
         \A m \in Models, c \in Chunks : points[m][c] # None => points'[m][c] # None
  PROVE  StoreOf(s)'
  <1>1. CASE ~Working(s)
    BY <1>1 DEF StoreOf, Working, WorkPcs, StorePcs
  <1>2. CASE Working(s)
    <2>1. Snapshot(s)' = Snapshot(s) /\ Candidates(s)' = Candidates(s) /\ Model(s)' = Model(s)
      BY <1>2 DEF Snapshot, Candidates, Model
    <2>2. (rank[s] \in 1 .. Len(Candidates(s)))' <=> rank[s] \in 1 .. Len(Candidates(s))
      BY <2>1
    <2>3. ASSUME pc[s] \in StorePcs, NEW c \in ChunksOf[Snapshot(s)]
          PROVE  c \in pending'[s] \/ points'[Model(s)'][c] # None
      <3>1. Model(s) \in Models
        BY <1>2, <2>3, ModelType DEF StoreOf
      <3>2. c \in Chunks
        BY <1>2, <2>3, ChunksAssumption DEF TypeOK, Working, Snapshot
      <3>3. QED
        BY <2>1, <2>3, <3>1, <3>2 DEF StoreOf
    <2>4. QED
      BY <2>1, <2>2, <2>3 DEF StoreOf
  <1>3. QED
    BY <1>1, <1>2

\* Steps of the other stages and of time keep both.
LEMMA OutsideSteps ==
  ASSUME TypeOK, StoreProgress,
         \/ \E s \in Snapshots : PruneSnapshot(s) \/ \E m \in Selections : ensure_embedding_job(s, m)
         \/ \E j \in Jobs : LeaseExpires(j) \/ BackoffElapses(j)
         \/ UNCHANGED vars
  PROVE  TypeOK' /\ StoreProgress'
  <1> USE DEF TypeOK
  <1>1. UNCHANGED <<points, pc, held, rank, pending>>
    BY DEF PruneSnapshot, ensure_embedding_job, LeaseExpires, BackoffElapses, vars, runnerVars
  <1>2. \A s \in Runners : Working(s) => target'[held[s]] = target[held[s]]
    <2>1. ASSUME NEW t \in Snapshots, NEW m \in Selections, ensure_embedding_job(t, m),
                 NEW s \in Runners, Working(s)
          PROVE  target'[held[s]] = target[held[s]]
      BY <2>1, NullAssumption DEF ensure_embedding_job, Working
    <2>2. QED
      BY <2>1 DEF PruneSnapshot, LeaseExpires, BackoffElapses, vars, database
  <1>3. StoreProgress'
    BY <1>1, <1>2, OthersStore DEF StoreProgress
  <1>4. ASSUME NEW t \in Snapshots, NEW m \in Selections, ensure_embedding_job(t, m)
        PROVE  TypeOK'
    <2>1. [snapshot |-> t, selection |-> m] \in Target
      BY DEF Target
    <2>2. jobs' \in [Jobs -> JobRow] /\ target' \in [Jobs -> Target]
      BY <1>4, <2>1, ConstantRows DEF ensure_embedding_job
    <2>3. \A j \in Jobs : jobs'[j].status # "absent" => target'[j].snapshot \in Snapshots
      BY <1>4 DEF ensure_embedding_job
    <2>4. QED
      BY <1>1, <1>2, <1>4, <2>2, <2>3 DEF ensure_embedding_job, counters, Working
  <1>5. ASSUME NEW j \in Jobs, LeaseExpires(j) \/ BackoffElapses(j) PROVE TypeOK'
    <2>1. jobs' \in [Jobs -> JobRow] /\ \A k \in Jobs : jobs'[k].status = jobs[k].status
      <3>1. CASE LeaseExpires(j)
        BY <3>1 DEF LeaseExpires, JobRow, Leases
      <3>2. CASE BackoffElapses(j)
        BY <3>2 DEF BackoffElapses, JobRow
      <3>3. QED
        BY <1>5, <3>1, <3>2
    <2>2. QED
      BY <1>1, <1>5, <2>1 DEF LeaseExpires, BackoffElapses, counters
  <1>6. ASSUME UNCHANGED vars PROVE TypeOK'
    BY <1>6 DEF vars, database, runnerVars, counters
  <1>7. QED
    BY <1>3, <1>4, <1>5, <1>6, PruneTypes

\* A claim keeps both: what is claimed has a snapshot.
LEMMA ClaimTypes ==
  ASSUME TypeOK, StoreProgress, NEW r \in Runners, claim_next(r)
  PROVE  TypeOK' /\ StoreProgress'
  <1> USE DEF TypeOK
  <1> DEFINE requeued == [j \in Jobs |-> RequeueExpired(jobs[j])]
  <1>1. requeued \in [Jobs -> JobRow]
    BY RowTypes
  <1>2. \A j \in Jobs : requeued[j].status # "absent" => jobs[j].status # "absent"
    BY DEF RequeueExpired
  <1>3. UNCHANGED <<target, selected, finished, clock, pruned, points, rank, pending, counters>>
    BY DEF claim_next
  <1>4. CASE jobs' = requeued /\ UNCHANGED <<pc, held>>
    <2> HIDE DEF requeued
    <2>1. TypeOK'
      BY <1>1, <1>2, <1>3, <1>4 DEF counters
    <2>2. StoreProgress'
      BY <1>3, <1>4, OthersStore DEF StoreProgress
    <2>3. QED
      BY <2>1, <2>2
  <1>5. ASSUME NEW j \in Jobs, Claimable(requeued[j]),
               jobs' = [requeued EXCEPT ![j] = ClaimRow(requeued[j])],
               pc' = [pc EXCEPT ![r] = "claimed"], held' = [held EXCEPT ![r] = j]
        PROVE  TypeOK' /\ StoreProgress'
    <2>1. ClaimRow(requeued[j]) \in JobRow
      BY <1>1, RowTypes
    <2>2. jobs[j].status # "absent"
      BY <1>2, <1>5 DEF Claimable
    <2> HIDE DEF requeued
    <2>3. jobs' \in [Jobs -> JobRow]
      BY <1>1, <1>5, <2>1
    <2>4. \A k \in Jobs : jobs'[k].status # "absent" => target[k].snapshot \in Snapshots
      BY <1>1, <1>2, <1>5, <2>2
    <2>5. TypeOK'
      BY <1>3, <1>5, <2>2, <2>3, <2>4 DEF Pcs, WorkPcs, counters
    <2>6. StoreOf(r)'
      BY <1>5 DEF StoreOf, StorePcs
    <2>7. \A s \in Runners \ {r} : StoreOf(s)'
      BY <1>3, <1>5, OthersStore DEF StoreProgress
    <2>8. QED
      BY <2>5, <2>6, <2>7 DEF StoreProgress
  <1>6. QED
    BY <1>4, <1>5 DEF claim_next

\* Leaving process keeps both, whatever well-typed row is written.
LEMMA LeaveStep ==
  ASSUME TypeOK, StoreProgress, NEW r \in Runners, NEW where \in Pcs \ WorkPcs, Leave(r, where),
         jobs' \in [Jobs -> JobRow], UNCHANGED <<target, pruned, points>>,
         \A j \in Jobs : jobs'[j].status # "absent" => jobs[j].status # "absent",
         selected' \in [Jobs -> Models \union {None}], finished' \in [Jobs -> Nat], clock' \in Nat,
         crashes' \in Nat, expiries' \in Nat, outages' \in Nat
  PROVE  TypeOK' /\ StoreProgress'
  <1>1. TypeOK'
    BY LeaveTypes DEF TypeOK, Working
  <1>2. StoreOf(r)'
    BY LeaveTypes DEF TypeOK, Leave, StoreOf, StorePcs, WorkPcs
  <1>3. \A s \in Runners \ {r} : StoreOf(s)'
    BY OthersStore DEF StoreProgress, Leave, TypeOK
  <1>4. QED
    BY <1>1, <1>2, <1>3 DEF StoreProgress

\* Steps of a runner inside process that write no row.
LEMMA InnerSteps ==
  ASSUME TypeOK, StoreProgress, NEW r \in Runners,
         \/ Begin(r) /\ jobs[held[r]].status = "running"
         \/ Probe(r) \/ ReadHashes(r) \/ EmbedBatches(r) \/ ModelFails(r) \/ Fails(r) \/ Restart(r)
  PROVE  TypeOK' /\ StoreProgress'
  <1> USE DEF TypeOK, StoreProgress
  <1>1. UNCHANGED <<database, points, held, counters>>
    BY DEF Begin, Probe, ReadHashes, EmbedBatches, ModelFails, Fails, Restart
  <1>2. \A s \in Runners \ {r} : pc'[s] = pc[s] /\ rank'[s] = rank[s] /\ pending'[s] = pending[s]
    BY DEF Begin, Probe, ReadHashes, EmbedBatches, ModelFails, Fails, Restart
  <1>3. \A s \in Runners \ {r} : StoreOf(s)'
    BY <1>1, <1>2, OthersStore DEF database
  <1>4. Snapshot(r)' = Snapshot(r) /\ Candidates(r)' = Candidates(r) /\ points' = points
    BY <1>1 DEF Snapshot, Candidates, database
  <1>5. CASE Begin(r) /\ jobs[held[r]].status = "running"
    <2>1. Len(Candidates(r)) \in Nat \ {0}
      BY <1>5, CandidatesAssumption DEF Begin, Candidates, Snapshot, Target, WorkPcs
    <2>2. pc'[r] \in {"probing", "failing"} /\ rank'[r] = 1
      BY <1>5 DEF Begin
    <2>3. StoreOf(r)'
      BY <1>4, <2>1, <2>2 DEF StoreOf, StorePcs
    <2>4. TypeOK'
      BY <1>1, <1>5 DEF Begin, database, counters, Pcs, WorkPcs
    <2>5. QED
      BY <1>3, <2>3, <2>4
  <1>6. CASE Probe(r) \/ EmbedBatches(r)
    <2>1. StoreOf(r)'
      <3>1. rank' = rank /\ pending' = pending /\ Model(r)' = Model(r)
        BY <1>4, <1>6 DEF Probe, EmbedBatches, Model
      <3>2. CASE Probe(r)
        BY <1>4, <3>1, <3>2 DEF Probe, StoreOf, StorePcs
      <3>3. CASE EmbedBatches(r)
        BY <1>4, <3>1, <3>3 DEF EmbedBatches, StoreOf, StorePcs
      <3>4. QED
        BY <1>6, <3>2, <3>3
    <2>2. TypeOK'
      BY <1>1, <1>6 DEF Probe, EmbedBatches, database, counters, Pcs, WorkPcs, StorePcs
    <2>3. QED
      BY <1>3, <2>1, <2>2
  <1>7. CASE ReadHashes(r)
    <2>1. ChunksOf[Snapshot(r)] \subseteq Chunks
      BY <1>7, ChunksAssumption DEF ReadHashes, Snapshot, WorkPcs
    <2>2. pc'[r] = "embedding" /\ rank'[r] = rank[r] /\ Model(r)' = Model(r)
      BY <1>4, <1>7 DEF ReadHashes, Model
    <2>3. pending'[r] = ChunksOf[Snapshot(r)] \ ExistingHashes(Snapshot(r), Model(r))
      BY <1>7 DEF ReadHashes
    <2>4. rank[r] \in 1 .. Len(Candidates(r))
      BY <1>7 DEF ReadHashes, StoreOf
    <2>5. \A c \in ChunksOf[Snapshot(r)] : c \in pending'[r] \/ points[Model(r)][c] # None
      BY <2>3 DEF ExistingHashes
    <2>6. StoreOf(r)'
      BY <1>4, <2>2, <2>4, <2>5 DEF StoreOf
    <2>7. TypeOK'
      BY <1>1, <1>7, <2>1, <2>3 DEF ReadHashes, database, counters, Pcs, WorkPcs, StorePcs
    <2>8. QED
      BY <1>3, <2>6, <2>7
  <1>8. CASE ModelFails(r)
    <2>1. rank[r] \in 1 .. Len(Candidates(r))
      BY <1>8 DEF ModelFails, StoreOf, StorePcs
    <2>2. Len(Candidates(r)) \in Nat
      BY <1>8, CandidatesAssumption DEF ModelFails, Candidates, Snapshot, Target, WorkPcs, StorePcs
    <2>3. StoreOf(r)'
      BY <1>4, <1>8, <2>1, <2>2 DEF ModelFails, StoreOf, StorePcs
    <2>4. /\ pc' \in [Runners -> Pcs] /\ rank' \in [Runners -> Nat]
          /\ pending' \in [Runners -> SUBSET Chunks]
      <3>1. \E p \in {"probing", "retrying"} : pc' = [pc EXCEPT ![r] = p]
        BY <1>8 DEF ModelFails
      <3>2. rank' = rank \/ rank' = [rank EXCEPT ![r] = @ + 1]
        BY <1>8 DEF ModelFails
      <3>3. pending' = [pending EXCEPT ![r] = {}]
        BY <1>8 DEF ModelFails
      <3>4. QED
        BY <3>1, <3>2, <3>3 DEF Pcs, WorkPcs
    <2>5. Working(r) /\ \A s \in Runners : Working(s)' => Working(s)
      BY <1>8 DEF ModelFails, Working, WorkPcs, StorePcs
    <2>6. TypeOK'
      BY <1>1, <2>4, <2>5 DEF Working, database, counters
    <2>7. QED
      BY <1>3, <2>3, <2>6
  <1>9. CASE Fails(r) \/ Restart(r)
    <2>1. StoreOf(r)'
      BY <1>9 DEF Fails, Restart, StoreOf, StorePcs
    <2>2. /\ pc' \in [Runners -> Pcs] /\ UNCHANGED <<rank, pending>>
          /\ \A s \in Runners : Working(s)' => Working(s)
      <3>1. CASE Fails(r)
        BY <3>1 DEF Fails, Working, Pcs, WorkPcs
      <3>2. CASE Restart(r)
        BY <3>2 DEF Restart, Working, Pcs, WorkPcs, StorePcs
      <3>3. QED
        BY <1>9, <3>1, <3>2
    <2>3. TypeOK'
      BY <1>1, <2>2 DEF Working, database, counters
    <2>4. QED
      BY <1>3, <2>1, <2>3
  <1>10. QED
    BY <1>5, <1>6, <1>7, <1>8, <1>9

\* A batch moves from what is pending to the collection of the runner's model.
LEMMA UpsertStep ==
  ASSUME TypeOK, StoreProgress, NEW r \in Runners, Upsert(r)
  PROVE  /\ TypeOK' /\ StoreProgress'
         /\ \A m \in Models, c \in Chunks : points[m][c] # None => points'[m][c] # None
  <1> USE DEF TypeOK, StoreProgress
  <1>1. Working(r) /\ rank[r] \in 1 .. Len(Candidates(r)) /\ Snapshot(r) \in Snapshots
    BY DEF Upsert, Working, WorkPcs, StorePcs, StoreOf, Snapshot
  <1>2. Model(r) \in Models
    BY <1>1, ModelType
  <1>3. PICK batch \in SUBSET pending[r] :
          /\ points' = [points EXCEPT ![Model(r)] =
                          [c \in Chunks |-> IF c \in batch THEN Snapshot(r) ELSE points[Model(r)][c]]]
          /\ pending' = [pending EXCEPT ![r] = @ \ batch]
    BY DEF Upsert
  <1>4. points' \in [Models -> [Chunks -> Snapshots \union {None}]]
    BY <1>1, <1>2, <1>3
  <1>5. \A m \in Models, c \in Chunks : points[m][c] # None => points'[m][c] # None
    BY <1>1, <1>2, <1>3, NullAssumption
  <1>6. TypeOK'
    BY <1>3, <1>4 DEF Upsert, database, counters, Pcs, WorkPcs, StorePcs
  <1>7. \A s \in Runners \ {r} : StoreOf(s)'
    BY <1>5, OthersStore DEF Upsert, database
  <1>8. StoreOf(r)'
    <2>1. /\ Snapshot(r)' = Snapshot(r) /\ Candidates(r)' = Candidates(r) /\ Model(r)' = Model(r)
          /\ rank'[r] = rank[r] /\ pc'[r] = "progress"
      BY DEF Upsert, Snapshot, Candidates, Model, database
    <2>2. ASSUME NEW c \in ChunksOf[Snapshot(r)]
          PROVE  c \in pending'[r] \/ points'[Model(r)][c] # None
      <3>1. c \in pending[r] \/ points[Model(r)][c] # None
        BY DEF Upsert, StoreOf, StorePcs
      <3>2. c \in Chunks
        BY <1>1, ChunksAssumption
      <3>3. c \in batch => points'[Model(r)][c] = Snapshot(r)
        BY <1>2, <1>3, <3>2
      <3>4. QED
        BY <1>1, <1>2, <1>3, <1>5, <3>1, <3>2, <3>3, NullAssumption
    <2>3. QED
      BY <1>1, <2>1, <2>2 DEF StoreOf
  <1>9. QED
    BY <1>5, <1>6, <1>7, <1>8

\* The progress report writes the row, and touches no account of the store.
LEMMA ProgressStep ==
  ASSUME TypeOK, StoreProgress, NEW r \in Runners, Progress(r)
  PROVE  TypeOK' /\ StoreProgress'
  <1> USE DEF TypeOK, StoreProgress
  <1>1. held[r] \in Jobs /\ Model(r) \in Models
    BY ModelType DEF Progress, Working, WorkPcs, StorePcs, StoreOf
  <1>2. /\ jobs' \in [Jobs -> JobRow]
        /\ selected' \in [Jobs -> Models \union {None}]
        /\ \A j \in Jobs : jobs'[j].status = jobs[j].status
    <2>1. CASE jobs[held[r]].status = "absent"
      BY <2>1 DEF Progress
    <2>2. CASE jobs[held[r]].status # "absent"
      <3>1. jobs' = [jobs EXCEPT ![held[r]] = RenewLease(jobs[held[r]])]
        BY <2>2 DEF Progress
      <3>2. RenewLease(jobs[held[r]]) \in JobRow
        BY <1>1, RowTypes
      <3>3. RenewLease(jobs[held[r]]).status = jobs[held[r]].status
        BY <1>1 DEF RenewLease, JobRow
      <3>4. selected' \in [Jobs -> Models \union {None}]
        BY <1>1, <2>2 DEF Progress
      <3>5. QED
        BY <1>1, <3>1, <3>2, <3>3, <3>4
    <2>3. QED
      BY <2>1, <2>2
  <1>3. TypeOK'
    BY <1>2 DEF Progress, counters, Pcs, WorkPcs, StorePcs
  <1>4. \A s \in Runners \ {r} : StoreOf(s)'
    BY OthersStore DEF Progress
  <1>5. StoreOf(r)'
    <2>1. /\ Snapshot(r)' = Snapshot(r) /\ Candidates(r)' = Candidates(r) /\ Model(r)' = Model(r)
          /\ UNCHANGED <<points, rank, pending>>
          /\ pc'[r] = IF pending[r] = {} THEN "finishing" ELSE "upserting"
      BY DEF Progress, Snapshot, Candidates, Model
    <2>2. rank[r] \in 1 .. Len(Candidates(r))
          /\ \A c \in ChunksOf[Snapshot(r)] : c \in pending[r] \/ points[Model(r)][c] # None
      BY DEF Progress, StoreOf, StorePcs
    <2>3. QED
      BY <2>1, <2>2 DEF StoreOf, StorePcs
  <1>6. QED
    BY <1>3, <1>4, <1>5

\* The steps in which a runner leaves process.
LEMMA LeavingSteps ==
  ASSUME TypeOK, StoreProgress, NEW r \in Runners,
         \/ Begin(r) /\ jobs[held[r]].status # "running"
         \/ succeed(r) \/ fail_or_retry(r) \/ Crash(r)
  PROVE  TypeOK' /\ StoreProgress'
  <1> USE DEF TypeOK
  <1>p. {"idle", "stopped", "dead"} \subseteq Pcs \ WorkPcs
    BY DEF Pcs, WorkPcs, StorePcs
  <1>1. CASE Begin(r) /\ jobs[held[r]].status # "running"
    BY <1>p, <1>1, LeaveStep DEF Begin, database, counters
  <1>2. CASE succeed(r)
    <2>1. held[r] \in Jobs /\ Model(r) \in Models
      BY <1>2, ModelType DEF succeed, Working, WorkPcs, StorePcs, StoreProgress, StoreOf
    <2>2. Leave(r, "idle") /\ UNCHANGED <<target, pruned, points, counters>>
      BY <1>2 DEF succeed
    <2>3. CASE jobs[held[r]].status = "absent"
      BY <1>p, <1>2, <2>2, <2>3, LeaveStep DEF succeed, counters
    <2>4. CASE jobs[held[r]].status # "absent"
      <3>1. SucceedRow(jobs[held[r]]) \in JobRow
        BY <2>1, RowTypes
      <3>2. jobs' = [jobs EXCEPT ![held[r]] = SucceedRow(jobs[held[r]])]
            /\ selected' = [selected EXCEPT ![held[r]] = Model(r)]
            /\ finished' = [finished EXCEPT ![held[r]] = clock + 1]
        BY <1>2, <2>4 DEF succeed
      <3>3. clock' = clock + 1
        BY <1>2, <2>4 DEF succeed
      <3>4. /\ jobs' \in [Jobs -> JobRow]
            /\ selected' \in [Jobs -> Models \union {None}]
            /\ finished' \in [Jobs -> Nat] /\ clock' \in Nat
        BY <2>1, <3>1, <3>2, <3>3
      <3>5. \A j \in Jobs : jobs'[j].status # "absent" => jobs[j].status # "absent"
        BY <2>1, <2>4, <3>2
      <3>6. QED
        BY <1>p, <2>2, <3>4, <3>5, LeaveStep DEF counters
    <2>5. QED
      BY <2>3, <2>4
  <1>3. CASE fail_or_retry(r)
    <2>1. held[r] \in Jobs
      BY <1>3 DEF fail_or_retry, WorkPcs
    <2> DEFINE row == FailOrRetryRow(jobs[held[r]], pc[r] = "retrying", MaxAttempts)
    <2>2. row \in JobRow
      BY <2>1, RowTypes, SettingsAssumption
    <2>3. jobs' = jobs \/ (jobs[held[r]].status # "absent" /\ jobs' = [jobs EXCEPT ![held[r]] = row])
      BY <1>3 DEF fail_or_retry
    <2> HIDE DEF row
    <2>4. /\ jobs' \in [Jobs -> JobRow]
          /\ \A j \in Jobs : jobs'[j].status # "absent" => jobs[j].status # "absent"
      BY <2>1, <2>2, <2>3
    <2>5. \E where \in {"idle", "dead"} : Leave(r, where)
      BY <1>3 DEF fail_or_retry
    <2>6. /\ UNCHANGED <<target, selected, finished, clock, pruned, points, crashes, expiries>>
          /\ outages' \in Nat
      BY <1>3 DEF fail_or_retry
    <2>7. QED
      BY <1>p, <2>4, <2>5, <2>6, LeaveStep
  <1>4. CASE Crash(r)
    BY <1>p, <1>4, LeaveStep DEF Crash, database
  <1>5. QED
    BY <1>1, <1>2, <1>3, <1>4

\* The types, and that what a runner has left to store accounts for its whole
\* snapshot, are kept by every step, those of runners without a lease too.
LEMMA StoreNext ==
  ASSUME TypeOK, StoreProgress, [Next]_vars
  PROVE  TypeOK' /\ StoreProgress'
  BY OutsideSteps, ClaimTypes, InnerSteps, UpsertStep, ProgressStep, LeavingSteps DEF Next, Step

\* A runner that has nothing left to store has stored its whole snapshot in the
\* collection of the one model it is using.
THEOREM StoreCorrect == Spec => [](TypeOK /\ StoreProgress)
  <1>1. Init => TypeOK /\ StoreProgress
    BY TypeInit DEF Init, StoreProgress, StoreOf, StorePcs
  <1>2. TypeOK /\ StoreProgress /\ [Next]_vars => TypeOK' /\ StoreProgress'
    BY StoreNext
  <1>3. QED
    BY <1>1, <1>2, PTL DEF Spec

-----------------------------------------------------------------------------
(* Safety, when leases outlive the work they cover.                        *)

\* No job becomes a success, and what was stored stays: successes stay stored.
LEMMA StoredStays ==
  ASSUME TypeOK, EmbeddedIsStored,
         \A m \in Models, c \in Chunks : points[m][c] # None => points'[m][c] # None,
         \A j \in Jobs : jobs'[j].status = "succeeded" =>
           /\ jobs[j].status = "succeeded"
           /\ target'[j] = target[j] /\ selected'[j] = selected[j]
  PROVE  EmbeddedIsStored'
  <1> SUFFICES ASSUME NEW j \in Jobs, jobs'[j].status = "succeeded"
               PROVE  /\ selected'[j] # None
                      /\ \A c \in ChunksOf[target'[j].snapshot] : points'[selected'[j]][c] # None
    BY DEF EmbeddedIsStored
  <1>1. selected[j] \in Models /\ target[j].snapshot \in Snapshots
    BY DEF EmbeddedIsStored, TypeOK
  <1>2. ChunksOf[target[j].snapshot] \subseteq Chunks
    BY <1>1, ChunksAssumption
  <1>3. QED
    BY <1>1, <1>2 DEF EmbeddedIsStored

\* No runner takes up a job, and the jobs in process keep their rows, but for a
\* renewed lease or a deletion.
LEMMA HeldStays ==
  ASSUME TypeOK, HeldJobsRun, ExclusiveWork,
         \A r \in Runners : Working(r)' => Working(r) /\ held'[r] = held[r],
         \A r \in Runners : Working(r)' =>
           \/ jobs'[held[r]].status = "absent"
           \/ /\ jobs'[held[r]].status = jobs[held[r]].status
              /\ jobs'[held[r]].lease \in {jobs[held[r]].lease, "live"}
  PROVE  HeldJobsRun' /\ ExclusiveWork'
  BY DEF HeldJobsRun, ExclusiveWork

\* A runner writes a row and lets go of it: nobody else holds that job.
LEMMA SettleStep ==
  ASSUME TypeOK, HeldJobsRun, ExclusiveWork, NEW r \in Runners, Working(r), NEW row,
         jobs' = [jobs EXCEPT ![held[r]] = row], ~Working(r)',
         \A s \in Runners : Working(s)' => Working(s) /\ held'[s] = held[s]
  PROVE  HeldJobsRun' /\ ExclusiveWork'
  <1>1. \A s \in Runners : Working(s)' => held[s] \in Jobs /\ held[s] # held[r]
    BY DEF ExclusiveWork, TypeOK, Working
  <1>2. \A s \in Runners : Working(s)' => jobs'[held[s]] = jobs[held[s]]
    BY <1>1 DEF TypeOK
  <1>3. QED
    BY <1>2, HeldStays

\* A claim takes a job that no working runner holds: their rows are running
\* under a live lease, or deleted.
LEMMA ClaimStep ==
  ASSUME TypeOK, HeldJobsRun, ExclusiveWork, EmbeddedIsStored, NEW r \in Runners, claim_next(r)
  PROVE  HeldJobsRun' /\ ExclusiveWork' /\ EmbeddedIsStored'
  <1> DEFINE requeued == [j \in Jobs |-> RequeueExpired(jobs[j])]
  <1>1. \A j \in Jobs : jobs[j].status = "absent" \/
                        (jobs[j].status = "running" /\ jobs[j].lease = "live")
                        => requeued[j] = jobs[j]
    BY DEF RequeueExpired
  <1>2. \A s \in Runners : Working(s) => held[s] \in Jobs /\ requeued[held[s]] = jobs[held[s]]
    BY <1>1 DEF HeldJobsRun, TypeOK, Working
  <1>3. \A j \in Jobs : requeued[j].status = "succeeded" => jobs[j].status = "succeeded"
    BY DEF RequeueExpired, TypeOK, JobRow
  <1>4. ~Working(r) /\ UNCHANGED <<target, selected, points>>
    BY DEF claim_next, Working, WorkPcs, StorePcs
  <1>5. CASE jobs' = requeued /\ UNCHANGED <<pc, held>>
    <2> HIDE DEF requeued
    <2>1. HeldJobsRun' /\ ExclusiveWork'
      BY <1>2, <1>5 DEF HeldJobsRun, ExclusiveWork, Working
    <2>2. EmbeddedIsStored'
      BY <1>3, <1>4, <1>5, StoredStays
    <2>3. QED
      BY <2>1, <2>2
  <1>6. ASSUME NEW j \in Jobs, Claimable(requeued[j]),
               jobs' = [requeued EXCEPT ![j] = ClaimRow(requeued[j])],
               pc' = [pc EXCEPT ![r] = "claimed"], held' = [held EXCEPT ![r] = j]
        PROVE  HeldJobsRun' /\ ExclusiveWork' /\ EmbeddedIsStored'
    <2>1. \A s \in Runners : Working(s) => held[s] # j
      BY <1>2, <1>6 DEF HeldJobsRun, Claimable
    <2>2. jobs'[j].status = "running" /\ jobs'[j].lease = "live"
      BY <1>6 DEF ClaimRow
    <2> HIDE DEF requeued
    <2>3. \A k \in Jobs \ {j} : jobs'[k] = requeued[k]
      BY <1>6
    <2>4. \A s \in Runners : Working(s)' => s = r \/ (Working(s) /\ held'[s] = held[s])
      BY <1>6 DEF Working, TypeOK
    <2>5. held'[r] = j
      BY <1>6 DEF TypeOK
    <2>6. HeldJobsRun'
      BY <1>2, <2>1, <2>2, <2>3, <2>4, <2>5 DEF HeldJobsRun
    <2>7. ExclusiveWork'
      BY <2>1, <2>4, <2>5 DEF ExclusiveWork
    <2>8. EmbeddedIsStored'
      BY <1>3, <1>4, <2>2, <2>3, StoredStays
    <2>9. QED
      BY <2>6, <2>7, <2>8
  <1>7. QED
    BY <1>5, <1>6 DEF claim_next

\* _succeed names the one model that holds the whole snapshot.
LEMMA SucceedStep ==
  ASSUME EInv, NEW r \in Runners, succeed(r)
  PROVE  HeldJobsRun' /\ ExclusiveWork' /\ EmbeddedIsStored'
  <1> USE DEF EInv
  <1>1. Working(r) /\ held[r] \in Jobs
    BY DEF succeed, Working, WorkPcs, StorePcs, TypeOK
  <1>2. ~Working(r)' /\ \A s \in Runners : Working(s)' => Working(s) /\ held'[s] = held[s]
    BY DEF succeed, Leave, Working, WorkPcs, StorePcs, TypeOK
  <1>3. CASE jobs[held[r]].status = "absent"
    <2>1. UNCHANGED <<jobs, selected, target, points>>
      BY <1>3 DEF succeed
    <2>2. QED
      BY <1>2, <2>1, HeldStays, StoredStays
  <1>4. CASE jobs[held[r]].status # "absent"
    <2>1. /\ jobs' = [jobs EXCEPT ![held[r]] = SucceedRow(jobs[held[r]])]
          /\ selected' = [selected EXCEPT ![held[r]] = Model(r)]
          /\ UNCHANGED <<target, points>>
      BY <1>4 DEF succeed
    <2>2. HeldJobsRun' /\ ExclusiveWork'
      BY <1>1, <1>2, <2>1, SettleStep
    <2>3. Model(r) \in Models
      BY <1>1, ModelType DEF succeed, StorePcs, StoreProgress, StoreOf
    <2>4. \A c \in ChunksOf[Snapshot(r)] : points[Model(r)][c] # None
      BY DEF succeed, StorePcs, StoreProgress, StoreOf
    <2>5. selected'[held[r]] = Model(r) /\ \A j \in Jobs \ {held[r]} :
                                             jobs'[j] = jobs[j] /\ selected'[j] = selected[j]
      BY <1>1, <2>1 DEF TypeOK
    <2>6. EmbeddedIsStored'
      BY <1>1, <2>1, <2>3, <2>4, <2>5, NullAssumption DEF EmbeddedIsStored, Snapshot
    <2>7. QED
      BY <2>2, <2>6
  <1>5. QED
    BY <1>3, <1>4

\* Every step keeps the inductive invariant.
LEMMA SafetyNext ==
  ASSUME LeaseOutlivesWork, EInv, [Next]_vars
  PROVE  EInv'
  <1> USE DEF EInv
  <1> DEFINE Safe == HeldJobsRun /\ ExclusiveWork /\ EmbeddedIsStored
  <1>t. TypeOK' /\ StoreProgress'
    BY StoreNext
  <1>1. ASSUME NEW s \in Snapshots, PruneSnapshot(s) PROVE Safe'
    <2>1. \A j \in Jobs : jobs'[j].status = "absent" \/ jobs'[j] = jobs[j]
      BY <1>1 DEF PruneSnapshot, TypeOK, AbsentJob
    <2>2. UNCHANGED <<target, selected, points, pc, held>>
      BY <1>1 DEF PruneSnapshot, runnerVars
    <2>3. \A r \in Runners : Working(r) => held[r] \in Jobs
      BY DEF Working, TypeOK
    <2>4. HeldJobsRun' /\ ExclusiveWork'
      BY <2>1, <2>2, <2>3, HeldStays DEF Working
    <2>5. EmbeddedIsStored'
      BY <2>1, <2>2, StoredStays
    <2>6. QED
      BY <2>4, <2>5
  <1>2. ASSUME NEW s \in Snapshots, NEW m \in Selections, ensure_embedding_job(s, m) PROVE Safe'
    <2>1. PICK j \in Jobs : /\ target[j].snapshot = None
                            /\ jobs' = [jobs EXCEPT ![j] = QueuedJob]
                            /\ target' = [target EXCEPT ![j] = [snapshot |-> s, selection |-> m]]
      BY <1>2 DEF ensure_embedding_job
    <2>2. UNCHANGED <<selected, points, pc, held>>
      BY <1>2 DEF ensure_embedding_job, runnerVars
    <2>3. \A k \in Jobs \ {j} : jobs'[k] = jobs[k] /\ target'[k] = target[k]
      BY <2>1 DEF TypeOK
    <2>4. \A r \in Runners : Working(r) => held[r] \in Jobs \ {j}
      BY <2>1, NullAssumption DEF Working, TypeOK
    <2>5. HeldJobsRun' /\ ExclusiveWork'
      BY <2>2, <2>3, <2>4, HeldStays DEF Working
    <2>6. jobs'[j].status = "queued"
      BY <2>1 DEF QueuedJob, TypeOK
    <2>7. EmbeddedIsStored'
      BY <2>2, <2>3, <2>6, StoredStays
    <2>8. QED
      BY <2>5, <2>7
  <1>3. ASSUME NEW r \in Runners, claim_next(r) PROVE Safe'
    BY <1>3, ClaimStep
  \* Steps that keep the rows, and in which no runner takes up a job.
  <1>4. ASSUME NEW r \in Runners,
               \/ Begin(r) \/ Probe(r) \/ ReadHashes(r) \/ EmbedBatches(r) \/ ModelFails(r)
               \/ Fails(r) \/ Crash(r) \/ Restart(r)
        PROVE  Safe'
    <2>1. UNCHANGED <<jobs, selected, target, points>>
      BY <1>4 DEF Begin, Probe, ReadHashes, EmbedBatches, ModelFails, Fails, Crash, Restart, database
    <2>2. \A s \in Runners : Working(s)' => Working(s) /\ held'[s] = held[s]
      BY <1>4 DEF Begin, Probe, ReadHashes, EmbedBatches, ModelFails, Fails, Crash, Restart, Leave,
                  Working, WorkPcs, StorePcs, TypeOK
    <2>3. QED
      BY <2>1, <2>2, HeldStays, StoredStays
  <1>5. ASSUME NEW r \in Runners, Upsert(r) PROVE Safe'
    <2>1. UNCHANGED <<jobs, selected, target, held>>
      BY <1>5 DEF Upsert, database
    <2>2. \A s \in Runners : Working(s)' => Working(s)
      BY <1>5 DEF Upsert, Working, WorkPcs, StorePcs, TypeOK
    <2>3. QED
      BY <1>5, <2>1, <2>2, UpsertStep, HeldStays, StoredStays
  <1>6. ASSUME NEW r \in Runners, Progress(r) PROVE Safe'
    <2>1. Working(r) /\ held[r] \in Jobs
      BY <1>6 DEF Progress, Working, WorkPcs, StorePcs, TypeOK
    <2>2. \A s \in Runners : Working(s)' => Working(s) /\ held'[s] = held[s]
      BY <1>6 DEF Progress, Working, WorkPcs, StorePcs, TypeOK
    <2>3. CASE jobs[held[r]].status = "absent"
      <3>1. UNCHANGED <<jobs, selected, target, points>>
        BY <1>6, <2>3 DEF Progress
      <3>2. QED
        BY <2>2, <3>1, HeldStays, StoredStays
    <2>4. CASE jobs[held[r]].status # "absent"
      <3>1. /\ jobs' = [jobs EXCEPT ![held[r]] = RenewLease(jobs[held[r]])]
            /\ selected' = [selected EXCEPT ![held[r]] = Model(r)]
            /\ UNCHANGED <<target, points>>
        BY <1>6, <2>4 DEF Progress
      <3>2. jobs[held[r]].status = "running"
        BY <2>1, <2>4 DEF HeldJobsRun
      <3>3. jobs'[held[r]].status = "running" /\ jobs'[held[r]].lease = "live"
        BY <2>1, <3>1, <3>2 DEF RenewLease, TypeOK, JobRow
      <3>4. \A j \in Jobs \ {held[r]} : jobs'[j] = jobs[j] /\ selected'[j] = selected[j]
        BY <3>1 DEF TypeOK
      <3>5. HeldJobsRun' /\ ExclusiveWork'
        <4>1. \A s \in Runners : Working(s) => held[s] \in Jobs
          BY DEF Working, TypeOK
        <4>2. QED
          BY <2>2, <3>2, <3>3, <3>4, <4>1, HeldStays
      <3>6. EmbeddedIsStored'
        BY <3>1, <3>3, <3>4, StoredStays
      <3>7. QED
        BY <3>5, <3>6
    <2>5. QED
      BY <2>3, <2>4
  <1>7. ASSUME NEW r \in Runners, succeed(r) PROVE Safe'
    BY <1>7, SucceedStep
  <1>8. ASSUME NEW r \in Runners, fail_or_retry(r) PROVE Safe'
    <2>1. Working(r) /\ held[r] \in Jobs
      BY <1>8 DEF fail_or_retry, Working, WorkPcs, TypeOK
    <2>2. ~Working(r)' /\ \A s \in Runners : Working(s)' => Working(s) /\ held'[s] = held[s]
      BY <1>8 DEF fail_or_retry, Leave, Working, WorkPcs, StorePcs, TypeOK
    <2>3. UNCHANGED <<selected, target, points>>
      BY <1>8 DEF fail_or_retry
    <2> DEFINE row == FailOrRetryRow(jobs[held[r]], pc[r] = "retrying", MaxAttempts)
    <2>4. jobs' = jobs \/ jobs' = [jobs EXCEPT ![held[r]] = row]
      BY <1>8 DEF fail_or_retry
    <2>5. row.status # "succeeded"
      BY <2>1 DEF FailOrRetryRow, TypeOK, JobRow
    <2> HIDE DEF row
    <2>6. HeldJobsRun' /\ ExclusiveWork'
      BY <2>1, <2>2, <2>4, HeldStays, SettleStep
    <2>7. \A j \in Jobs : jobs'[j].status = "succeeded" => jobs[j].status = "succeeded"
      BY <2>1, <2>4, <2>5 DEF TypeOK
    <2>8. QED
      BY <2>3, <2>6, <2>7, StoredStays
  <1>9. ASSUME NEW j \in Jobs, LeaseExpires(j) \/ BackoffElapses(j) PROVE Safe'
    <2>1. UNCHANGED <<pc, held, target, selected, points>>
      BY <1>9 DEF LeaseExpires, BackoffElapses, runnerVars
    <2>2. \A k \in Jobs : jobs'[k].status = jobs[k].status
      <3>1. CASE LeaseExpires(j)
        BY <3>1 DEF LeaseExpires, TypeOK, JobRow
      <3>2. CASE BackoffElapses(j)
        BY <3>2 DEF BackoffElapses, TypeOK, JobRow
      <3>3. QED
        BY <1>9, <3>1, <3>2
    <2>3. \A s \in Runners : Working(s) => jobs'[held[s]].lease = jobs[held[s]].lease
      <3>1. ASSUME LeaseExpires(j), NEW s \in Runners, Working(s)
            PROVE  jobs'[held[s]] = jobs[held[s]]
        BY <3>1 DEF LeaseExpires, InWork, Working, TypeOK
      <3>2. ASSUME BackoffElapses(j), NEW s \in Runners, Working(s)
            PROVE  jobs'[held[s]].lease = jobs[held[s]].lease
        BY <3>2 DEF BackoffElapses, Working, TypeOK, JobRow
      <3>3. QED
        BY <1>9, <3>1, <3>2
    <2>4. \A s \in Runners : Working(s) => held[s] \in Jobs
      BY DEF Working, TypeOK
    <2>5. HeldJobsRun' /\ ExclusiveWork'
      BY <2>1, <2>2, <2>3, <2>4, HeldStays DEF Working
    <2>6. QED
      BY <2>1, <2>2, <2>5, StoredStays
  <1>10. ASSUME UNCHANGED vars PROVE Safe'
    <2>1. UNCHANGED <<jobs, target, selected, points, pc, held>>
      BY <1>10 DEF vars, database, runnerVars
    <2>2. QED
      BY <2>1, HeldStays, StoredStays DEF Working
  <1>11. QED
    BY <1>t, <1>1, <1>2, <1>3, <1>4, <1>5, <1>6, <1>7, <1>8, <1>9, <1>10 DEF Next, Step

\* When leases outlive the work they cover, one runner at a time works on a job,
\* and a success names a model whose collection holds the whole snapshot.
THEOREM Safety == ASSUME LeaseOutlivesWork PROVE Spec => []EInv
  <1>1. Init => EInv
    <2> SUFFICES ASSUME Init PROVE EInv
      OBVIOUS
    <2>1. \A r \in Runners : ~Working(r)
      BY DEF Init, Working, WorkPcs, StorePcs
    <2>2. \A j \in Jobs : jobs[j].status # "succeeded"
      BY DEF Init, AbsentJob
    <2>3. StoreProgress
      BY DEF Init, StoreProgress, StoreOf, StorePcs
    <2>4. QED
      BY <2>1, <2>2, <2>3, TypeInit DEF EInv, HeldJobsRun, ExclusiveWork, EmbeddedIsStored
  <1>2. EInv /\ [Next]_vars => EInv'
    BY SafetyNext
  <1>3. QED
    BY <1>1, <1>2, PTL DEF Spec

\* A succeeded job names a model whose collection holds every chunk of its
\* snapshot: the fallback from model to model never splits a snapshot.
COROLLARY Stored == ASSUME LeaseOutlivesWork PROVE Spec => []EmbeddedIsStored
  <1>1. EInv => EmbeddedIsStored
    BY DEF EInv
  <1>2. QED
    BY <1>1, Safety, PTL

-----------------------------------------------------------------------------
(* The stage implements the abstract queue.                                *)

stat == [j \in Jobs |-> jobs[j].status]
own  == [j \in Jobs |-> OwnerOf(j)]
Maps == [Queue!Next]_<<stat, own>>

\* The owner of a job, before and after a step.
LEMMA Owners ==
  /\ ExclusiveWork =>
       \A r \in Runners, j \in Jobs : OwnerOf(j) = r <=> Working(r) /\ held[r] = j
  /\ ExclusiveWork' =>
       \A r \in Runners, j \in Jobs : OwnerOf(j)' = r <=> Working(r)' /\ held'[r] = j
  /\ \A j \in Jobs : OwnerOf(j) \in Runners \union {None}
  /\ \A j \in Jobs : OwnerOf(j)' \in Runners \union {None}
  <1>1. /\ \A j \in Jobs : OwnerOf(j) \in Runners \union {None}
        /\ \A j \in Jobs : OwnerOf(j)' \in Runners \union {None}
    BY DEF OwnerOf
  <1>2. ASSUME ExclusiveWork, NEW r \in Runners, NEW j \in Jobs
        PROVE  OwnerOf(j) = r <=> Working(r) /\ held[r] = j
    BY <1>2, NullAssumption DEF OwnerOf, ExclusiveWork
  <1>3. ASSUME ExclusiveWork', NEW r \in Runners, NEW j \in Jobs
        PROVE  OwnerOf(j)' = r <=> Working(r)' /\ held'[r] = j
    BY <1>3, NullAssumption DEF OwnerOf, ExclusiveWork
  <1>4. QED
    BY <1>1, <1>2, <1>3

LEMMA SameOwners ==
  ASSUME ExclusiveWork, ExclusiveWork',
         \A t \in Runners : Working(t)' <=> Working(t),
         \A t \in Runners : Working(t) => held'[t] = held[t]
  PROVE  own' = own
  <1>1. ASSUME NEW j \in Jobs PROVE OwnerOf(j)' = OwnerOf(j)
    BY Owners
  <1>2. QED
    BY <1>1 DEF own

LEMMA OwnerLeaves ==
  ASSUME ExclusiveWork, ExclusiveWork', NEW r \in Runners, Working(r),
         NEW k \in Jobs, held[r] = k, ~Working(r)',
         \A t \in Runners \ {r} : (Working(t)' <=> Working(t)) /\ held'[t] = held[t]
  PROVE  own' = [own EXCEPT ![k] = None]
  <1>1. OwnerOf(k)' = None
    BY Owners DEF ExclusiveWork
  <1>2. ASSUME NEW j \in Jobs, j # k PROVE OwnerOf(j)' = OwnerOf(j)
    BY <1>2, Owners
  <1>3. QED
    BY <1>1, <1>2 DEF own

LEMMA OwnerEnters ==
  ASSUME ExclusiveWork, ExclusiveWork', NEW r \in Runners, ~Working(r),
         NEW k \in Jobs, Working(r)', held'[r] = k,
         \A t \in Runners \ {r} : (Working(t)' <=> Working(t)) /\ held'[t] = held[t]
  PROVE  own' = [own EXCEPT ![k] = r]
  <1>1. OwnerOf(k)' = r
    BY Owners
  <1>2. ASSUME NEW j \in Jobs, j # k PROVE OwnerOf(j)' = OwnerOf(j)
    <2>1. \A t \in Runners : Working(t)' /\ held'[t] = j <=> Working(t) /\ held[t] = j
      BY <1>2
    <2>2. \A t \in Runners : OwnerOf(j)' = t <=> OwnerOf(j) = t
      BY <2>1, Owners
    <2>3. QED
      BY <2>2, Owners
  <1>3. QED
    BY <1>1, <1>2 DEF own

\* A step that keeps the statuses and who works on what is a stutter.
LEMMA StutterMaps ==
  ASSUME EInv, EInv',
         \A j \in Jobs : jobs'[j].status = jobs[j].status,
         \A t \in Runners : Working(t)' <=> Working(t),
         \A t \in Runners : Working(t) => held'[t] = held[t]
  PROVE  Maps
  <1>1. stat' = stat
    BY DEF stat
  <1>2. QED
    BY <1>1, SameOwners DEF EInv, Maps

\* A runner that drops its job settles it, or abandons it with its status.
LEMMA LeavesMaps ==
  ASSUME EInv, EInv', NEW r \in Runners, Working(r), ~Working(r)',
         \A t \in Runners \ {r} : (Working(t)' <=> Working(t)) /\ held'[t] = held[t],
         \A j \in Jobs \ {held[r]} : jobs'[j].status = jobs[j].status,
         \/ /\ jobs[held[r]].status # "absent"
            /\ jobs'[held[r]].status \in {"queued", "succeeded", "failed"}
         \/ jobs'[held[r]].status = jobs[held[r]].status
  PROVE  Maps
  <1>1. PICK k \in Jobs : k = held[r]
    BY DEF EInv, TypeOK, Working
  <1>2. own[k] = r /\ own' = [own EXCEPT ![k] = None]
    BY <1>1, Owners, OwnerLeaves DEF EInv, own
  <1>3. stat' = [stat EXCEPT ![k] = jobs'[k].status]
    BY <1>1 DEF stat
  <1>4. CASE jobs[k].status # "absent" /\ jobs'[k].status \in {"queued", "succeeded", "failed"}
    <2>1. stat[k] = "running"
      BY <1>1, <1>4 DEF EInv, HeldJobsRun, stat
    <2>2. Queue!Settle(r, k)
      BY <1>2, <1>3, <1>4, <2>1 DEF Queue!Settle, stat, own
    <2>3. QED
      BY <2>2 DEF Maps, Queue!Next
  <1>5. CASE jobs'[k].status = jobs[k].status
    <2>1. stat' = stat
      BY <1>3, <1>5 DEF stat
    <2>2. Queue!Abandon(r, k)
      BY <1>2, <2>1 DEF Queue!Abandon, stat, own
    <2>3. QED
      BY <2>2 DEF Maps, Queue!Next
  <1>6. QED
    BY <1>1, <1>4, <1>5

\* claim_next queues orphans again and takes at most one job.
LEMMA ClaimMaps ==
  ASSUME EInv, EInv', NEW r \in Runners, claim_next(r)
  PROVE  Maps
  <1> USE DEF EInv
  <1> DEFINE lost     == {j \in Jobs : jobs[j].status = "running" /\ jobs[j].lease = "expired"}
             requeued == [j \in Jobs |-> RequeueExpired(jobs[j])]
             freed    == [j \in Jobs |-> IF j \in lost THEN "queued" ELSE stat[j]]
  <1>1. lost \subseteq {j \in Jobs : stat[j] = "running" /\ own[j] = None}
    BY Owners DEF HeldJobsRun, stat, own
  <1>2. \A j \in Jobs : requeued[j].status = freed[j]
    BY DEF RequeueExpired, TypeOK, JobRow, stat
  <1>3. ~Working(r)
    BY DEF claim_next, Working, WorkPcs, StorePcs
  <1>4. CASE jobs' = requeued /\ UNCHANGED <<pc, held>>
    <2>1. stat' = freed
      BY <1>2, <1>4 DEF stat
    <2>2. own' = own
      BY <1>4, SameOwners DEF Working
    <2>3. Queue!Reclaim
      BY <1>1, <2>1, <2>2 DEF Queue!Reclaim, Queue!Orphans, Queue!Requeued, stat, own
    <2>4. QED
      BY <2>3 DEF Maps, Queue!Next
  <1>5. ASSUME NEW k \in Jobs, Claimable(requeued[k]),
               jobs' = [requeued EXCEPT ![k] = ClaimRow(requeued[k])],
               pc' = [pc EXCEPT ![r] = "claimed"], held' = [held EXCEPT ![r] = k]
        PROVE  Queue!Take(r, k)
    <2>1. freed[k] = "queued"
      BY <1>2, <1>5 DEF Claimable
    <2>2. stat' = [freed EXCEPT ![k] = "running"]
      BY <1>2, <1>5 DEF ClaimRow, stat
    <2>3. own' = [own EXCEPT ![k] = r]
      <3>1. Working(r)' /\ held'[r] = k
        BY <1>5 DEF Working, WorkPcs, TypeOK
      <3>2. \A t \in Runners \ {r} : (Working(t)' <=> Working(t)) /\ held'[t] = held[t]
        BY <1>5 DEF Working, TypeOK
      <3>3. QED
        BY <1>3, <3>1, <3>2, OwnerEnters
    <2>4. own[k] = None
      BY <1>1, <2>1, Owners DEF HeldJobsRun, stat, own
    <2>5. \A j \in Jobs : own[j] # r
      BY <1>3, Owners DEF own
    <2>6. QED
      BY <1>1, <2>1, <2>2, <2>3, <2>4, <2>5 DEF Queue!Take, Queue!Orphans, Queue!Requeued, stat, own
  <1>6. QED
    BY <1>4, <1>5 DEF claim_next, Maps, Queue!Next

\* Jobs are submitted, and discarded with their snapshot; time changes no status.
LEMMA OutsideMaps ==
  ASSUME EInv, EInv',
         \/ \E s \in Snapshots : PruneSnapshot(s) \/ \E m \in Selections : ensure_embedding_job(s, m)
         \/ \E j \in Jobs : LeaseExpires(j) \/ BackoffElapses(j)
  PROVE  Maps
  <1> USE DEF EInv
  <1>1. UNCHANGED <<pc, held>>
    BY DEF PruneSnapshot, ensure_embedding_job, LeaseExpires, BackoffElapses, runnerVars
  <1>2. own' = own
    BY <1>1, SameOwners DEF Working
  <1>3. ASSUME NEW s \in Snapshots, PruneSnapshot(s) PROVE Maps
    <2> DEFINE gone == {j \in Jobs : target[j].snapshot = s}
    <2>1. stat' = [j \in Jobs |-> IF j \in gone THEN "absent" ELSE stat[j]]
      BY <1>3 DEF PruneSnapshot, AbsentJob, stat
    <2>2. gone \in SUBSET Jobs
      OBVIOUS
    <2> HIDE DEF gone
    <2>3. Queue!Discard
      BY <1>2, <2>1, <2>2 DEF Queue!Discard, stat, own
    <2>4. QED
      BY <2>3 DEF Maps, Queue!Next
  <1>4. ASSUME NEW s \in Snapshots, NEW m \in Selections, ensure_embedding_job(s, m) PROVE Maps
    <2>1. PICK j \in Jobs : target[j].snapshot = None /\ jobs' = [jobs EXCEPT ![j] = QueuedJob]
      BY <1>4 DEF ensure_embedding_job
    <2>2. jobs[j].status = "absent"
      BY <2>1, NullAssumption DEF TypeOK
    <2>3. stat' = [stat EXCEPT ![j] = "queued"]
      BY <2>1 DEF QueuedJob, TypeOK, stat
    <2>4. Queue!Submit(j)
      BY <1>2, <2>2, <2>3 DEF Queue!Submit, stat, own
    <2>5. QED
      BY <2>4 DEF Maps, Queue!Next
  <1>5. ASSUME NEW j \in Jobs, LeaseExpires(j) \/ BackoffElapses(j) PROVE Maps
    <2>1. \A k \in Jobs : jobs'[k].status = jobs[k].status
      BY <1>5 DEF LeaseExpires, BackoffElapses, TypeOK, JobRow
    <2>2. QED
      BY <1>1, <2>1, StutterMaps DEF Working
  <1>6. QED
    BY <1>3, <1>4, <1>5

\* Steps inside process, and a restart.
LEMMA InnerMaps ==
  ASSUME EInv, EInv', NEW r \in Runners,
         \/ Begin(r) /\ jobs[held[r]].status = "running"
         \/ Probe(r) \/ ReadHashes(r) \/ EmbedBatches(r) \/ ModelFails(r) \/ Upsert(r)
         \/ Progress(r) \/ Fails(r) \/ Restart(r)
  PROVE  Maps
  <1>1. held' = held /\ \A t \in Runners \ {r} : pc'[t] = pc[t]
    BY DEF Begin, Probe, ReadHashes, EmbedBatches, ModelFails, Upsert, Progress, Fails, Restart,
           EInv, TypeOK
  <1>2. Working(r)' <=> Working(r)
    BY DEF Begin, Probe, ReadHashes, EmbedBatches, ModelFails, Upsert, Progress, Fails, Restart,
           EInv, TypeOK, Working, WorkPcs, StorePcs
  <1>3. \A j \in Jobs : jobs'[j].status = jobs[j].status
    <2>1. CASE Progress(r)
      <3>1. held[r] \in Jobs /\ jobs[held[r]] \in JobRow
        BY <2>1 DEF Progress, EInv, TypeOK, WorkPcs, StorePcs
      <3>2. RenewLease(jobs[held[r]]).status = jobs[held[r]].status
        BY <3>1 DEF RenewLease, JobRow
      <3>3. jobs' = jobs \/ jobs' = [jobs EXCEPT ![held[r]] = RenewLease(jobs[held[r]])]
        BY <2>1 DEF Progress
      <3>4. QED
        BY <3>1, <3>2, <3>3 DEF EInv, TypeOK
    <2>2. CASE UNCHANGED jobs
      BY <2>2
    <2>3. QED
      BY <2>1, <2>2 DEF Begin, Probe, ReadHashes, EmbedBatches, ModelFails, Upsert, Fails, Restart,
                        database
  <1>4. \A t \in Runners : Working(t)' <=> Working(t)
    BY <1>1, <1>2 DEF Working
  <1>5. QED
    BY <1>1, <1>3, <1>4, StutterMaps

\* The ends of process.
LEMMA EndMaps ==
  ASSUME EInv, EInv', NEW r \in Runners,
         \/ Begin(r) /\ jobs[held[r]].status # "running"
         \/ succeed(r) \/ fail_or_retry(r) \/ Crash(r)
  PROVE  Maps
  <1> DEFINE k == held[r]
  <1>1. ~Working(r)' /\ \A t \in Runners \ {r} : (Working(t)' <=> Working(t)) /\ held'[t] = held[t]
    BY DEF Begin, succeed, fail_or_retry, Crash, Leave, Working, WorkPcs, StorePcs, EInv, TypeOK
  <1>2. CASE Crash(r) /\ ~Working(r)
    BY <1>1, <1>2, StutterMaps DEF Crash, database
  <1>3. CASE UNCHANGED jobs /\ Working(r)
    BY <1>1, <1>3, LeavesMaps
  <1>4. CASE succeed(r)
    <2>1. Working(r) /\ k \in Jobs /\ jobs[k] \in JobRow
      BY <1>4 DEF succeed, Working, WorkPcs, StorePcs, EInv, TypeOK
    <2>2. SucceedRow(jobs[k]).status = "succeeded"
      BY <2>1 DEF SucceedRow, JobRow
    <2>3. \/ jobs' = jobs
          \/ jobs[k].status # "absent" /\ jobs' = [jobs EXCEPT ![k] = SucceedRow(jobs[k])]
      BY <1>4 DEF succeed
    <2>4. /\ \A j \in Jobs \ {k} : jobs'[j].status = jobs[j].status
          /\ \/ jobs[k].status # "absent" /\ jobs'[k].status = "succeeded"
             \/ jobs'[k].status = jobs[k].status
      BY <2>1, <2>2, <2>3 DEF EInv, TypeOK
    <2>5. QED
      BY <1>1, <2>1, <2>4, LeavesMaps
  <1>5. CASE fail_or_retry(r)
    <2> DEFINE row == FailOrRetryRow(jobs[k], pc[r] = "retrying", MaxAttempts)
    <2>1. Working(r) /\ k \in Jobs /\ jobs[k] \in JobRow
      BY <1>5 DEF fail_or_retry, Working, WorkPcs, StorePcs, EInv, TypeOK
    <2>2. row.status \in {"queued", "failed"}
      BY <2>1 DEF FailOrRetryRow, JobRow
    <2>3. \/ jobs' = jobs
          \/ jobs[k].status # "absent" /\ jobs' = [jobs EXCEPT ![k] = row]
      BY <1>5 DEF fail_or_retry
    <2> HIDE DEF row
    <2>4. /\ \A j \in Jobs \ {k} : jobs'[j].status = jobs[j].status
          /\ \/ jobs[k].status # "absent" /\ jobs'[k].status \in {"queued", "failed"}
             \/ jobs'[k].status = jobs[k].status
      BY <2>1, <2>2, <2>3 DEF EInv, TypeOK
    <2>5. QED
      BY <1>1, <2>1, <2>4, LeavesMaps
  <1>6. CASE Begin(r) /\ jobs[held[r]].status # "running"
    <2>1. UNCHANGED jobs /\ Working(r)
      BY <1>6 DEF Begin, database, Working, WorkPcs
    <2>2. QED
      BY <1>3, <2>1
  <1>7. QED
    BY <1>2, <1>3, <1>4, <1>5, <1>6 DEF Crash, database

\* The stage implements the abstract queue, rows being deleted under their runners
\* included: every claim is a take by a single owner, and the owner alone writes the
\* outcome, unless retention was first (claim_next, _succeed, _fail_or_retry).
THEOREM ImplementsQueue == ASSUME LeaseOutlivesWork PROVE Spec => QueueSpec
  <1>1. ASSUME Init PROVE Queue!Init
    <2>1. \A j \in Jobs : OwnerOf(j) = None /\ jobs[j].status = "absent"
      BY <1>1 DEF Init, OwnerOf, Working, WorkPcs, StorePcs, AbsentJob
    <2>2. QED
      BY <2>1 DEF Queue!Init
  <1>2. ASSUME EInv, EInv', [Next]_vars PROVE [Queue!Next]_<<stat, own>>
    <2>1. ASSUME UNCHANGED vars PROVE Maps
      <3>1. UNCHANGED <<jobs, pc, held>>
        BY <2>1 DEF vars, database, runnerVars
      <3>2. QED
        BY <1>2, <3>1, StutterMaps DEF Working
    <2>2. ASSUME NEW r \in Runners, Step(r) \/ Crash(r) \/ Restart(r) PROVE Maps
      <3>1. CASE Begin(r)
        BY <1>2, <3>1, InnerMaps, EndMaps
      <3>2. CASE Probe(r) \/ ReadHashes(r) \/ EmbedBatches(r) \/ ModelFails(r) \/ Upsert(r)
                 \/ Progress(r) \/ Fails(r) \/ Restart(r)
        BY <1>2, <3>2, InnerMaps
      <3>3. CASE succeed(r) \/ fail_or_retry(r) \/ Crash(r)
        BY <1>2, <3>3, EndMaps
      <3>4. CASE claim_next(r)
        BY <1>2, <3>4, ClaimMaps
      <3>5. QED
        BY <2>2, <3>1, <3>2, <3>3, <3>4 DEF Step
    <2>3. Maps
      BY <1>2, <2>1, <2>2, OutsideMaps DEF Next
    <2>4. QED
      BY <2>3 DEF Maps
  <1>3. QED
    BY <1>1, <1>2, Safety, PTL DEF Spec, QueueSpec, Queue!Spec, stat, own
=============================================================================
