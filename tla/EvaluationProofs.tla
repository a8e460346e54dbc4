-------------------------- MODULE EvaluationProofs ---------------------------
(***************************************************************************)
(* What the details of an evaluation run say about its status, for any     *)
(* number of runs, examples, retries and threads, with cancellation at any *)
(* point and processes that end.  The run's record has one writer, its     *)
(* task; the proof relates where every attempt is to the detail that the   *)
(* record has for it.  At the end, the retrieval chunks of a file, for     *)
(* every file and target.                                                  *)
(***************************************************************************)
EXTENDS Evaluation, Corpus, ListsProofs, FiniteSetTheorems, TLAPS

Unattempted == [i \in Examples |-> NoAttempt]

\* Where an attempt of a task group is, and what the record says of the example.
AttemptTrue(r, i) ==
  LET a == attempt[r][i]
      d == memory[r].result[i]
  IN
  /\ a.detail = "retrying" /\ a.pc # "trying" => a.count <= MaxRetries
  /\ a.pc \in {"waiting", "saving"} => a.detail # "missing"
  /\ a.pc \in {"trying", "waiting", "backoff"} => d \in {"missing", "retrying"}
  /\ a.pc = "backoff" => a.detail = "retrying"
  /\ a.pc = "saving" => d = a.detail
  /\ a.pc = "idle" => d # "missing" /\ (d = "retrying" <=> a.detail = "retrying")
  /\ a.pc = "idle" /\ task[r] = "retry" => d # "retrying"
  /\ task[r] = "retry" => d # "missing"
  /\ task[r] = "first" => a.count <= 1 /\ a.pc # "backoff"

\* The record of a run whose task has ended says what became of it.
EndedTrue(r) ==
  task[r] \in {"ending", "done"} =>
    /\ memory[r].status = "succeeded" => Scored(memory[r]) = Examples
    /\ memory[r].status = "completed_with_errors" =>
         Final(memory[r]) = Examples /\ Scored(memory[r]) # Examples
    /\ memory[r].status \in {"succeeded", "completed_with_errors"} =>
         memory[r].completed = Cardinality(Examples)

\* What holds of one run's task, attempts and record.
Progress(r) ==
  /\ task[r] \in {"saving", "created", "starting"} \union RunnerPcs =>
       memory[r].status \notin {"succeeded", "completed_with_errors"}
  /\ task[r] \notin {"first", "retry"} => attempt[r] = Unattempted
  /\ task[r] = "reporting" => \A i \in Examples : memory[r].result[i] \in {"missing", "scored"}
  /\ task[r] \in {"reporting", "first", "retry"} =>
       memory[r].completed = Cardinality(Final(memory[r]))
  /\ task[r] \in {"first", "retry"} => \A i \in Examples : AttemptTrue(r, i)
  /\ EndedTrue(r)

\* Runs that have not been started have left no trace.
WritersKnown == \A w \in Writers : writer[w].step # "idle" =>
                  writer[w].run \in Runs /\ writer[w].run <= started
FilesKnown   == \A r \in Runs : published[r].kind # "absent" => r <= started
RunsKnown    == \A r \in Runs : /\ memory[r].status # "none" => r <= started
                                /\ task[r] # "none" => memory[r].status # "none"

\* A record is loaded for a run that has no task.
ReadersKnown == \A n \in 1 .. MaxReaders : reader[n].run # 0 =>
                  /\ reader[n].run \in Runs /\ reader[n].run <= started
                  /\ task[reader[n].run] = "none"

Known == WritersKnown /\ FilesKnown /\ RunsKnown /\ ReadersKnown

EvalInv == EvalTypeOK /\ Known /\ \A r \in Runs : Progress(r)

\* The type of an attempt in EvalTypeOK.
Attempt == [pc: {"idle", "trying", "waiting", "saving", "backoff"}, count: 0 .. MaxRetries + 1,
            detail: Details]

-----------------------------------------------------------------------------
(* Frames                                                                  *)

LEMMA ProgressFrame ==
  ASSUME NEW r \in Runs, Progress(r),
         memory'[r] = memory[r], task'[r] = task[r], attempt'[r] = attempt[r]
  PROVE  Progress(r)'
  BY DEF Progress, AttemptTrue, EndedTrue, Final, Scored

LEMMA Constant ==
  /\ MaxRetries \in Nat /\ MaxRuns \in Nat /\ Unattempted \in [Examples -> Attempt]
  /\ NoRecord \in Record
  BY EvaluationAssumption DEF Unattempted, NoAttempt, Attempt, Details, NoRecord, Record

\* A step of a task between two writes.
LEMMA QuietKeeps ==
  ASSUME EvalInv, NEW r \in Runs, NEW t \in TaskPcs \ {"none"}, NEW a \in [Examples -> Attempt],
         task[r] # "none",
         task' = [task EXCEPT ![r] = t], attempt' = [attempt EXCEPT ![r] = a],
         UNCHANGED <<process, started, memory, awaited, raised, disturbed, stops,
                     writer, reader, files>>,
         Progress(r)'
  PROVE  EvalInv'
  <1>1. EvalTypeOK'
    BY DEF EvalInv, EvalTypeOK, Attempt, files
  <1>2. /\ task'[r] = t
        /\ \A q \in Runs \ {r} : task'[q] = task[q] /\ attempt'[q] = attempt[q]
    BY DEF EvalInv, EvalTypeOK
  <1>3. WritersKnown' /\ FilesKnown' /\ RunsKnown'
    BY <1>2 DEF EvalInv, Known, WritersKnown, FilesKnown, RunsKnown, files
  <1>4. ReadersKnown'
    BY <1>2 DEF EvalInv, Known, ReadersKnown
  <1>5. \A q \in Runs : Progress(q)'
    <2>1. ASSUME NEW q \in Runs \ {r} PROVE Progress(q)'
      BY <1>2, ProgressFrame DEF EvalInv
    <2>2. QED
      BY <2>1
  <1>6. QED
    BY <1>1, <1>3, <1>4, <1>5 DEF EvalInv, Known

\* A step of a task, of a request or of cancel() that changes the record and has
\* it written.
LEMMA SubmitKeeps ==
  ASSUME EvalInv, NEW r \in Runs, NEW t \in TaskPcs, NEW a \in [Examples -> Attempt],
         NEW rec \in Record, NEW w \in Writers, rec.status # "none", Submit(r, rec, w),
         task' = [task EXCEPT ![r] = t], attempt' = [attempt EXCEPT ![r] = a],
         IF t = "none" THEN task[r] = "none" ELSE task[r] # "none" \/ started < r,
         started' \in 0 .. MaxRuns, started <= started', r <= started',
         awaited' \in [Runs -> {0} \union Writers], raised' \in [Runs -> BOOLEAN],
         disturbed' \in SUBSET Runs,
         UNCHANGED <<process, stops, reader, files>>,
         Progress(r)'
  PROVE  EvalInv'
  <1> USE Constant
  <1>1. /\ memory' = [memory EXCEPT ![r] = rec]
        /\ writer' = [writer EXCEPT ![w] = [IdleWriter EXCEPT !.step = "submitted", !.run = r,
                                                              !.record = rec]]
    BY DEF Submit
  <1>2. EvalTypeOK'
    <2> DEFINE new == [IdleWriter EXCEPT !.step = "submitted", !.run = r, !.record = rec]
    <2>1. IdleWriter \in [step: {"idle", "submitted", "open"}, run: 0 .. MaxRuns, record: Record,
                          target: {"temporary", "published", "unlinked"}]
      BY DEF IdleWriter
    <2>2. r \in 0 .. MaxRuns
      BY DEF Runs
    <2>3. new \in [step: {"idle", "submitted", "open"}, run: 0 .. MaxRuns, record: Record,
                   target: {"temporary", "published", "unlinked"}]
      BY <2>1, <2>2
    <2> HIDE DEF new
    <2>4. memory' \in [Runs -> Record] /\ task' \in [Runs -> TaskPcs]
      BY <1>1 DEF EvalInv, EvalTypeOK
    <2>5. writer' \in [Writers -> [step: {"idle", "submitted", "open"}, run: 0 .. MaxRuns,
                       record: Record, target: {"temporary", "published", "unlinked"}]]
      BY <1>1, <2>3 DEF EvalInv, EvalTypeOK, new
    <2>6. attempt' \in [Runs -> [Examples -> Attempt]]
      BY DEF EvalInv, EvalTypeOK, Attempt
    <2>7. QED
      BY <2>4, <2>5, <2>6 DEF EvalInv, EvalTypeOK, Attempt, files
  <1>3. /\ task'[r] = t /\ memory'[r] = rec
        /\ \A q \in Runs \ {r} : /\ task'[q] = task[q] /\ attempt'[q] = attempt[q]
                                 /\ memory'[q] = memory[q]
    BY <1>1 DEF EvalInv, EvalTypeOK
  <1>4. started \in Nat /\ started' \in Nat
    BY DEF EvalInv, EvalTypeOK
  <1>5. WritersKnown'
    <2>1. writer'[w].run = r /\ \A v \in Writers \ {w} : writer'[v] = writer[v]
      BY <1>1 DEF EvalInv, EvalTypeOK, IdleWriter
    <2>2. \A v \in Writers \ {w} : writer[v].step # "idle" => writer[v].run <= started'
      BY <1>4 DEF EvalInv, Known, WritersKnown, Runs
    <2>3. QED
      BY <2>1, <2>2 DEF EvalInv, Known, WritersKnown
  <1>6. FilesKnown' /\ RunsKnown'
    BY <1>3, <1>4, SMTT(30) DEF EvalInv, Known, FilesKnown, RunsKnown, files, Runs
  <1>7. ReadersKnown'
    BY <1>3, <1>4 DEF EvalInv, Known, ReadersKnown, Runs
  <1>8. \A q \in Runs : Progress(q)'
    <2>1. ASSUME NEW q \in Runs \ {r} PROVE Progress(q)'
      BY <1>3, ProgressFrame DEF EvalInv
    <2>2. QED
      BY <2>1
  <1>9. QED
    BY <1>2, <1>5, <1>6, <1>7, <1>8 DEF EvalInv, Known

-----------------------------------------------------------------------------
(* The steps of a task                                                     *)

\* Attempts are under way in the two task groups only.
LEMMA InGroup ==
  ASSUME EvalInv, NEW r \in Runs, NEW i \in Examples, attempt[r][i].pc # "idle"
  PROVE  task[r] \in {"first", "retry"} /\ AttemptTrue(r, i)
  BY DEF EvalInv, Progress, Unattempted, NoAttempt

\* An attempt goes on without a write.
LEMMA AttemptMoves ==
  ASSUME EvalInv, NEW r \in Runs, NEW i \in Examples, NEW b \in Attempt,
         attempt[r][i].pc # "idle",
         attempt' = [attempt EXCEPT ![r] = [attempt[r] EXCEPT ![i] = b]],
         UNCHANGED <<process, started, memory, task, awaited, raised, disturbed, stops,
                     writer, reader, files>>,
         AttemptTrue(r, i)'
  PROVE  EvalInv'
  <1> DEFINE a == [attempt[r] EXCEPT ![i] = b]
  <1>1. task[r] \in {"first", "retry"} /\ task' = [task EXCEPT ![r] = task[r]]
    BY InGroup DEF EvalInv, EvalTypeOK
  <1>2. a \in [Examples -> Attempt]
    BY DEF EvalInv, EvalTypeOK, Attempt
  <1>3. attempt'[r] = a /\ \A j \in Examples \ {i} : attempt'[r][j] = attempt[r][j]
    BY DEF EvalInv, EvalTypeOK
  <1>4. ASSUME NEW j \in Examples \ {i} PROVE AttemptTrue(r, j)'
    <2>1. AttemptTrue(r, j)
      BY <1>1 DEF EvalInv, Progress
    <2>2. attempt'[r][j] = attempt[r][j]
      BY <1>3
    <2>3. QED
      BY <2>1, <2>2 DEF AttemptTrue
  <1>5. Progress(r)'
    BY <1>1, <1>4 DEF EvalInv, Progress, EndedTrue, RunnerPcs, Final
  <1> HIDE DEF a
  <1>6. QED
    BY <1>1, <1>2, <1>5, QuietKeeps DEF TaskPcs, RunnerPcs, a

LEMMA AttemptedKeeps ==
  ASSUME EvalInv, NEW r \in Runs, NEW i \in Examples, Attempted(r, i)
  PROVE  EvalInv'
  <1> DEFINE old == attempt[r][i]
  <1>1. old \in Attempt /\ attempt \in [Runs -> [Examples -> Attempt]]
    BY DEF EvalInv, EvalTypeOK, Attempt
  <1>2. old.pc = "trying"
    BY DEF Attempted
  <1>3. PICK d \in {"scored", IF old.count <= MaxRetries THEN "retrying" ELSE "failed"} :
          attempt' = [attempt EXCEPT ![r][i].pc = "waiting", ![r][i].detail = d]
    BY DEF Attempted
  <1> DEFINE new == [old EXCEPT !.pc = "waiting", !.detail = d]
  <1>4. attempt' = [attempt EXCEPT ![r] = [attempt[r] EXCEPT ![i] = new]]
    BY <1>1, <1>3
  <1>5. new \in Attempt
    BY <1>1 DEF Attempt, Details
  <1>6. AttemptTrue(r, i)
    BY <1>2, InGroup
  <1>7. attempt'[r][i] = new
    BY <1>1, <1>4
  <1>8. new.pc = "waiting" /\ new.detail = d /\ new.count = old.count
    BY <1>1 DEF Attempt
  <1>9. UNCHANGED <<process, started, memory, task, awaited, raised, disturbed, stops,
                    writer, reader, files>>
    BY DEF Attempted
  <1> HIDE DEF new
  <1>10. AttemptTrue(r, i)'
    BY <1>2, <1>6, <1>7, <1>8, <1>9 DEF AttemptTrue
  <1>11. QED
    BY <1>2, <1>4, <1>5, <1>9, <1>10, AttemptMoves

LEMMA AttemptSavedKeeps ==
  ASSUME EvalInv, NEW r \in Runs, NEW i \in Examples, AttemptSaved(r, i)
  PROVE  EvalInv'
  <1> DEFINE old == attempt[r][i]
             new == [old EXCEPT !.pc = IF BacksOff(r, i) THEN "backoff" ELSE "idle"]
  <1>1. old \in Attempt /\ attempt \in [Runs -> [Examples -> Attempt]]
    BY DEF EvalInv, EvalTypeOK, Attempt
  <1>2. old.pc = "saving"
    BY DEF AttemptSaved
  <1>4. attempt' = [attempt EXCEPT ![r] = [attempt[r] EXCEPT ![i] = new]]
    BY <1>1 DEF AttemptSaved
  <1>5. new \in Attempt
    BY <1>1 DEF Attempt
  <1>6. AttemptTrue(r, i) /\ task[r] \in {"first", "retry"}
    BY <1>2, InGroup
  <1>7. attempt'[r][i] = new
    BY <1>1, <1>4
  <1>8. /\ new.pc = (IF BacksOff(r, i) THEN "backoff" ELSE "idle")
        /\ new.detail = old.detail /\ new.count = old.count
    BY <1>1 DEF Attempt
  <1>9. UNCHANGED <<process, started, memory, task, awaited, raised, disturbed, stops,
                    writer, reader, files>>
    BY DEF AttemptSaved
  <1> HIDE DEF new
  <1>10. AttemptTrue(r, i)'
    BY <1>2, <1>6, <1>7, <1>8, <1>9 DEF AttemptTrue, BacksOff
  <1>11. QED
    BY <1>2, <1>4, <1>5, <1>9, <1>10, AttemptMoves

LEMMA RetryKeeps ==
  ASSUME EvalInv, NEW r \in Runs, NEW i \in Examples, Retry(r, i)
  PROVE  EvalInv'
  <1> DEFINE old == attempt[r][i]
             new == [old EXCEPT !.pc = "trying", !.count = old.count + 1]
  <1>1. old \in Attempt /\ attempt \in [Runs -> [Examples -> Attempt]]
    BY DEF EvalInv, EvalTypeOK, Attempt
  <1>2. old.pc = "backoff"
    BY DEF Retry
  <1>4. attempt' = [attempt EXCEPT ![r] = [attempt[r] EXCEPT ![i] = new]]
    BY <1>1 DEF Retry
  <1>5. AttemptTrue(r, i) /\ task[r] \in {"first", "retry"}
    BY <1>2, InGroup
  <1>6. old.count + 1 \in 0 .. MaxRetries + 1
    BY <1>1, <1>2, <1>5, Constant DEF AttemptTrue, Attempt
  <1>7. new \in Attempt
    BY <1>1, <1>6 DEF Attempt
  <1>8. attempt'[r][i] = new
    BY <1>1, <1>4
  <1>9. new.pc = "trying" /\ new.detail = old.detail /\ new.count = old.count + 1
    BY <1>1 DEF Attempt
  <1>10. UNCHANGED <<process, started, memory, task, awaited, raised, disturbed, stops,
                     writer, reader, files>>
    BY DEF Retry
  <1> HIDE DEF new
  <1>11. AttemptTrue(r, i)'
    BY <1>2, <1>5, <1>8, <1>9, <1>10 DEF AttemptTrue
  <1>12. QED
    BY <1>2, <1>4, <1>7, <1>10, <1>11, AttemptMoves

\* The task goes from one phase to the next: no attempt is under way.
LEMMA TaskMoves ==
  ASSUME EvalInv, NEW r \in Runs, TaskCreated(r) \/ RunStarted(r) \/ TaskEnds(r)
  PROVE  EvalInv'
  <1>1. PICK t \in TaskPcs \ {"none"} : task' = [task EXCEPT ![r] = t] /\ task[r] # "none" /\
          (\/ task[r] = "saving" /\ t \in {"created", "done"}
           \/ task[r] = "starting" /\ t \in {"sampling", "done"}
           \/ task[r] = "ending" /\ t = "done")
    BY DEF TaskCreated, RunStarted, TaskEnds, TaskPcs, RunnerPcs
  <1>2. UNCHANGED <<process, started, memory, attempt, awaited, raised, disturbed, stops,
                    writer, reader, files>>
    BY DEF TaskCreated, RunStarted, TaskEnds
  <1>3. attempt[r] = Unattempted /\ Progress(r)
    BY <1>1 DEF EvalInv, Progress
  <1>4. attempt' = [attempt EXCEPT ![r] = Unattempted]
    BY <1>2, <1>3 DEF EvalInv, EvalTypeOK
  <1>5. task'[r] = t /\ memory'[r] = memory[r] /\ attempt'[r] = Unattempted
    BY <1>1, <1>2, <1>3 DEF EvalInv, EvalTypeOK
  <1>6. Progress(r)'
    BY <1>1, <1>3, <1>5 DEF Progress, EndedTrue, RunnerPcs, Scored, Final
  <1>7. QED
    BY <1>1, <1>2, <1>4, <1>6, Constant, QuietKeeps

LEMMA FirstPassKeeps ==
  ASSUME EvalInv, NEW r \in Runs, FirstPass(r)
  PROVE  EvalInv'
  <1> DEFINE a == [i \in Examples |->
                     IF memory[r].result[i] = "missing"
                     THEN [pc |-> "trying", count |-> 1, detail |-> "missing"] ELSE NoAttempt]
  <1>1. /\ task[r] = "reporting" /\ task' = [task EXCEPT ![r] = "first"]
        /\ attempt' = [attempt EXCEPT ![r] = a]
        /\ UNCHANGED <<process, started, memory, awaited, raised, disturbed, stops,
                       writer, reader, files>>
    BY DEF FirstPass
  <1>2. a \in [Examples -> Attempt]
    BY Constant DEF Attempt, NoAttempt, Details
  <1>3. task'[r] = "first" /\ attempt'[r] = a /\ memory' = memory
    BY <1>1 DEF EvalInv, EvalTypeOK
  <1>4. /\ \A i \in Examples : memory[r].result[i] \in {"missing", "scored"}
        /\ memory[r].completed = Cardinality(Final(memory[r]))
    BY <1>1 DEF EvalInv, Progress
  <1>5. ASSUME NEW i \in Examples PROVE AttemptTrue(r, i)'
    <2>1. CASE memory[r].result[i] = "missing"
      BY <1>3, <2>1, Constant DEF AttemptTrue
    <2>2. CASE memory[r].result[i] = "scored"
      BY <1>3, <2>2, Constant DEF AttemptTrue, NoAttempt
    <2>3. QED
      BY <1>4, <2>1, <2>2
  <1>6. Progress(r)'
    <2>1. memory'[r].status \notin {"succeeded", "completed_with_errors"}
      BY <1>1, <1>3 DEF EvalInv, Progress, RunnerPcs
    <2>2. QED
      BY <1>3, <1>4, <1>5, <2>1 DEF Progress, EndedTrue, RunnerPcs, Final
  <1> HIDE DEF a
  <1>7. QED
    BY <1>1, <1>2, <1>6, QuietKeeps DEF TaskPcs, RunnerPcs

LEMMA RetryPassKeeps ==
  ASSUME EvalInv, NEW r \in Runs, RetryPass(r)
  PROVE  EvalInv'
  <1> DEFINE a == [i \in Examples |->
                     IF attempt[r][i].detail = "retrying" THEN [attempt[r][i] EXCEPT !.pc = "backoff"]
                     ELSE attempt[r][i]]
  <1>1. /\ task[r] = "first" /\ task' = [task EXCEPT ![r] = "retry"]
        /\ attempt' = [attempt EXCEPT ![r] = a]
        /\ \A i \in Examples : attempt[r][i].pc = "idle"
        /\ UNCHANGED <<process, started, memory, awaited, raised, disturbed, stops,
                       writer, reader, files>>
    BY DEF RetryPass, GroupEnds
  <1>2. \A i \in Examples : attempt[r][i] \in Attempt /\ memory[r].result[i] \in Details
    BY DEF EvalInv, EvalTypeOK, Attempt, Record
  <1>3. a \in [Examples -> Attempt]
    <2>1. ASSUME NEW i \in Examples PROVE [attempt[r][i] EXCEPT !.pc = "backoff"] \in Attempt
      BY <1>2 DEF Attempt
    <2>2. QED
      BY <1>2, <2>1
  <1>4. task'[r] = "retry" /\ attempt'[r] = a /\ memory' = memory
    BY <1>1 DEF EvalInv, EvalTypeOK
  <1>5. ASSUME NEW i \in Examples PROVE AttemptTrue(r, i)'
    <2>1. AttemptTrue(r, i) /\ attempt[r][i].pc = "idle"
      BY <1>1 DEF EvalInv, Progress
    <2>2. CASE attempt[r][i].detail = "retrying"
      <3>1. /\ attempt'[r][i].pc = "backoff" /\ attempt'[r][i].detail = "retrying"
            /\ attempt'[r][i].count = attempt[r][i].count
        BY <1>2, <1>4, <2>2 DEF Attempt
      <3>2. QED
        BY <1>4, <2>1, <2>2, <3>1 DEF AttemptTrue
    <2>3. CASE attempt[r][i].detail # "retrying"
      <3>1. attempt'[r][i] = attempt[r][i]
        BY <1>4, <2>3
      <3>2. QED
        BY <1>4, <2>1, <2>3, <3>1 DEF AttemptTrue
    <2>4. QED
      BY <2>2, <2>3
  <1>6. Progress(r)'
    BY <1>1, <1>4, <1>5, SMTT(30) DEF EvalInv, Progress, EndedTrue, RunnerPcs, Final
  <1> HIDE DEF a
  <1>7. QED
    BY <1>1, <1>3, <1>6, QuietKeeps DEF TaskPcs, RunnerPcs

\* Persist hands the record to a thread, as SubmitKeeps has it.
LEMMA PersistKeeps ==
  ASSUME EvalInv, NEW r \in Runs, NEW t \in TaskPcs \ {"none"}, NEW a \in [Examples -> Attempt],
         NEW rec \in Record, rec.status # "none", Persist(r, rec),
         task' = [task EXCEPT ![r] = t], attempt' = [attempt EXCEPT ![r] = a],
         task[r] # "none" \/ started < r,
         started' \in 0 .. MaxRuns, started <= started', r <= started',
         disturbed' \in SUBSET Runs,
         UNCHANGED <<process, stops, reader, files>>,
         Progress(r)'
  PROVE  EvalInv'
  <1>1. PICK w \in Writers : /\ Submit(r, rec, w)
                             /\ awaited' = [awaited EXCEPT ![r] = w]
                             /\ raised' = [raised EXCEPT ![r] = FALSE]
    BY DEF Persist
  <1>2. awaited' \in [Runs -> {0} \union Writers] /\ raised' \in [Runs -> BOOLEAN]
    BY <1>1 DEF EvalInv, EvalTypeOK
  <1>3. QED
    BY <1>1, <1>2, SubmitKeeps

\* The same for a task of a run that has been started.
LEMMA TaskPersists ==
  ASSUME EvalInv, NEW r \in Runs, NEW t \in TaskPcs \ {"none"}, NEW a \in [Examples -> Attempt],
         NEW rec \in Record, rec.status # "none", Persist(r, rec),
         task' = [task EXCEPT ![r] = t], attempt' = [attempt EXCEPT ![r] = a],
         task[r] # "none", disturbed' \in SUBSET Runs,
         UNCHANGED <<process, started, stops, reader, files>>,
         memory'[r] = rec /\ task'[r] = t /\ attempt'[r] = a => Progress(r)'
  PROVE  EvalInv'
  <1>1. memory'[r] = rec /\ task'[r] = t /\ attempt'[r] = a
    BY DEF EvalInv, EvalTypeOK, Persist, Submit
  <1>2. r <= started /\ started \in 0 .. MaxRuns /\ started \in Nat
    BY DEF EvalInv, EvalTypeOK, Known, RunsKnown
  <1>3. Progress(r)'
    BY <1>1
  <1>4. started' \in 0 .. MaxRuns /\ started <= started' /\ r <= started'
    BY <1>2
  <1>5. QED
    BY <1>3, <1>4, PersistKeeps

LEMMA ExecuteKeeps ==
  ASSUME EvalInv, NEW r \in Runs, Execute(r)
  PROVE  EvalInv'
  <1> DEFINE rec == [memory[r] EXCEPT !.status = "running"]
  <1>0. memory[r] \in Record
    BY DEF EvalInv, EvalTypeOK
  <1>1. rec \in Record /\ rec.status = "running"
    BY <1>0 DEF Record, Active
  <1>2. attempt[r] = Unattempted /\ attempt' = [attempt EXCEPT ![r] = Unattempted]
    <2>1. task[r] = "created" /\ attempt' = attempt
      BY DEF Execute
    <2>2. attempt[r] = Unattempted
      BY <2>1 DEF EvalInv, Progress
    <2>3. QED
      BY <2>1, <2>2 DEF EvalInv, EvalTypeOK
  <1>3. ASSUME memory'[r] = rec, task'[r] = "starting", attempt'[r] = Unattempted
        PROVE  Progress(r)'
    BY <1>1, <1>3 DEF Progress, EndedTrue, RunnerPcs
  <1> HIDE DEF rec
  <1>4. /\ Persist(r, rec) /\ task' = [task EXCEPT ![r] = "starting"] /\ task[r] # "none"
        /\ UNCHANGED <<process, started, stops, reader, files>> /\ disturbed' \in SUBSET Runs
    BY DEF Execute, rec, EvalInv, EvalTypeOK
  <1>5. QED
    BY <1>1, <1>2, <1>3, <1>4, TaskPersists, Constant DEF TaskPcs

\* The task ends with a status that says nothing of the details, or with Outcome
\* when every example is final and counted.
LEMMA SettleKeeps ==
  ASSUME EvalInv, NEW r \in Runs, NEW status \in Settled, Settle(r, status),
         task[r] \in RunnerPcs,
         \/ status \in {"failed", "cancelled"}
         \/ /\ status = Outcome(memory[r])
            /\ \A i \in Examples : memory[r].result[i] \in {"scored", "failed"}
            /\ memory[r].completed = Cardinality(Final(memory[r]))
  PROVE  EvalInv'
  <1> DEFINE rec == [memory[r] EXCEPT !.status = status]
  <1>0. memory[r] \in Record
    BY DEF EvalInv, EvalTypeOK
  <1>1. /\ rec \in Record /\ rec.status = status
        /\ rec.result = memory[r].result /\ rec.completed = memory[r].completed
    BY <1>0 DEF Record
  <1> HIDE DEF rec
  <1>2. ASSUME memory'[r] = rec, task'[r] = "ending", attempt'[r] = Unattempted
        PROVE  Progress(r)'
    <2>1. CASE status \in {"failed", "cancelled"}
      BY <1>1, <1>2, <2>1 DEF Progress, EndedTrue, RunnerPcs
    <2>2. CASE /\ status = Outcome(memory[r])
               /\ \A i \in Examples : memory[r].result[i] \in {"scored", "failed"}
               /\ memory[r].completed = Cardinality(Final(memory[r]))
      <3>1. Final(memory[r]) = Examples
        BY <2>2 DEF Final
      <3>2. rec.completed = Cardinality(Examples)
        BY <1>1, <2>2, <3>1
      <3>3. Final(rec) = Examples
        BY <1>1, <2>2 DEF Final
      <3>4. status = "succeeded" => Scored(rec) = Examples
        BY <1>1, <2>2 DEF Outcome, Scored
      <3>5. status = "completed_with_errors" => Scored(rec) # Examples
        BY <1>1, <2>2 DEF Outcome, Scored
      <3>6. Scored(memory'[r]) = Scored(rec) /\ Final(memory'[r]) = Final(rec)
        BY <1>2
      <3>7. EndedTrue(r)'
        BY <1>1, <1>2, <3>2, <3>3, <3>4, <3>5 DEF EndedTrue, Scored, Final
      <3>8. QED
        BY <1>2, <3>7 DEF Progress, RunnerPcs
    <2>3. QED
      BY <2>1, <2>2
  <1>3. /\ Persist(r, rec) /\ task' = [task EXCEPT ![r] = "ending"] /\ task[r] # "none"
        /\ attempt' = [attempt EXCEPT ![r] = Unattempted]
        /\ UNCHANGED <<process, started, stops, reader, files>> /\ disturbed' \in SUBSET Runs
    BY DEF Settle, rec, EvalInv, EvalTypeOK, RunnerPcs, Unattempted
  <1>4. QED
    BY <1>1, <1>2, <1>3, TaskPersists, Constant DEF TaskPcs, Settled

LEMMA RunnerEnds ==
  ASSUME EvalInv, NEW r \in Runs, RunnerRaises(r) \/ RunnerReturns(r) \/ Interrupt(r)
  PROVE  EvalInv'
  <1>1. CASE RunnerRaises(r)
    BY <1>1, SettleKeeps DEF RunnerRaises, RunnerPcs, Settled
  <1>2. CASE Interrupt(r)
    BY <1>2, SettleKeeps DEF Interrupt, Settled
  <1>3. CASE RunnerReturns(r)
    <2>1. task[r] = "retry" /\ Settle(r, Outcome(memory[r]))
      BY <1>3 DEF RunnerReturns
    <2>2. ASSUME NEW i \in Examples PROVE memory[r].result[i] \in {"scored", "failed"}
      <3>1. AttemptTrue(r, i) /\ attempt[r][i].pc = "idle"
        BY <1>3, <2>1 DEF RunnerReturns, GroupEnds, EvalInv, Progress
      <3>2. memory[r].result[i] \in Details
        BY DEF EvalInv, EvalTypeOK, Record
      <3>3. QED
        BY <2>1, <3>1, <3>2 DEF AttemptTrue, Details
    <2>3. memory[r].completed = Cardinality(Final(memory[r]))
      BY <2>1 DEF EvalInv, Progress
    <2>4. Outcome(memory[r]) \in Settled
      BY DEF Outcome, Settled
    <2>5. QED
      BY <2>1, <2>2, <2>3, <2>4, SettleKeeps DEF RunnerPcs
  <1>4. QED
    BY <1>1, <1>2, <1>3

LEMMA SampledKeeps ==
  ASSUME EvalInv, NEW r \in Runs, Sampled(r)
  PROVE  EvalInv'
  <1> DEFINE kept == Recovered(memory[r])
             rec == [memory[r] EXCEPT !.saved = TRUE, !.result = kept,
                       !.completed = Cardinality({i \in Examples : kept[i] = "scored"})]
  <1>1. kept \in [Examples -> Details] /\ \A i \in Examples : kept[i] \in {"missing", "scored"}
    BY DEF Recovered, Details
  <1> HIDE DEF kept
  <1>2. memory[r] \in Record
    BY DEF EvalInv, EvalTypeOK
  <1>3. Cardinality({i \in Examples : kept[i] = "scored"}) \in Nat
    BY EvaluationAssumption, FS_Subset, FS_CardinalityType
  <1>4. /\ rec \in Record /\ rec.status = memory[r].status /\ rec.result = kept
        /\ rec.completed = Cardinality({i \in Examples : kept[i] = "scored"})
    BY <1>1, <1>2, <1>3 DEF Record
  <1>5. task[r] = "sampling" /\ memory[r].status \notin {"none", "succeeded", "completed_with_errors"}
    BY DEF Sampled, EvalInv, Progress, RunnerPcs, Known, RunsKnown
  <1>6. attempt[r] = Unattempted /\ attempt' = [attempt EXCEPT ![r] = Unattempted]
    <2>1. attempt[r] = Unattempted
      BY <1>5 DEF EvalInv, Progress
    <2>2. attempt' = attempt
      BY DEF Sampled
    <2>3. QED
      BY <2>1, <2>2 DEF EvalInv, EvalTypeOK
  <1> HIDE DEF rec
  <1>7. ASSUME memory'[r] = rec, task'[r] = "reporting", attempt'[r] = Unattempted
        PROVE  Progress(r)'
    <2>1. Final(rec) = {i \in Examples : kept[i] = "scored"}
      BY <1>1, <1>4 DEF Final
    <2>2. memory'[r].completed = Cardinality(Final(memory'[r]))
      BY <1>4, <1>7, <2>1
    <2>3. QED
      BY <1>1, <1>4, <1>5, <1>7, <2>2 DEF Progress, EndedTrue, RunnerPcs, Final
  <1>8. /\ Persist(r, rec) /\ task' = [task EXCEPT ![r] = "reporting"]
        /\ UNCHANGED <<process, started, stops, reader, files>> /\ disturbed' \in SUBSET Runs
    BY DEF Sampled, rec, kept, EvalInv, EvalTypeOK
  <1>9. QED
    BY <1>4, <1>5, <1>6, <1>7, <1>8, TaskPersists, Constant DEF TaskPcs, RunnerPcs

\* A final result that was not final before is counted once.
LEMMA SaveAttemptKeeps ==
  ASSUME EvalInv, NEW r \in Runs, NEW i \in Examples, SaveAttempt(r, i)
  PROVE  EvalInv'
  <1> DEFINE old == attempt[r][i]
             d == old.detail
             new == [old EXCEPT !.pc = "saving"]
             a == [attempt[r] EXCEPT ![i] = new]
             count == IF Completes(d) THEN memory[r].completed + 1 ELSE memory[r].completed
             result == [memory[r].result EXCEPT ![i] = d]
             rec == [memory[r] EXCEPT !.result = result, !.completed = count]
  <1>1. old \in Attempt /\ attempt \in [Runs -> [Examples -> Attempt]] /\ memory[r] \in Record
    BY DEF EvalInv, EvalTypeOK, Attempt
  <1>2. old.pc = "waiting"
    BY DEF SaveAttempt
  <1>3. task[r] \in {"first", "retry"} /\ AttemptTrue(r, i)
    BY <1>2, InGroup
  <1>4. d \in Details \ {"missing"} /\ memory[r].result[i] \in {"missing", "retrying"}
    BY <1>1, <1>2, <1>3 DEF AttemptTrue, Attempt
  <1>5. /\ new \in Attempt /\ new.pc = "saving" /\ new.detail = d /\ new.count = old.count
    BY <1>1 DEF Attempt
  <1>6. /\ rec \in Record /\ rec.status = memory[r].status
        /\ rec.result = result /\ rec.completed = count
    <2>1. memory[r].result \in [Examples -> Details] /\ memory[r].completed \in Nat
      BY <1>1 DEF Record
    <2>2. result \in [Examples -> Details] /\ count \in Nat
      BY <1>4, <2>1
    <2> HIDE DEF result, count
    <2>3. QED
      BY <1>1, <2>2 DEF Record
  <1>7. task[r] # "none" /\ memory[r].status \notin {"none", "succeeded", "completed_with_errors"}
    BY <1>3 DEF EvalInv, Progress, RunnerPcs, Known, RunsKnown
  <1>8. /\ attempt' = [attempt EXCEPT ![r] = a] /\ task' = [task EXCEPT ![r] = task[r]]
        /\ Persist(r, rec)
        /\ UNCHANGED <<process, started, stops, reader, files>> /\ disturbed' \in SUBSET Runs
    <2>1. rec = [memory[r] EXCEPT !.result[i] = d,
                   !.completed = IF Completes(d) THEN @ + 1 ELSE @]
      BY <1>1 DEF Record
    <2>2. Persist(r, rec)
      BY <2>1 DEF SaveAttempt
    <2>3. QED
      BY <1>1, <2>2 DEF SaveAttempt, EvalInv, EvalTypeOK
  <1>9. a \in [Examples -> Attempt] /\ a[i] = new /\ \A j \in Examples \ {i} : a[j] = attempt[r][j]
    BY <1>1, <1>5
  <1>10. rec.completed = Cardinality(Final(rec))
    <2>1. memory[r].completed = Cardinality(Final(memory[r]))
      BY <1>3 DEF EvalInv, Progress
    <2>2. memory[r].result \in [Examples -> Details] /\ i \notin Final(memory[r])
      BY <1>1, <1>4 DEF Final, Record
    <2>3. IsFiniteSet(Final(memory[r]))
      BY EvaluationAssumption, FS_Subset DEF Final
    <2>4. CASE Completes(d)
      <3>1. Final(rec) = Final(memory[r]) \union {i}
        BY <1>6, <2>2, <2>4 DEF Final, Completes
      <3>2. QED
        BY <1>6, <2>1, <2>2, <2>3, <2>4, <3>1, FS_AddElement
    <2>5. CASE ~Completes(d)
      <3>1. Final(rec) = Final(memory[r])
        BY <1>6, <2>2, <2>5 DEF Final, Completes
      <3>2. QED
        BY <1>6, <2>1, <2>5, <3>1
    <2>6. QED
      BY <2>4, <2>5
  <1> HIDE DEF rec, new, a
  <1>11. ASSUME memory'[r] = rec, task'[r] = task[r], attempt'[r] = a
         PROVE  Progress(r)'
    <2>1. AttemptTrue(r, i)'
      <3>1. attempt'[r][i] = new /\ memory'[r].result[i] = d
        BY <1>1, <1>6, <1>9, <1>11 DEF Record
      <3>2. QED
        BY <1>2, <1>3, <1>4, <1>5, <1>11, <3>1 DEF AttemptTrue
    <2>2. ASSUME NEW j \in Examples \ {i} PROVE AttemptTrue(r, j)'
      <3>1. AttemptTrue(r, j)
        BY <1>3 DEF EvalInv, Progress
      <3>2. attempt'[r][j] = attempt[r][j] /\ memory'[r].result[j] = memory[r].result[j]
        BY <1>1, <1>6, <1>9, <1>11 DEF Record
      <3>3. QED
        BY <1>11, <3>1, <3>2 DEF AttemptTrue
    <2>3. memory'[r].completed = Cardinality(Final(memory'[r]))
      BY <1>10, <1>11
    <2>4. QED
      BY <1>3, <1>6, <1>7, <1>11, <2>1, <2>2, <2>3 DEF Progress, EndedTrue, RunnerPcs, Final
  <1>12. QED
    BY <1>3, <1>6, <1>7, <1>8, <1>9, <1>11, TaskPersists DEF TaskPcs, RunnerPcs

-----------------------------------------------------------------------------
(* Requests, threads and the process                                       *)

LEMMA StartKeeps ==
  ASSUME EvalInv, NEW r \in Runs, NEW p \in 0 .. MaxRuns, NEW result \in [Examples -> Details],
         Start(r, p, result)
  PROVE  EvalInv'
  <1> DEFINE rec == [NoRecord EXCEPT !.status = "queued", !.retryOf = p, !.saved = (p # 0),
                                     !.result = result]
  <1>1. rec \in Record /\ rec.status = "queued"
    <2>1. NoRecord \in Record /\ "queued" \in Active
      BY Constant DEF Active
    <2>2. QED
      BY <2>1 DEF Record
  <1> HIDE DEF rec
  <1>2. r = started + 1 /\ started' = r /\ started \in Nat /\ started' \in 0 .. MaxRuns
    BY DEF Start, EvalInv, EvalTypeOK, Runs
  <1>3. task[r] = "none"
    BY <1>2 DEF EvalInv, Known, RunsKnown
  <1>4. attempt[r] = Unattempted
    BY <1>3 DEF EvalInv, Progress
  <1>5. /\ Persist(r, rec) /\ task' = [task EXCEPT ![r] = "saving"]
        /\ attempt' = attempt /\ UNCHANGED <<process, disturbed, stops, reader, files>>
    BY DEF Start, rec
  <1>6. attempt' = [attempt EXCEPT ![r] = Unattempted] /\ disturbed' \in SUBSET Runs
    BY <1>4, <1>5 DEF EvalInv, EvalTypeOK
  <1>7. memory'[r] = rec /\ task'[r] = "saving" /\ attempt'[r] = Unattempted
    BY <1>4, <1>5 DEF EvalInv, EvalTypeOK, Persist, Submit
  <1>8. Progress(r)'
    BY <1>1, <1>7 DEF Progress, EndedTrue, RunnerPcs
  <1>9. started < r /\ started <= started' /\ r <= started'
    BY <1>2
  <1>10. "saving" \in TaskPcs \ {"none"} /\ rec.status # "none"
    BY <1>1 DEF TaskPcs
  <1>11. QED
    BY <1>1, <1>2, <1>5, <1>6, <1>8, <1>9, <1>10, PersistKeeps, Constant

LEMMA RequestKeeps ==
  ASSUME EvalInv, StartFresh \/ \E p \in Runs : RetryFailed(p)
  PROVE  EvalInv'
  <1>1. NoRecord.result \in [Examples -> Details] /\ 0 \in 0 .. MaxRuns
    BY Constant DEF NoRecord, Details
  <1>2. CASE StartFresh
    <2>1. started + 1 \in Runs
      <3>1. started < MaxRuns
        BY <1>2 DEF StartFresh, Start
      <3>2. QED
        BY <3>1, Constant DEF EvalInv, EvalTypeOK, Runs
    <2>2. QED
      BY <1>1, <1>2, <2>1, StartKeeps DEF StartFresh
  <1>3. ASSUME NEW p \in Runs, RetryFailed(p) PROVE EvalInv'
    <2>1. started + 1 \in Runs /\ p \in 0 .. MaxRuns
      <3>1. started < MaxRuns
        BY <1>3 DEF RetryFailed, Start
      <3>2. QED
        BY <3>1, Constant DEF EvalInv, EvalTypeOK, Runs
    <2>2. memory[p].result \in [Examples -> Details]
      BY DEF EvalInv, EvalTypeOK, Record
    <2>3. QED
      BY <1>3, <2>1, <2>2, StartKeeps DEF RetryFailed
  <1>4. QED
    BY <1>2, <1>3

LEMMA CancelKeeps ==
  ASSUME EvalInv, NEW r \in Runs, CancelRun(r)
  PROVE  EvalInv'
  <1> DEFINE rec == [memory[r] EXCEPT !.status = "cancelled"]
  <1>1. memory[r] \in Record
    BY DEF EvalInv, EvalTypeOK
  <1>2. rec \in Record /\ rec.status = "cancelled"
    BY <1>1 DEF Record, Settled
  <1>3. memory[r].status # "none" /\ r <= started /\ started \in 0 .. MaxRuns /\ started \in Nat
    BY DEF CancelRun, Active, EvalInv, EvalTypeOK, Known, RunsKnown
  <1>4. disturbed' \in SUBSET Runs /\ UNCHANGED <<process, started, stops, reader, files>>
    BY DEF CancelRun, EvalInv, EvalTypeOK
  <1>5. started' \in 0 .. MaxRuns /\ started <= started' /\ r <= started'
    BY <1>3, <1>4
  <1>6. ASSUME NEW t \in {"none", "saving", "ending", "done"},
               memory'[r] = rec, task'[r] = t, attempt'[r] = Unattempted
        PROVE  Progress(r)'
    BY <1>2, <1>6 DEF Progress, EndedTrue, RunnerPcs
  <1> HIDE DEF rec
  <1>7. CASE /\ task[r] \in RunnerPcs
             /\ task' = [task EXCEPT ![r] = "ending"]
             /\ attempt' = [attempt EXCEPT ![r] = Unattempted]
             /\ Persist(r, rec)
    <2>1. task[r] # "none" /\ "ending" \in TaskPcs \ {"none"} /\ rec.status # "none"
      BY <1>2, <1>7 DEF RunnerPcs, TaskPcs
    <2>2. QED
      BY <1>2, <1>4, <1>6, <1>7, <2>1, TaskPersists, Constant
  <1>8. ASSUME NEW t \in {"none", "saving", "done"}, NEW w \in Writers,
               task[r] \notin RunnerPcs \union {"ending"},
               task' = [task EXCEPT ![r] = t], t = "none" <=> task[r] = "none",
               Submit(r, rec, w), attempt' = attempt, raised' = raised,
               awaited' = [awaited EXCEPT ![r] = 0] \/ awaited' = awaited
        PROVE  EvalInv'
    <2>1. attempt[r] = Unattempted
      BY <1>8 DEF EvalInv, Progress, RunnerPcs
    <2>2. attempt' = [attempt EXCEPT ![r] = Unattempted]
      BY <1>8, <2>1 DEF EvalInv, EvalTypeOK
    <2>3. awaited' \in [Runs -> {0} \union Writers] /\ raised' \in [Runs -> BOOLEAN]
      BY <1>8 DEF EvalInv, EvalTypeOK
    <2>4. memory'[r] = rec /\ task'[r] = t /\ attempt'[r] = Unattempted
      BY <1>8, <2>1 DEF Submit, EvalInv, EvalTypeOK
    <2>5. Progress(r)'
      BY <1>6, <2>4
    <2>6. t \in TaskPcs /\ rec.status # "none"
      BY <1>2 DEF TaskPcs
    <2>7. IF t = "none" THEN task[r] = "none" ELSE task[r] # "none" \/ started < r
      BY <1>8
    <2>8. QED
      BY <1>2, <1>4, <1>5, <1>8, <2>2, <2>3, <2>5, <2>6, <2>7, SubmitKeeps, Constant
  <1>9. CASE /\ task[r] \in {"created", "starting"}
             /\ task' = [task EXCEPT ![r] = "done"]
             /\ awaited' = [awaited EXCEPT ![r] = 0]
             /\ \E w \in Writers : Submit(r, rec, w)
             /\ UNCHANGED <<attempt, raised>>
    BY <1>8, <1>9 DEF RunnerPcs
  <1>10. CASE /\ task[r] \in {"none", "saving", "done"}
              /\ \E w \in Writers : Submit(r, rec, w)
              /\ UNCHANGED <<task, attempt, awaited, raised>>
    <2>1. task' = [task EXCEPT ![r] = task[r]]
      BY <1>10 DEF EvalInv, EvalTypeOK
    <2>2. QED
      BY <1>8, <1>10, <2>1 DEF RunnerPcs
  <1>11. QED
    BY <1>7, <1>9, <1>10 DEF CancelRun, rec, Unattempted

\* The threads change no record in memory and no task.
LEMMA ThreadFrame ==
  ASSUME EvalInv, UNCHANGED <<started, memory, task, attempt>>
  PROVE  RunsKnown' /\ \A r \in Runs : Progress(r)'
  <1>1. RunsKnown'
    BY DEF EvalInv, Known, RunsKnown
  <1>2. QED
    BY <1>1, ProgressFrame DEF EvalInv

LEMMA OpenKeeps ==
  ASSUME EvalInv, NEW w \in Writers, OpenTemporary(w)
  PROVE  EvalInv'
  <1> DEFINE run == writer[w].run
             live == IF task[run] = "none" THEN writer[w].record ELSE memory[run]
             new == [writer[w] EXCEPT !.step = "open", !.record = live, !.target = "temporary"]
             WriterType == [step: {"idle", "submitted", "open"}, run: 0 .. MaxRuns, record: Record,
                            target: {"temporary", "published", "unlinked"}]
  <1>1. run \in Runs /\ run <= started
    BY DEF OpenTemporary, EvalInv, Known, WritersKnown
  <1>2. writer \in [Writers -> WriterType] /\ memory \in [Runs -> Record]
    BY DEF EvalInv, EvalTypeOK
  <1>3. live \in Record
    BY <1>1, <1>2
  <1>4. new \in WriterType /\ new.run = run
    BY <1>2, <1>3
  <1>5. writer' = [writer EXCEPT ![w] = new]
    BY <1>2 DEF OpenTemporary
  <1>6. /\ temporary' = [temporary EXCEPT ![run] = TRUE] /\ UNCHANGED published
        /\ UNCHANGED <<process, started, memory, task, attempt, awaited, raised, disturbed, stops,
                       reader>>
    BY DEF OpenTemporary, manager
  <1> HIDE DEF new, live
  <1>7. writer' \in [Writers -> WriterType] /\ temporary' \in [Runs -> BOOLEAN]
    BY <1>1, <1>2, <1>4, <1>5, <1>6 DEF EvalInv, EvalTypeOK
  <1>8. EvalTypeOK'
    BY <1>6, <1>7 DEF EvalInv, EvalTypeOK
  <1>9. WritersKnown'
    BY <1>1, <1>2, <1>4, <1>5, <1>6 DEF EvalInv, Known, WritersKnown
  <1>10. FilesKnown' /\ ReadersKnown'
    BY <1>6 DEF EvalInv, Known, FilesKnown, ReadersKnown
  <1>11. QED
    BY <1>6, <1>8, <1>9, <1>10, ThreadFrame DEF EvalInv, Known

LEMMA WriteKeeps ==
  ASSUME EvalInv, NEW w \in Writers, WriteAndReplace(w)
  PROVE  EvalInv'
  <1> DEFINE run == writer[w].run
             mine == Whole(writer[w].record)
             WriterType == [step: {"idle", "submitted", "open"}, run: 0 .. MaxRuns, record: Record,
                            target: {"temporary", "published", "unlinked"}]
  <1>1. run \in Runs /\ run <= started
    BY DEF WriteAndReplace, EvalInv, Known, WritersKnown
  <1>2. writer \in [Writers -> WriterType] /\ published \in [Runs -> Content]
    BY DEF EvalInv, EvalTypeOK
  <1>3. mine \in Content /\ Empty \in Content /\ Mixed \in Content
    BY <1>2, Constant DEF Whole, Empty, Mixed, Content
  <1>4. PICK c \in Content : published' = [published EXCEPT ![run] = c] \/ published' = published
    BY <1>3 DEF WriteAndReplace
  <1>5. published' \in [Runs -> Content] /\ FilesKnown'
    <2>1. published' \in [Runs -> Content]
      BY <1>1, <1>2, <1>4
    <2>2. \A q \in Runs : published'[q] = published[q] \/ q = run
      BY <1>1, <1>2, <1>4
    <2>3. started' = started
      BY DEF WriteAndReplace
    <2>4. QED
      BY <1>1, <2>1, <2>2, <2>3 DEF EvalInv, Known, FilesKnown
  <1>6. ASSUME NEW v \in Writers
        PROVE  /\ writer'[v] \in WriterType
               /\ writer'[v].step # "idle" => writer'[v].run = writer[v].run
                                              /\ writer[v].step # "idle"
    <2>1. writer' = Renamed(run, w)
      BY DEF WriteAndReplace
    <2>2. IdleWriter \in WriterType /\ IdleWriter.step = "idle"
      BY Constant DEF IdleWriter
    <2>3. writer[v] \in WriterType
      BY <1>2
    <2>4. PICK target \in {"temporary", "published", "unlinked"} :
            writer'[v] \in {IdleWriter, writer[v], [writer[v] EXCEPT !.target = target]}
      <3>1. CASE v = w \/ writer[v].run # run \/ ~temporary[run]
        BY <2>1, <3>1 DEF Renamed
      <3>2. CASE ~(v = w \/ writer[v].run # run \/ ~temporary[run])
        <4>1. writer[v].target \in {"temporary", "published", "unlinked"}
          BY <2>3
        <4>2. CASE writer[v].target = "temporary"
          BY <2>1, <3>2, <4>2 DEF Renamed
        <4>3. CASE writer[v].target = "published"
          BY <2>1, <3>2, <4>3 DEF Renamed
        <4>4. CASE writer[v].target = "unlinked"
          BY <2>1, <3>2, <4>4 DEF Renamed
        <4>5. QED
          BY <4>1, <4>2, <4>3, <4>4
      <3>3. QED
        BY <3>1, <3>2
    <2>5. /\ [writer[v] EXCEPT !.target = target] \in WriterType
          /\ [writer[v] EXCEPT !.target = target].step = writer[v].step
          /\ [writer[v] EXCEPT !.target = target].run = writer[v].run
      BY <2>3
    <2>6. QED
      BY <2>2, <2>3, <2>4, <2>5
  <1>7. writer' \in [Writers -> WriterType]
    <2>1. \E f : writer' = [v \in Writers |-> f[v]]
      <3>1. writer' = [v \in Writers |-> writer'[v]]
        BY DEF WriteAndReplace, Renamed
      <3>2. QED
        BY <3>1
    <2>2. QED
      BY <1>6, <2>1
  <1>8. WritersKnown'
    <2>1. started' = started
      BY DEF WriteAndReplace
    <2>2. QED
      BY <1>6, <2>1 DEF EvalInv, Known, WritersKnown
  <1>9. /\ temporary' \in [Runs -> BOOLEAN]
        /\ awaited' \in [Runs -> {0} \union Writers] /\ raised' \in [Runs -> BOOLEAN]
    BY <1>1 DEF WriteAndReplace, EvalInv, EvalTypeOK
  <1>10. UNCHANGED <<process, started, memory, task, attempt, disturbed, stops, reader>>
    BY DEF WriteAndReplace
  <1>11. EvalTypeOK'
    BY <1>5, <1>7, <1>9, <1>10 DEF EvalInv, EvalTypeOK
  <1>12. ReadersKnown'
    BY <1>10 DEF EvalInv, Known, ReadersKnown
  <1>13. QED
    BY <1>5, <1>8, <1>10, <1>11, <1>12, ThreadFrame DEF EvalInv, Known

\* A file that is there is the file of a run that was started; a run that is not in
\* memory has no task.
LEMMA StartReadKeeps ==
  ASSUME EvalInv, NEW n \in 1 .. MaxReaders, NEW r \in Runs, StartRead(n, r)
  PROVE  EvalInv'
  <1> DEFINE new == [run |-> r, record |-> published[r].record]
  <1>1. /\ published[r].kind = "whole" /\ memory[r].status = "none"
        /\ reader' = [reader EXCEPT ![n] = new]
        /\ UNCHANGED <<process, started, memory, task, attempt, awaited, raised, disturbed, stops,
                       writer, temporary, published>>
    BY DEF StartRead, manager, files
  <1>2. r <= started /\ task[r] = "none"
    BY <1>1 DEF EvalInv, Known, FilesKnown, RunsKnown
  <1>3. published[r].record \in Record /\ r \in 0 .. MaxRuns
    BY DEF EvalInv, EvalTypeOK, Content, Runs
  <1>4. reader' \in [1 .. MaxReaders -> [run: 0 .. MaxRuns, record: Record]]
    BY <1>1, <1>3 DEF EvalInv, EvalTypeOK
  <1>5. EvalTypeOK'
    BY <1>1, <1>4 DEF EvalInv, EvalTypeOK
  <1>6. ReadersKnown'
    <2>1. reader'[n].run = r /\ \A m \in (1 .. MaxReaders) \ {n} : reader'[m] = reader[m]
      BY <1>1 DEF EvalInv, EvalTypeOK
    <2>2. QED
      BY <1>1, <1>2, <2>1 DEF EvalInv, Known, ReadersKnown
  <1>7. WritersKnown' /\ FilesKnown'
    BY <1>1 DEF EvalInv, Known, WritersKnown, FilesKnown
  <1>8. QED
    BY <1>1, <1>5, <1>6, <1>7, ThreadFrame DEF EvalInv, Known

LEMMA LoadedKeeps ==
  ASSUME EvalInv, NEW n \in 1 .. MaxReaders, Loaded(n)
  PROVE  EvalInv'
  <1> DEFINE r == reader[n].run
  <1>1. /\ r # 0 /\ memory' = [memory EXCEPT ![r] = reader[n].record]
        /\ reader' = [reader EXCEPT ![n] = IdleReader]
        /\ UNCHANGED <<process, started, task, attempt, awaited, raised, disturbed, stops,
                       writer, temporary, published>>
    BY DEF Loaded, files
  <1>2. r \in Runs /\ r <= started /\ task[r] = "none"
    BY <1>1 DEF EvalInv, Known, ReadersKnown
  <1>3. reader[n].record \in Record /\ IdleReader \in [run: 0 .. MaxRuns, record: Record]
    <2>1. reader \in [1 .. MaxReaders -> [run: 0 .. MaxRuns, record: Record]]
      BY DEF EvalInv, EvalTypeOK
    <2>2. reader[n].record \in Record
      BY <2>1
    <2>3. QED
      BY <2>2, Constant DEF IdleReader
  <1>4. EvalTypeOK'
    BY <1>1, <1>2, <1>3 DEF EvalInv, EvalTypeOK
  <1>5. ReadersKnown'
    <2>1. \A m \in 1 .. MaxReaders : reader'[m].run # 0 => reader'[m] = reader[m]
      BY <1>1 DEF EvalInv, EvalTypeOK, IdleReader
    <2>2. QED
      BY <1>1, <2>1 DEF EvalInv, Known, ReadersKnown
  <1>6. \A q \in Runs \ {r} : memory'[q] = memory[q]
    BY <1>1 DEF EvalInv, EvalTypeOK
  <1>7. WritersKnown' /\ FilesKnown' /\ RunsKnown'
    BY <1>1, <1>2, <1>6 DEF EvalInv, Known, WritersKnown, FilesKnown, RunsKnown
  <1>8. ASSUME NEW q \in Runs PROVE Progress(q)'
    <2>1. CASE q = r
      BY <1>1, <1>2, <2>1 DEF EvalInv, Progress, EndedTrue, RunnerPcs
    <2>2. CASE q # r
      BY <1>1, <1>6, <2>2, ProgressFrame DEF EvalInv
    <2>3. QED
      BY <2>1, <2>2
  <1>9. QED
    BY <1>4, <1>5, <1>7, <1>8 DEF EvalInv, Known

LEMMA CloseKeeps == ASSUME EvalInv, Close PROVE EvalInv'
  <1>1. /\ \A r \in Runs : task[r] # "saving"
        /\ task' = [r \in Runs |-> IF task[r] \in {"created", "starting", "ending"} THEN "done"
                                   ELSE task[r]]
        /\ awaited' = [r \in Runs |-> IF task[r] \in RunnerPcs THEN awaited[r] ELSE 0]
        /\ process' = "closing" /\ disturbed' \in SUBSET Runs
        /\ UNCHANGED <<started, memory, attempt, raised, stops, writer, reader, temporary, published>>
    BY DEF Close, files, EvalInv, EvalTypeOK
  <1>2. EvalTypeOK'
    BY <1>1 DEF EvalInv, EvalTypeOK, TaskPcs
  <1>3. WritersKnown' /\ FilesKnown' /\ RunsKnown' /\ ReadersKnown'
    BY <1>1 DEF EvalInv, Known, WritersKnown, FilesKnown, RunsKnown, ReadersKnown
  <1>4. ASSUME NEW r \in Runs PROVE Progress(r)'
    <2>1. CASE task[r] \in {"created", "starting", "ending"}
      <3>1. /\ task'[r] = "done" /\ memory'[r] = memory[r] /\ attempt'[r] = attempt[r]
            /\ Progress(r)
        BY <1>1, <2>1 DEF EvalInv
      <3>2. attempt[r] = Unattempted
        BY <2>1, <3>1 DEF Progress
      <3>3. EndedTrue(r)'
        BY <2>1, <3>1 DEF Progress, EndedTrue, Scored, Final
      <3>4. QED
        BY <3>1, <3>2, <3>3 DEF Progress, RunnerPcs
    <2>2. CASE task[r] \notin {"created", "starting", "ending"}
      BY <1>1, <2>2, ProgressFrame DEF EvalInv
    <2>3. QED
      BY <2>1, <2>2
  <1>5. QED
    BY <1>2, <1>3, <1>4 DEF EvalInv, Known

LEMMA StopKeeps == ASSUME EvalInv, Stop PROVE EvalInv'
  <1>1. /\ process' = "up" /\ stops' = stops + 1 /\ disturbed' = {}
        /\ memory' = [r \in Runs |-> NoRecord] /\ task' = [r \in Runs |-> "none"]
        /\ attempt' = [r \in Runs |-> Unattempted]
        /\ awaited' = [r \in Runs |-> 0] /\ raised' = [r \in Runs |-> FALSE]
        /\ writer' = [w \in Writers |-> IdleWriter]
        /\ reader' = [n \in 1 .. MaxReaders |-> IdleReader]
        /\ UNCHANGED <<started, temporary, published>>
    BY DEF Stop, files, Unattempted
  <1>2. EvalTypeOK'
    <2>1. IdleWriter \in [step: {"idle", "submitted", "open"}, run: 0 .. MaxRuns, record: Record,
                          target: {"temporary", "published", "unlinked"}]
      BY Constant DEF IdleWriter
    <2>2. IdleReader \in [run: 0 .. MaxRuns, record: Record]
      BY Constant DEF IdleReader
    <2>3. attempt' \in [Runs -> [Examples -> Attempt]]
      BY <1>1, Constant
    <2>4. QED
      BY <1>1, <2>1, <2>2, <2>3, Constant DEF EvalInv, EvalTypeOK, TaskPcs, Attempt
  <1>3. WritersKnown' /\ ReadersKnown'
    BY <1>1 DEF WritersKnown, ReadersKnown, IdleWriter, IdleReader
  <1>4. FilesKnown' /\ RunsKnown'
    BY <1>1 DEF EvalInv, Known, FilesKnown, RunsKnown, NoRecord
  <1>5. \A r \in Runs : Progress(r)'
    BY <1>1 DEF Progress, EndedTrue, RunnerPcs
  <1>6. QED
    BY <1>2, <1>3, <1>4, <1>5 DEF EvalInv, Known

LEMMA InitKeeps == ASSUME EvalInit PROVE EvalInv
  <1>1. EvalTypeOK
    <2>1. IdleWriter \in [step: {"idle", "submitted", "open"}, run: 0 .. MaxRuns, record: Record,
                          target: {"temporary", "published", "unlinked"}]
      BY Constant DEF IdleWriter
    <2>2. IdleReader \in [run: 0 .. MaxRuns, record: Record]
      BY Constant DEF IdleReader
    <2>3. attempt \in [Runs -> [Examples -> Attempt]] /\ attempt = [r \in Runs |-> Unattempted]
      BY Constant DEF EvalInit, Unattempted
    <2>4. Absent \in Content
      BY Constant DEF Absent, Content
    <2>5. QED
      BY <2>1, <2>2, <2>3, <2>4, Constant DEF EvalInit, EvalTypeOK, TaskPcs, Attempt
  <1>2. WritersKnown /\ ReadersKnown /\ FilesKnown /\ RunsKnown
    BY DEF EvalInit, WritersKnown, ReadersKnown, FilesKnown, RunsKnown, IdleWriter, IdleReader,
           Absent, NoRecord
  <1>3. \A r \in Runs : Progress(r)
    BY DEF EvalInit, Unattempted, Progress, EndedTrue, RunnerPcs
  <1>4. QED
    BY <1>1, <1>2, <1>3 DEF EvalInv, Known

-----------------------------------------------------------------------------
LEMMA EvalStep == ASSUME EvalInv, [EvalNext]_evalVars PROVE EvalInv'
  <1>1. ASSUME NEW r \in Runs, RunStep(r) PROVE EvalInv'
    <2>1. CASE TaskCreated(r) \/ RunStarted(r) \/ TaskEnds(r)
      BY <2>1, TaskMoves
    <2>2. CASE Execute(r)
      BY <2>2, ExecuteKeeps
    <2>3. CASE Sampled(r)
      BY <2>3, SampledKeeps
    <2>4. CASE RunnerRaises(r) \/ RunnerReturns(r)
      BY <2>4, RunnerEnds
    <2>5. CASE FirstPass(r)
      BY <2>5, FirstPassKeeps
    <2>6. CASE RetryPass(r)
      BY <2>6, RetryPassKeeps
    <2>7. CASE \E i \in Examples : \/ Attempted(r, i) \/ SaveAttempt(r, i)
                                   \/ AttemptSaved(r, i) \/ Retry(r, i)
      BY <2>7, AttemptedKeeps, SaveAttemptKeeps, AttemptSavedKeeps, RetryKeeps
    <2>8. QED
      BY <1>1, <2>1, <2>2, <2>3, <2>4, <2>5, <2>6, <2>7 DEF RunStep
  <1>2. ASSUME NEW r \in Runs, CancelRun(r) \/ Interrupt(r) PROVE EvalInv'
    BY <1>2, CancelKeeps, RunnerEnds
  <1>3. CASE StartFresh \/ \E p \in Runs : RetryFailed(p)
    BY <1>3, RequestKeeps
  <1>4. CASE \E w \in Writers : OpenTemporary(w) \/ WriteAndReplace(w)
    BY <1>4, OpenKeeps, WriteKeeps
  <1>5. CASE \E n \in 1 .. MaxReaders : Loaded(n) \/ \E r \in Runs : StartRead(n, r)
    BY <1>5, LoadedKeeps, StartReadKeeps
  <1>6. CASE Close \/ Stop
    BY <1>6, CloseKeeps, StopKeeps
  <1>7. CASE UNCHANGED evalVars
    <2>1. /\ UNCHANGED <<process, started, memory, task, attempt, awaited, raised, disturbed, stops>>
          /\ UNCHANGED <<writer, reader, temporary, published>>
      BY <1>7 DEF evalVars, manager, files
    <2>2. EvalTypeOK' /\ WritersKnown' /\ FilesKnown' /\ ReadersKnown'
      BY <2>1 DEF EvalInv, EvalTypeOK, Known, WritersKnown, FilesKnown, ReadersKnown
    <2>3. QED
      BY <2>1, <2>2, ThreadFrame DEF EvalInv, Known
  <1>8. QED
    BY <1>1, <1>2, <1>3, <1>4, <1>5, <1>6, <1>7 DEF EvalNext

\* The invariant behind the theorems of this module.
LEMMA Invariant == EvalSpec => []EvalInv
  <1>1. EvalInit => EvalInv
    BY InitKeeps
  <1>2. EvalInv /\ [EvalNext]_evalVars => EvalInv'
    BY EvalStep
  <1>3. QED
    BY <1>1, <1>2, PTL DEF EvalSpec

\* Every record, attempt, thread and file of the evaluation keeps its type; an attempt
\* is counted at most evaluation_example_max_retries + 1 times (_runner.run).
THEOREM EvalTypes == EvalSpec => []EvalTypeOK
  BY Invariant, PTL DEF EvalInv

\* No example is tried again before every example of the run has a recorded first
\* attempt, however the run was started, recovered or cancelled (_runner.run).
THEOREM FastPath == EvalSpec => []FirstPassFirst
  <1>1. ASSUME EvalInv, NEW r \in Runs, NEW i \in Examples, attempt[r][i].count > 1,
               NEW j \in Examples
        PROVE  memory[r].result[j] # "missing"
    <2>1. attempt[r] # Unattempted
      BY <1>1 DEF Unattempted, NoAttempt
    <2>2. task[r] \in {"first", "retry"} /\ AttemptTrue(r, i) /\ AttemptTrue(r, j)
      BY <1>1, <2>1 DEF EvalInv, Progress
    <2>3. attempt[r][i].count \in Nat
      <3>1. attempt[r][i] \in Attempt
        BY <1>1 DEF EvalInv, EvalTypeOK, Attempt
      <3>2. QED
        BY <3>1, Constant DEF Attempt
    <2>4. task[r] = "retry"
      BY <1>1, <2>2, <2>3 DEF AttemptTrue
    <2>5. QED
      BY <2>2, <2>4 DEF AttemptTrue
  <1>2. EvalInv => FirstPassFirst
    BY <1>1 DEF FirstPassFirst
  <1>3. QED
    BY <1>2, Invariant, PTL

\* The status and the count of a run that ended agree with the details of its
\* examples (_execute, save_attempt).
THEOREM Outcomes == EvalSpec => []OutcomeTrue
  <1>1. EvalInv => OutcomeTrue
    BY DEF EvalInv, Progress, EndedTrue, OutcomeTrue
  <1>2. QED
    BY <1>1, Invariant, PTL

\* A step that has another status written changes the details of no run.
LEMMA StatusOnly ==
  ASSUME EvalInv, NEW r \in Runs, NEW status, NEW w \in Writers,
         Submit(r, [memory[r] EXCEPT !.status = status], w), NEW q \in Runs
  PROVE  memory'[q].result = memory[q].result
  <1>1. memory \in [Runs -> Record]
    BY DEF EvalInv, EvalTypeOK
  <1>2. memory' = [memory EXCEPT ![r] = [memory[r] EXCEPT !.status = status]]
    BY DEF Submit
  <1>3. memory[r] \in Record /\ [memory[r] EXCEPT !.status = status].result = memory[r].result
    BY <1>1 DEF Record
  <1>4. QED
    BY <1>1, <1>2, <1>3

\* While a run has a task, no step takes the scores of an example away.
LEMMA ScoresStep ==
  ASSUME EvalInv, [EvalNext]_evalVars,
         NEW q \in Runs, task[q] # "none", task'[q] # "none",
         NEW i \in Examples, memory[q].result[i] = "scored"
  PROVE  memory'[q].result[i] = "scored"
  <1> USE DEF Persist
  <1>1. memory \in [Runs -> Record] /\ memory[q] \in Record /\ q <= started /\ started \in Nat
    BY DEF EvalInv, EvalTypeOK, Known, RunsKnown
  <1>2. ASSUME NEW r \in Runs, NEW p, NEW result, Start(r, p, result)
        PROVE  memory'[q] = memory[q]
    <2> DEFINE rec == [NoRecord EXCEPT !.status = "queued", !.retryOf = p, !.saved = (p # 0),
                                       !.result = result]
    <2>1. q # r
      BY <1>1, <1>2 DEF Start
    <2>2. memory' = [memory EXCEPT ![r] = rec]
      BY <1>2 DEF Start, Submit
    <2> HIDE DEF rec
    <2>3. QED
      BY <1>1, <2>1, <2>2
  <1>3. CASE StartFresh \/ \E p \in Runs : RetryFailed(p)
    <2>1. started + 1 \in Runs
      <3>1. started < MaxRuns
        BY <1>3 DEF StartFresh, RetryFailed, Start
      <3>2. QED
        BY <1>1, <3>1, Constant DEF Runs
    <2>2. QED
      BY <1>2, <1>3, <2>1 DEF StartFresh, RetryFailed
  <1>4. ASSUME NEW r \in Runs, NEW j \in Examples, SaveAttempt(r, j)
        PROVE  memory'[q].result[i] = "scored"
    <2> DEFINE d == attempt[r][j].detail
               rec == [memory[r] EXCEPT !.result[j] = d,
                         !.completed = IF Completes(d) THEN @ + 1 ELSE @]
    <2>1. attempt[r][j].pc = "waiting" /\ memory' = [memory EXCEPT ![r] = rec]
      BY <1>4 DEF SaveAttempt, Submit
    <2>2. memory[r].result[j] # "scored"
      BY <2>1, InGroup DEF AttemptTrue
    <2>3. q = r => i # j
      BY <2>2
    <2>4. memory[r] \in Record /\ memory[r].result \in [Examples -> Details]
      BY <1>1 DEF Record
    <2>5. i # j => rec.result[i] = memory[r].result[i]
      BY <2>4 DEF Record
    <2> HIDE DEF rec
    <2>6. QED
      BY <1>1, <2>1, <2>3, <2>5
  <1>5. ASSUME NEW r \in Runs, Sampled(r) PROVE memory'[q].result[i] = "scored"
    <2> DEFINE kept == Recovered(memory[r])
               rec == [memory[r] EXCEPT !.saved = TRUE, !.result = kept,
                         !.completed = Cardinality({j \in Examples : kept[j] = "scored"})]
    <2>1. memory' = [memory EXCEPT ![r] = rec]
      BY <1>5 DEF Sampled, Submit
    <2>2. rec.result = kept
      BY <1>1 DEF Record
    <2>3. q = r => rec.result[i] = "scored"
      BY <2>2 DEF Recovered
    <2> HIDE DEF rec, kept
    <2>4. QED
      BY <1>1, <2>1, <2>3
  <1>6. ASSUME NEW r \in Runs, \/ Execute(r) \/ RunnerRaises(r) \/ RunnerReturns(r)
                               \/ Interrupt(r) \/ CancelRun(r)
        PROVE  memory'[q].result[i] = "scored"
    <2>1. \E w \in Writers, status \in Settled \union {"running"} :
            Submit(r, [memory[r] EXCEPT !.status = status], w)
      BY <1>6 DEF Execute, RunnerRaises, RunnerReturns, Interrupt, CancelRun, Settle, Settled, Outcome
    <2>2. QED
      BY <2>1, StatusOnly
  <1>7. ASSUME NEW n \in 1 .. MaxReaders, Loaded(n) PROVE memory'[q] = memory[q]
    <2>1. memory' = [memory EXCEPT ![reader[n].run] = reader[n].record] /\ reader[n].run # 0
      BY <1>7 DEF Loaded
    <2>2. reader[n].run # q
      BY <2>1 DEF EvalInv, Known, ReadersKnown
    <2>3. QED
      BY <1>1, <2>1, <2>2
  <1>8. ASSUME NEW r \in Runs, \/ TaskCreated(r) \/ RunStarted(r) \/ FirstPass(r) \/ RetryPass(r)
                               \/ TaskEnds(r)
                               \/ \E j \in Examples : Attempted(r, j) \/ AttemptSaved(r, j) \/ Retry(r, j)
        PROVE  memory' = memory
    BY <1>8 DEF TaskCreated, RunStarted, FirstPass, RetryPass, TaskEnds, Attempted, AttemptSaved, Retry
  <1>9. ASSUME \/ \E w \in Writers : OpenTemporary(w) \/ WriteAndReplace(w)
               \/ \E n \in 1 .. MaxReaders, r \in Runs : StartRead(n, r)
               \/ Close \/ UNCHANGED evalVars
        PROVE  memory' = memory
    BY <1>9 DEF OpenTemporary, WriteAndReplace, StartRead, Close, evalVars, manager
  <1>10. ~Stop
    BY DEF Stop
  <1>11. QED
    BY <1>1, <1>3, <1>4, <1>5, <1>6, <1>7, <1>8, <1>9, <1>10 DEF EvalNext, RunStep

\* Scores are never lost while a run is worked on, by a retry, a recovery, a failure
\* or a cancellation (save_attempt, the resumed result, _execute).
THEOREM Kept == EvalSpec => ScoresKept
  <1>1. EvalInv /\ [EvalNext]_evalVars =>
          [\A r \in Runs : task[r] # "none" /\ task'[r] # "none" =>
             Scored(memory[r]) \subseteq Scored(memory'[r])]_evalVars
    BY ScoresStep DEF Scored
  <1>2. QED
    BY <1>1, Invariant, PTL DEF EvalSpec, ScoresKept
-----------------------------------------------------------------------------
(* What is on disk.  As long as nobody cancels a run, its task is the only *)
(* one to have its record written, and waits for each write.               *)

NoWriter(r) == \A w \in Writers : writer[w].step # "idle" => writer[w].run # r

\* The thread that run r waits for: the only one with its file, which has the record
\* as it is in memory, or will read it.
OneWriter(r) ==
  /\ \A w \in Writers : writer[w].step # "idle" /\ writer[w].run = r => w = awaited[r]
  /\ awaited[r] # 0 =>
       /\ writer[awaited[r]].step # "idle" /\ writer[awaited[r]].run = r
       /\ writer[awaited[r]].target = "temporary"
       /\ writer[awaited[r]].step = "open" => temporary[r] /\ writer[awaited[r]].record = memory[r]

SavedTrue(r) ==
  r \notin disturbed /\ task[r] # "none" =>
    /\ ~raised[r]
    /\ OneWriter(r)
    /\ awaited[r] = 0 => published[r] = Whole(memory[r])
    /\ task[r] \in {"created", "sampling", "done"} => awaited[r] = 0
    /\ task[r] \in {"first", "retry"} /\ awaited[r] # 0 =>
         \E i \in Examples : attempt[r][i].pc = "saving"

\* close() disturbs every run that it finds in the runner.
ClosingDisturbs == process = "closing" => \A r \in Runs : task[r] \in RunnerPcs => r \in disturbed

SavedInv == ClosingDisturbs /\ \A r \in Runs : SavedTrue(r)

LEMMA SavedFrame ==
  ASSUME EvalTypeOK, NEW r \in Runs, SavedTrue(r), r \in disturbed => r \in disturbed',
         task'[r] = task[r], attempt'[r] = attempt[r], memory'[r] = memory[r],
         awaited'[r] = awaited[r], raised'[r] = raised[r],
         published'[r] = published[r], temporary'[r] = temporary[r],
         \A w \in Writers : \/ writer'[w] = writer[w]
                            \/ /\ writer[w].step = "idle" \/ writer[w].run # r
                               /\ writer'[w].step = "idle" \/ writer'[w].run # r
  PROVE  SavedTrue(r)'
  <1>1. awaited[r] # 0 => awaited[r] \in Writers
    BY DEF EvalTypeOK
  <1>2. r \notin disturbed' /\ task'[r] # "none" => OneWriter(r)'
    BY <1>1 DEF SavedTrue, OneWriter
  <1>3. QED
    BY <1>2 DEF SavedTrue

LEMMA NothingWritten ==
  ASSUME EvalInv, NEW r \in Runs, SavedTrue(r), r \notin disturbed,
         task[r] = "none" => started < r, task[r] # "none" => awaited[r] = 0
  PROVE  NoWriter(r)
  <1>1. CASE task[r] = "none"
    <2>1. \A w \in Writers : writer[w].step # "idle" => writer[w].run <= started
      BY DEF EvalInv, Known, WritersKnown
    <2>2. started \in Nat /\ r \in Nat
      BY DEF EvalInv, EvalTypeOK, Runs
    <2>3. QED
      BY <1>1, <2>1, <2>2 DEF NoWriter
  <1>2. CASE task[r] # "none"
    <2>1. 0 \notin Writers
      BY DEF Writers
    <2>2. QED
      BY <1>2, <2>1 DEF SavedTrue, OneWriter, NoWriter
  <1>3. QED
    BY <1>1, <1>2

\* A step of the task of run r between two writes.
LEMMA SavedQuiet ==
  ASSUME EvalInv, SavedInv, NEW r \in Runs, NEW t \in TaskPcs, NEW a,
         task' = [task EXCEPT ![r] = t], attempt' = [attempt EXCEPT ![r] = a],
         UNCHANGED <<process, memory, awaited, raised, disturbed, writer, files>>,
         t = task[r] \/ process = "up" \/ t \notin RunnerPcs,
         SavedTrue(r)'
  PROVE  SavedInv'
  <1>1. /\ task'[r] = t
        /\ \A q \in Runs \ {r} : task'[q] = task[q] /\ attempt'[q] = attempt[q]
    BY DEF EvalInv, EvalTypeOK
  <1>2. ASSUME NEW q \in Runs \ {r} PROVE SavedTrue(q)'
    BY <1>1, SavedFrame DEF EvalInv, SavedInv, files
  <1>3. ClosingDisturbs'
    BY <1>1 DEF SavedInv, ClosingDisturbs
  <1>4. QED
    BY <1>2, <1>3 DEF SavedInv

\* A step that has the record of run r written.
LEMMA SavedSubmit ==
  ASSUME EvalInv, SavedInv, NEW r \in Runs, NEW rec, NEW w \in Writers,
         Submit(r, rec, w), NEW t \in TaskPcs, NEW a,
         task' = [task EXCEPT ![r] = t], attempt' = [attempt EXCEPT ![r] = a],
         awaited' \in [Runs -> {0} \union Writers],
         \A q \in Runs \ {r} : awaited'[q] = awaited[q] /\ raised'[q] = raised[q],
         UNCHANGED <<process, files>>, disturbed \subseteq disturbed',
         process = "closing" /\ t \in RunnerPcs => r \in disturbed',
         r \notin disturbed' =>
           /\ NoWriter(r) /\ awaited'[r] = w /\ ~raised'[r]
           /\ t \notin {"created", "sampling", "done"}
           /\ t \in {"first", "retry"} => \E i \in Examples : attempt'[r][i].pc = "saving"
  PROVE  SavedInv'
  <1>1. /\ task'[r] = t /\ memory'[r] = rec
        /\ \A q \in Runs \ {r} : /\ task'[q] = task[q] /\ attempt'[q] = attempt[q]
                                 /\ memory'[q] = memory[q]
    BY DEF EvalInv, EvalTypeOK, Submit
  <1>2. /\ writer'[w].step = "submitted" /\ writer'[w].run = r
        /\ writer'[w].target = "temporary" /\ writer[w].step = "idle"
        /\ \A v \in Writers \ {w} : writer'[v] = writer[v]
    BY DEF EvalInv, EvalTypeOK, Submit, IdleWriter
  <1>3. ASSUME NEW q \in Runs \ {r} PROVE SavedTrue(q)'
    <2>1. \A v \in Writers : \/ writer'[v] = writer[v]
                             \/ writer[v].step = "idle" /\ writer'[v].run # q
      BY <1>2
    <2>2. QED
      BY <1>1, <2>1, SavedFrame DEF EvalInv, SavedInv, files
  <1>4. SavedTrue(r)'
    <2>1. ASSUME r \notin disturbed' PROVE OneWriter(r)'
      BY <1>2, <2>1 DEF OneWriter, NoWriter
    <2>2. 0 \notin Writers
      BY DEF Writers
    <2>3. QED
      BY <1>1, <2>1, <2>2 DEF SavedTrue
  <1>5. ClosingDisturbs'
    BY <1>1 DEF SavedInv, ClosingDisturbs
  <1>6. QED
    BY <1>3, <1>4, <1>5 DEF SavedInv

\* The await of _persist, with nobody else at the file of the run.
LEMMA SavedPersist ==
  ASSUME EvalInv, SavedInv, NEW r \in Runs, NEW rec, Persist(r, rec),
         NEW t \in TaskPcs, NEW a,
         task' = [task EXCEPT ![r] = t], attempt' = [attempt EXCEPT ![r] = a],
         UNCHANGED <<process, files>>, disturbed \subseteq disturbed',
         process = "closing" /\ t \in RunnerPcs => r \in disturbed',
         task[r] = "none" => started < r,
         r \notin disturbed' =>
           /\ task[r] # "none" => awaited[r] = 0
           /\ t \notin {"created", "sampling", "done"}
           /\ t \in {"first", "retry"} => \E i \in Examples : attempt'[r][i].pc = "saving"
  PROVE  SavedInv'
  <1>1. PICK w \in Writers : /\ Submit(r, rec, w)
                             /\ awaited' = [awaited EXCEPT ![r] = w]
                             /\ raised' = [raised EXCEPT ![r] = FALSE]
    BY DEF Persist
  <1>2. /\ awaited' \in [Runs -> {0} \union Writers] /\ awaited'[r] = w /\ ~raised'[r]
        /\ \A q \in Runs \ {r} : awaited'[q] = awaited[q] /\ raised'[q] = raised[q]
    BY <1>1 DEF EvalInv, EvalTypeOK
  <1>3. r \notin disturbed' => NoWriter(r)
    BY NothingWritten DEF SavedInv
  <1>4. QED
    BY <1>1, <1>2, <1>3, SavedSubmit
\* Between two writes, the task only goes on when the write it waited for is done.
LEMMA SavedTaskMoves ==
  ASSUME EvalInv, SavedInv, NEW r \in Runs,
         \/ TaskCreated(r) \/ RunStarted(r) \/ TaskEnds(r)
         \/ FirstPass(r) \/ RetryPass(r),
         process = "up" \/ task[r] = "ending"
  PROVE  SavedInv'
  <1>1. UNCHANGED <<process, memory, awaited, raised, disturbed, writer, files>>
    BY DEF TaskCreated, RunStarted, TaskEnds, FirstPass, RetryPass
  <1>2. PICK t \in TaskPcs : task' = [task EXCEPT ![r] = t] /\ (task[r] = "ending" => t = "done")
    BY DEF TaskCreated, RunStarted, TaskEnds, FirstPass, RetryPass, TaskPcs, RunnerPcs
  <1>3. \E a : attempt' = [attempt EXCEPT ![r] = a]
    <2>1. CASE TaskCreated(r) \/ RunStarted(r) \/ TaskEnds(r)
      <3>1. attempt' = [attempt EXCEPT ![r] = attempt[r]]
        BY <2>1 DEF TaskCreated, RunStarted, TaskEnds, EvalInv, EvalTypeOK
      <3>2. QED
        BY <3>1
    <2>2. CASE FirstPass(r) \/ RetryPass(r)
      BY <2>2 DEF FirstPass, RetryPass
    <2>3. QED
      BY <2>1, <2>2
  <1>4. task[r] # "none" /\ (r \notin disturbed => awaited[r] = 0)
    <2>1. CASE TaskCreated(r) \/ RunStarted(r) \/ TaskEnds(r) \/ FirstPass(r)
      BY <2>1 DEF TaskCreated, RunStarted, TaskEnds, FirstPass, Written
    <2>2. CASE RetryPass(r)
      BY <2>2 DEF RetryPass, GroupEnds, SavedInv, SavedTrue
    <2>3. QED
      BY <2>1, <2>2
  <1>5. SavedTrue(r)'
    BY <1>1, <1>4 DEF SavedInv, SavedTrue, OneWriter, files
  <1>6. t = task[r] \/ process = "up" \/ t \notin RunnerPcs
    BY <1>2 DEF RunnerPcs
  <1>7. QED
    BY <1>1, <1>2, <1>3, <1>5, <1>6, SavedQuiet

LEMMA SavedAttemptMoves ==
  ASSUME EvalInv, SavedInv, NEW r \in Runs, NEW i \in Examples,
         Attempted(r, i) \/ AttemptSaved(r, i) \/ Retry(r, i)
  PROVE  SavedInv'
  <1>1. UNCHANGED <<process, memory, task, awaited, raised, disturbed, writer, files>>
    BY DEF Attempted, AttemptSaved, Retry
  <1>2. task' = [task EXCEPT ![r] = task[r]] /\ task[r] \in TaskPcs
    BY <1>1 DEF EvalInv, EvalTypeOK
  <1>3. \E a : /\ attempt' = [attempt EXCEPT ![r] = a]
               /\ AttemptSaved(r, i) \/ \A j \in Examples :
                    attempt[r][j].pc = "saving" => a[j] = attempt[r][j]
    <2> DEFINE old == attempt[r][i]
    <2>1. attempt[r] \in [Examples -> Attempt] /\ attempt \in [Runs -> [Examples -> Attempt]]
      BY DEF EvalInv, EvalTypeOK, Attempt
    <2>2. ASSUME NEW new, attempt' = [attempt EXCEPT ![r] = [attempt[r] EXCEPT ![i] = new]],
                 AttemptSaved(r, i) \/ old.pc # "saving"
          PROVE  \E a : /\ attempt' = [attempt EXCEPT ![r] = a]
                        /\ AttemptSaved(r, i) \/ \A j \in Examples :
                             attempt[r][j].pc = "saving" => a[j] = attempt[r][j]
      <3> DEFINE b == [attempt[r] EXCEPT ![i] = new]
      <3>1. AttemptSaved(r, i) \/ \A j \in Examples :
              attempt[r][j].pc = "saving" => b[j] = attempt[r][j]
        BY <2>1, <2>2
      <3>2. attempt' = [attempt EXCEPT ![r] = b]
        BY <2>2
      <3> HIDE DEF b
      <3>3. QED
        BY <3>1, <3>2
    <2>3. CASE Attempted(r, i)
      <3>1. PICK d : attempt' = [attempt EXCEPT ![r][i].pc = "waiting", ![r][i].detail = d]
        BY <2>3 DEF Attempted
      <3>2. attempt' = [attempt EXCEPT ![r] =
              [attempt[r] EXCEPT ![i] = [old EXCEPT !.pc = "waiting", !.detail = d]]]
        BY <2>1, <3>1
      <3>3. old.pc # "saving"
        BY <2>3 DEF Attempted
      <3>4. QED
        BY <2>2, <3>2, <3>3
    <2>4. CASE AttemptSaved(r, i)
      <3>1. attempt' = [attempt EXCEPT ![r] = [attempt[r] EXCEPT ![i] =
              [old EXCEPT !.pc = IF BacksOff(r, i) THEN "backoff" ELSE "idle"]]]
        BY <2>1, <2>4 DEF AttemptSaved
      <3>2. QED
        BY <2>2, <2>4, <3>1
    <2>5. CASE Retry(r, i)
      <3>1. attempt' = [attempt EXCEPT ![r] = [attempt[r] EXCEPT ![i] =
              [old EXCEPT !.pc = "trying", !.count = old.count + 1]]]
        BY <2>1, <2>5 DEF Retry
      <3>2. old.pc # "saving"
        BY <2>5 DEF Retry
      <3>3. QED
        BY <2>2, <3>1, <3>2
    <2>6. QED
      BY <2>3, <2>4, <2>5
  <1>4. PICK a : /\ attempt' = [attempt EXCEPT ![r] = a]
                 /\ AttemptSaved(r, i) \/ \A j \in Examples :
                      attempt[r][j].pc = "saving" => a[j] = attempt[r][j]
    BY <1>3
  <1>5. attempt'[r] = a
    BY <1>4 DEF EvalInv, EvalTypeOK
  <1>6. AttemptSaved(r, i) => awaited[r] = 0
    BY DEF AttemptSaved, Written
  <1>7. SavedTrue(r)'
    <2>1. SavedTrue(r)
      BY DEF SavedInv
    <2>2. r \notin disturbed /\ task[r] # "none" => OneWriter(r)'
      BY <1>1, <2>1 DEF SavedTrue, OneWriter, files
    <2>3. QED
      BY <1>1, <1>4, <1>5, <1>6, <2>1, <2>2 DEF SavedTrue, files
  <1>8. QED
    BY <1>1, <1>2, <1>4, <1>7, SavedQuiet

\* The writes of a task, and of start().
LEMMA SavedTaskWrites ==
  ASSUME EvalInv, SavedInv, NEW r \in Runs, process = "up",
         \/ Execute(r) \/ Sampled(r) \/ RunnerRaises(r) \/ RunnerReturns(r)
         \/ \E i \in Examples : SaveAttempt(r, i)
  PROVE  SavedInv'
  <1>1. UNCHANGED <<process, disturbed, files>> /\ disturbed \subseteq disturbed'
    BY DEF Execute, Sampled, RunnerRaises, RunnerReturns, Settle, SaveAttempt
  <1>2. SavedTrue(r)
    BY DEF SavedInv
  <1>3. attempt \in [Runs -> [Examples -> Attempt]]
    BY DEF EvalInv, EvalTypeOK, Attempt
  <1>4. CASE Execute(r) \/ Sampled(r)
    <2>1. attempt' = [attempt EXCEPT ![r] = attempt[r]]
      BY <1>3, <1>4 DEF Execute, Sampled
    <2>2. task[r] # "none" /\ (r \notin disturbed => awaited[r] = 0)
      BY <1>2, <1>4 DEF Execute, Sampled, SavedTrue
    <2>3. PICK t \in {"starting", "reporting"} : task' = [task EXCEPT ![r] = t]
      BY <1>4 DEF Execute, Sampled
    <2>4. \E rec : Persist(r, rec)
      BY <1>4 DEF Execute, Sampled
    <2>5. QED
      BY <1>1, <2>1, <2>2, <2>3, <2>4, SavedPersist DEF TaskPcs, RunnerPcs
  <1>5. CASE RunnerRaises(r) \/ RunnerReturns(r)
    <2>1. /\ attempt' = [attempt EXCEPT ![r] = [i \in Examples |-> NoAttempt]]
          /\ task' = [task EXCEPT ![r] = "ending"] /\ \E rec : Persist(r, rec)
      BY <1>5 DEF RunnerRaises, RunnerReturns, Settle
    <2>2. task[r] # "none" /\ (r \notin disturbed => awaited[r] = 0)
      BY <1>2, <1>5 DEF RunnerRaises, RunnerReturns, GroupEnds, RunnerPcs, SavedTrue
    <2>3. QED
      BY <1>1, <2>1, <2>2, SavedPersist DEF TaskPcs, RunnerPcs
  <1>6. ASSUME NEW i \in Examples, SaveAttempt(r, i) PROVE SavedInv'
    <2> DEFINE new == [attempt[r] EXCEPT ![i] = [attempt[r][i] EXCEPT !.pc = "saving"]]
    <2>1. attempt' = [attempt EXCEPT ![r] = new] /\ attempt'[r] = new
      BY <1>3, <1>6 DEF SaveAttempt
    <2>2. new[i].pc = "saving"
      BY <1>3 DEF Attempt
    <2>3. task[r] \in {"first", "retry"} /\ task' = [task EXCEPT ![r] = task[r]]
      BY <1>6, InGroup DEF SaveAttempt, EvalInv, EvalTypeOK
    <2>4. r \notin disturbed => awaited[r] = 0
      BY <1>2, <1>6, <2>3 DEF SaveAttempt, SavedTrue
    <2>5. \E rec : Persist(r, rec)
      BY <1>6 DEF SaveAttempt
    <2> HIDE DEF new
    <2>6. QED
      BY <1>1, <2>1, <2>2, <2>3, <2>4, <2>5, SavedPersist DEF TaskPcs, RunnerPcs
  <1>7. QED
    BY <1>4, <1>5, <1>6
LEMMA SavedRequest ==
  ASSUME EvalInv, SavedInv, StartFresh \/ \E p \in Runs : RetryFailed(p)
  PROVE  SavedInv'
  <1>1. PICK r, p, result : Start(r, p, result)
    BY DEF StartFresh, RetryFailed
  <1> DEFINE rec == [NoRecord EXCEPT !.status = "queued", !.retryOf = p, !.saved = (p # 0),
                                     !.result = result]
  <1>2. /\ r = started + 1 /\ started < MaxRuns /\ task' = [task EXCEPT ![r] = "saving"]
        /\ Persist(r, rec)
        /\ attempt' = attempt /\ UNCHANGED <<process, disturbed, files>>
    BY <1>1 DEF Start
  <1> HIDE DEF rec
  <1>3. r \in Runs /\ started < r
    BY <1>2, Constant DEF EvalInv, EvalTypeOK, Runs
  <1>4. task[r] = "none"
    BY <1>2, <1>3 DEF EvalInv, EvalTypeOK, Known, RunsKnown
  <1>5. attempt' = [attempt EXCEPT ![r] = attempt[r]]
    BY <1>2, <1>3 DEF EvalInv, EvalTypeOK
  <1>6. QED
    BY <1>2, <1>3, <1>4, <1>5, SavedPersist DEF TaskPcs, RunnerPcs

\* A cancelled run is disturbed, and so is one that close() interrupts.
LEMMA SavedCancel ==
  ASSUME EvalInv, SavedInv, NEW r \in Runs, CancelRun(r) \/ Interrupt(r)
  PROVE  SavedInv'
  <1>1. CASE Interrupt(r)
    <2>1. /\ attempt' = [attempt EXCEPT ![r] = [i \in Examples |-> NoAttempt]]
          /\ task' = [task EXCEPT ![r] = "ending"] /\ \E rec : Persist(r, rec)
          /\ UNCHANGED <<process, disturbed, files>>
      BY <1>1 DEF Interrupt, Settle
    <2>2. r \in disturbed /\ task[r] # "none"
      BY <1>1 DEF Interrupt, SavedInv, ClosingDisturbs, RunnerPcs
    <2>3. QED
      BY <2>1, <2>2, SavedPersist DEF TaskPcs, RunnerPcs
  <1>2. CASE CancelRun(r)
    <2> DEFINE rec == [memory[r] EXCEPT !.status = "cancelled"]
    <2>1. /\ disturbed' = disturbed \union {r} /\ process = "up" /\ UNCHANGED <<process, files>>
          /\ memory[r].status \in Active
      BY <1>2 DEF CancelRun
    <2>2. attempt' = attempt => attempt' = [attempt EXCEPT ![r] = attempt[r]]
      BY DEF EvalInv, EvalTypeOK
    <2>3. task' = task => task' = [task EXCEPT ![r] = task[r]]
      BY DEF EvalInv, EvalTypeOK
    <2>4. task[r] \in TaskPcs
      BY DEF EvalInv, EvalTypeOK
    <2>5. CASE /\ task[r] \in RunnerPcs
               /\ task' = [task EXCEPT ![r] = "ending"]
               /\ attempt' = [attempt EXCEPT ![r] = [i \in Examples |-> NoAttempt]]
               /\ Persist(r, rec)
      <3> HIDE DEF rec
      <3>1. QED
        BY <2>1, <2>5, SavedPersist DEF TaskPcs, RunnerPcs
    <2>6. ASSUME NEW t \in TaskPcs, NEW w \in Writers, Submit(r, rec, w),
                 task' = [task EXCEPT ![r] = t], attempt' = attempt, raised' = raised,
                 awaited' = [awaited EXCEPT ![r] = 0] \/ awaited' = awaited
          PROVE  SavedInv'
      <3> HIDE DEF rec
      <3>1. /\ awaited' \in [Runs -> {0} \union Writers]
            /\ \A q \in Runs \ {r} : awaited'[q] = awaited[q] /\ raised'[q] = raised[q]
        BY <2>6 DEF EvalInv, EvalTypeOK
      <3>2. r \in disturbed' /\ disturbed \subseteq disturbed' /\ process = "up"
        BY <2>1
      <3>3. attempt' = [attempt EXCEPT ![r] = attempt[r]] /\ UNCHANGED <<process, files>>
        BY <2>1, <2>2, <2>6
      <3>4. QED
        BY <2>6, <3>1, <3>2, <3>3, SavedSubmit, ZenonT(60)
    <2>7. CASE /\ task' = [task EXCEPT ![r] = "done"]
               /\ awaited' = [awaited EXCEPT ![r] = 0]
               /\ \E w \in Writers : Submit(r, rec, w)
               /\ UNCHANGED <<attempt, raised>>
      BY <2>6, <2>7 DEF TaskPcs
    <2>8. CASE /\ \E w \in Writers : Submit(r, rec, w)
               /\ UNCHANGED <<task, attempt, awaited, raised>>
      BY <2>3, <2>4, <2>6, <2>8
    <2>9. QED
      BY <1>2, <2>5, <2>7, <2>8 DEF CancelRun
  <1>3. QED
    BY <1>1, <1>2

LEMMA SavedOpen ==
  ASSUME EvalInv, SavedInv, NEW w \in Writers, OpenTemporary(w)
  PROVE  SavedInv'
  <1>0. PICK r \in Runs : r = writer[w].run
    BY DEF OpenTemporary, EvalInv, Known, WritersKnown
  <1> DEFINE live == IF task[r] = "none" THEN writer[w].record ELSE memory[r]
             new == [writer[w] EXCEPT !.step = "open", !.record = live, !.target = "temporary"]
  <1>1. writer[w].step = "submitted"
    BY DEF OpenTemporary
  <1>2. new.step = "open" /\ new.run = r /\ new.record = live /\ new.target = "temporary"
    BY <1>0 DEF EvalInv, EvalTypeOK
  <1>3. /\ writer' = [writer EXCEPT ![w] = new] /\ temporary' = [temporary EXCEPT ![r] = TRUE]
        /\ UNCHANGED <<process, memory, task, attempt, awaited, raised, disturbed, published>>
    BY <1>0 DEF OpenTemporary, manager, EvalInv, EvalTypeOK
  <1> HIDE DEF new
  <1>4. writer'[w] = new /\ \A v \in Writers \ {w} : writer'[v] = writer[v]
    BY <1>3 DEF EvalInv, EvalTypeOK
  <1>5. temporary'[r] /\ \A q \in Runs \ {r} : temporary'[q] = temporary[q]
    BY <1>3 DEF EvalInv, EvalTypeOK
  <1>6. ASSUME NEW q \in Runs \ {r} PROVE SavedTrue(q)'
    BY <1>0, <1>2, <1>3, <1>4, <1>5, SavedFrame, ZenonT(60) DEF EvalInv, SavedInv
  <1>7. SavedTrue(r)'
    <2>1. SUFFICES ASSUME r \notin disturbed, task[r] # "none" PROVE SavedTrue(r)'
      BY <1>3 DEF SavedTrue
    <2>2. SavedTrue(r) /\ OneWriter(r) /\ w = awaited[r] /\ w # 0
      BY <1>0, <1>1, <2>1 DEF SavedInv, SavedTrue, OneWriter, Writers
    <2>3. OneWriter(r)'
      BY <1>1, <1>2, <1>3, <1>4, <1>5, <2>1, <2>2 DEF OneWriter
    <2>4. QED
      BY <1>3, <2>2, <2>3 DEF SavedTrue
  <1>8. ClosingDisturbs'
    BY <1>3 DEF SavedInv, ClosingDisturbs
  <1>9. QED
    BY <1>6, <1>7, <1>8 DEF SavedInv

\* The one writer of a run finds its own temporary file, and what it publishes is the
\* record in memory.
LEMMA SavedWrite ==
  ASSUME EvalInv, SavedInv, NEW w \in Writers, WriteAndReplace(w)
  PROVE  SavedInv'
  <1>0. PICK r \in Runs : r = writer[w].run
    BY DEF WriteAndReplace, EvalInv, Known, WritersKnown
  <1>1. writer[w].step = "open"
    BY DEF WriteAndReplace
  <1>2. /\ writer' = Renamed(r, w) /\ temporary' = [temporary EXCEPT ![r] = FALSE]
        /\ UNCHANGED <<process, memory, task, attempt, disturbed>>
    BY <1>0 DEF WriteAndReplace
  <1>3. \A q \in Runs \ {r} : temporary'[q] = temporary[q] /\ published'[q] = published[q]
    BY <1>0, <1>2, ZenonT(60) DEF WriteAndReplace, EvalInv, EvalTypeOK
  <1>4. \A q \in Runs \ {r} : awaited'[q] = awaited[q] /\ raised'[q] = raised[q]
    BY <1>0 DEF WriteAndReplace, EvalInv, EvalTypeOK
  <1>5. writer'[w] = IdleWriter /\ IdleWriter.step = "idle"
    BY <1>2 DEF Renamed, IdleWriter
  <1>6. ASSUME NEW v \in Writers \ {w}
        PROVE  \/ writer'[v] = writer[v]
               \/ writer[v].run = r /\ writer'[v].run = r /\ writer'[v].step = writer[v].step
    <2>1. CASE writer[v].run # r \/ ~temporary[r]
      BY <1>2, <2>1 DEF Renamed
    <2>2. CASE ~(writer[v].run # r \/ ~temporary[r])
      <3>1. \E target : writer'[v] = [writer[v] EXCEPT !.target = target]
        BY <1>2, <2>2 DEF Renamed
      <3>2. QED
        BY <2>2, <3>1 DEF EvalInv, EvalTypeOK
    <2>3. QED
      BY <2>1, <2>2
  <1>7. ASSUME NEW q \in Runs \ {r} PROVE SavedTrue(q)'
    <2>1. \A v \in Writers : \/ writer'[v] = writer[v]
                             \/ /\ writer[v].step = "idle" \/ writer[v].run # q
                                /\ writer'[v].step = "idle" \/ writer'[v].run # q
      BY <1>0, <1>5, <1>6
    <2>2. QED
      BY <1>2, <1>3, <1>4, <2>1, SavedFrame DEF EvalInv, SavedInv
  <1>8. SavedTrue(r)'
    <2>1. SUFFICES ASSUME r \notin disturbed, task[r] # "none" PROVE SavedTrue(r)'
      BY <1>2 DEF SavedTrue
    <2>2. SavedTrue(r) /\ OneWriter(r) /\ w = awaited[r] /\ w # 0
      BY <1>0, <1>1, <2>1 DEF SavedInv, SavedTrue, OneWriter, Writers
    <2>3. /\ writer[w].target = "temporary" /\ temporary[r]
          /\ writer[w].record = memory[r]
      BY <1>1, <2>2 DEF OneWriter
    <2>4. published'[r] = Whole(memory'[r])
      BY <1>0, <1>1, <1>2, <2>3 DEF WriteAndReplace, EvalInv, EvalTypeOK
    <2>5. awaited'[r] = 0 /\ ~raised'[r]
      <3>1. /\ awaited' = [awaited EXCEPT ![r] = 0]
            /\ raised' = [raised EXCEPT ![r] = ~temporary[r]]
        BY <1>0, <2>2 DEF WriteAndReplace
      <3>2. raised'[r] = ~temporary[r]
        BY <3>1 DEF EvalInv, EvalTypeOK
      <3>3. awaited'[r] = 0
        BY <3>1 DEF EvalInv, EvalTypeOK
      <3>4. QED
        BY <2>3, <3>2, <3>3
    <2>6. ASSUME NEW v \in Writers, writer'[v].step # "idle", writer'[v].run = r PROVE FALSE
      <3>1. v # w
        BY <1>5, <2>6
      <3>2. writer[v].step # "idle" /\ writer[v].run = r
        BY <1>6, <2>6, <3>1
      <3>3. QED
        BY <2>2, <3>1, <3>2 DEF OneWriter
    <2>7. QED
      BY <1>2, <2>4, <2>5, <2>6 DEF SavedTrue, OneWriter
  <1>9. ClosingDisturbs'
    BY <1>2 DEF SavedInv, ClosingDisturbs
  <1>10. QED
    BY <1>7, <1>8, <1>9 DEF SavedInv

LEMMA SavedProcess ==
  ASSUME EvalInv, SavedInv,
         \/ Close \/ Stop
         \/ \E n \in 1 .. MaxReaders : Loaded(n) \/ \E r \in Runs : StartRead(n, r)
  PROVE  SavedInv'
  <1>1. CASE Close
    <2>1. ASSUME NEW r \in Runs, r \notin disturbed', task'[r] # "none"
          PROVE  /\ r \notin disturbed /\ task[r] = "done" /\ task'[r] = task[r]
                 /\ awaited'[r] = 0
      BY <1>1, <2>1 DEF Close, RunnerPcs
    <2>2. UNCHANGED <<memory, raised, writer, files>>
      BY <1>1 DEF Close
    <2>3. ASSUME NEW r \in Runs PROVE SavedTrue(r)'
      <3>1. SUFFICES ASSUME r \notin disturbed', task'[r] # "none" PROVE SavedTrue(r)'
        BY DEF SavedTrue
      <3>2. SavedTrue(r) /\ OneWriter(r) /\ awaited[r] = 0
        BY <2>1, <3>1 DEF SavedInv, SavedTrue
      <3>3. OneWriter(r)'
        BY <2>1, <2>2, <3>1, <3>2 DEF OneWriter
      <3>4. QED
        BY <2>1, <2>2, <3>1, <3>2, <3>3 DEF SavedTrue, files
    <2>4. ClosingDisturbs'
      BY <1>1 DEF Close, ClosingDisturbs, RunnerPcs
    <2>5. QED
      BY <2>3, <2>4 DEF SavedInv
  <1>2. CASE Stop
    BY <1>2 DEF Stop, SavedInv, SavedTrue, ClosingDisturbs
  <1>3. ASSUME NEW n \in 1 .. MaxReaders, Loaded(n) PROVE SavedInv'
    <2>1. /\ UNCHANGED <<process, task, attempt, awaited, raised, disturbed, writer, files>>
          /\ memory' = [memory EXCEPT ![reader[n].run] = reader[n].record] /\ reader[n].run # 0
      BY <1>3 DEF Loaded
    <2>2. task[reader[n].run] = "none"
      BY <2>1 DEF EvalInv, Known, ReadersKnown
    <2>3. ASSUME NEW r \in Runs PROVE SavedTrue(r)'
      <3>1. CASE task[r] = "none"
        BY <2>1, <3>1 DEF SavedTrue
      <3>2. CASE task[r] # "none"
        <4>1. memory'[r] = memory[r]
          BY <2>1, <2>2, <3>2 DEF EvalInv, EvalTypeOK
        <4>2. QED
          BY <2>1, <4>1, SavedFrame DEF EvalInv, SavedInv, files
      <3>3. QED
        BY <3>1, <3>2
    <2>4. QED
      BY <2>1, <2>3 DEF SavedInv, ClosingDisturbs
  <1>4. ASSUME NEW n \in 1 .. MaxReaders, NEW r \in Runs, StartRead(n, r) PROVE SavedInv'
    <2>1. UNCHANGED <<process, memory, task, attempt, awaited, raised, disturbed, writer,
                      temporary, published>>
      BY <1>4 DEF StartRead, manager, files
    <2>2. QED
      BY <2>1, SavedFrame DEF EvalInv, SavedInv, ClosingDisturbs
  <1>5. QED
    BY <1>1, <1>2, <1>3, <1>4

LEMMA SavedStep == ASSUME EvalInv, SavedInv, [EvalNext]_evalVars PROVE SavedInv'
  <1>1. ASSUME NEW r \in Runs, RunStep(r) PROVE SavedInv'
    <2>1. process = "up" \/ task[r] = "ending"
      BY <1>1 DEF RunStep
    <2>2. CASE TaskCreated(r) \/ RunStarted(r) \/ TaskEnds(r) \/ FirstPass(r) \/ RetryPass(r)
      BY <2>1, <2>2, SavedTaskMoves
    <2>3. CASE Execute(r) \/ Sampled(r) \/ RunnerRaises(r) \/ RunnerReturns(r)
      <3>1. task[r] # "ending"
        BY <2>3 DEF Execute, Sampled, RunnerRaises, RunnerReturns, RunnerPcs
      <3>2. QED
        BY <2>1, <2>3, <3>1, SavedTaskWrites
    <2>4. ASSUME NEW i \in Examples, SaveAttempt(r, i) PROVE SavedInv'
      <3>1. task[r] # "ending"
        BY <2>4, InGroup DEF SaveAttempt
      <3>2. QED
        BY <2>1, <2>4, <3>1, SavedTaskWrites
    <2>5. CASE \E i \in Examples : Attempted(r, i) \/ AttemptSaved(r, i) \/ Retry(r, i)
      BY <2>5, SavedAttemptMoves
    <2>6. QED
      BY <1>1, <2>2, <2>3, <2>4, <2>5 DEF RunStep
  <1>2. CASE UNCHANGED evalVars
    <2>1. UNCHANGED <<process, memory, task, attempt, awaited, raised, disturbed, writer,
                      temporary, published>>
      BY <1>2 DEF evalVars, manager, files
    <2>2. QED
      BY <2>1, SavedFrame DEF EvalInv, SavedInv, ClosingDisturbs
  <1>3. QED
    BY <1>1, <1>2, SavedRequest, SavedCancel, SavedOpen, SavedWrite, SavedProcess DEF EvalNext

\* A run that ended, and was neither cancelled nor met by close(), is on disk whole and
\* as it is in memory (_persist, _write): its task waited for the one write under way.
THEOREM SavedInTheEnd == EvalSpec => []SettledIsSaved
  <1>1. EvalInit => SavedInv
    BY DEF EvalInit, SavedInv, SavedTrue, ClosingDisturbs
  <1>2. EvalInv /\ SavedInv /\ [EvalNext]_evalVars => SavedInv'
    BY SavedStep
  <1>3. SavedInv => SettledIsSaved
    BY DEF SavedInv, SavedTrue, SettledIsSaved
  <1>4. QED
    BY <1>1, <1>2, <1>3, Invariant, PTL DEF EvalSpec

-----------------------------------------------------------------------------
(* The retrieval chunks of a file.                                           *)

\* How long some lines are, and a part of them.
LEMMA CharsFacts ==
  ASSUME CorpusTypeOK, NEW i \in 0 .. Len(lines), NEW j \in 0 .. Len(lines)
  PROVE  /\ Chars(i, j) \in Nat
         /\ i = j => Chars(i, j) = 0
         /\ \A k \in i .. j : Chars(k, j) <= Chars(i, j)
<1> DEFINE S == i + 1 .. j
<1>1. lines \in Seq(Nat) /\ i \in Nat /\ j \in Nat
  BY CorpusAssumption DEF CorpusTypeOK
<1>2. \A x \in S : lines[x] \in Nat
  BY <1>1
<1>3. IsFiniteSet(S)
  BY <1>1, FS_Interval
<1>4. ASSUME NEW T \in SUBSET S
      PROVE  SumOver(lines, T) <= SumOver(lines, S) /\ SumOver(lines, T) \in Nat
  <2> HIDE DEF S
  <2> QED BY <1>2, <1>3, SumSubset
<1>5. S \in SUBSET S /\ \A k \in i .. j : k + 1 .. j \in SUBSET S
  BY <1>1
<1>6. i = j => S = {}
  BY <1>1
<1> HIDE DEF S
<1>7. i = j => SumOver(lines, S) = 0
  BY <1>6, SumEmpty
<1> QED BY <1>4, <1>5, <1>7 DEF Chars, S

\* A chunk has one line at least, every line that fits, and no others.
LEMMA ChunkEndFacts ==
  ASSUME CorpusTypeOK, start < Len(lines)
  PROVE  /\ ChunkEnd \in start + 1 .. Len(lines)
         /\ ChunkEnd > start + 1 => Chars(start, ChunkEnd) <= TargetChars
         /\ \A e \in start + 1 .. Len(lines) : Chars(start, e) <= TargetChars => e <= ChunkEnd
<1> DEFINE S == {start + 1} \union {e \in start + 1 .. Len(lines) : Chars(start, e) <= TargetChars}
<1>1. start \in Nat /\ Len(lines) \in Nat
  BY CorpusAssumption DEF CorpusTypeOK
<1>2. S \in SUBSET (0 .. Len(lines)) /\ S # {}
  BY <1>1
<1>3. ChunkEnd = Max(S)
  BY DEF ChunkEnd
<1> HIDE DEF S
<1>4. Max(S) \in S /\ \A e \in S : e <= Max(S)
  BY <1>1, <1>2, Largest
<1>5. ChunkEnd \in S /\ \A e \in S : e <= ChunkEnd
  BY <1>3, <1>4
<1> QED BY <1>1, <1>5 DEF S

\* The next chunk begins behind this one's beginning, and within it if it can.
LEMMA NextStartFacts ==
  ASSUME CorpusTypeOK, NEW end \in start + 1 .. Len(lines)
  PROVE  /\ NextStart(end) \in start + 1 .. end
         /\ end > start + 1 => NextStart(end) < end
<1> DEFINE share == (Chars(start, end) + 2) \div 5
           wanted == Max({1, share})
           S == {start + 1} \union {n \in start + 1 .. end : Chars(n, end) >= wanted}
<1>1. start \in Nat /\ end \in Nat /\ Len(lines) \in Nat /\ end <= Len(lines) /\ start \in 0 .. Len(lines)
  BY CorpusAssumption DEF CorpusTypeOK
<1>2. NextStart(end) = Max(S)
  BY DEF NextStart
<1>3. Chars(start, end) \in Nat /\ Chars(end, end) = 0
  BY <1>1, CharsFacts
<1>4. wanted >= 1 /\ wanted \in Nat
  <2>1. share \in Nat
    BY <1>3
  <2> HIDE DEF share
  <2>2. {1, share} \in SUBSET (0 .. share + 1) /\ {1, share} # {} /\ share + 1 \in Nat
    BY <2>1
  <2>3. Max({1, share}) \in {1, share} /\ \A k \in {1, share} : k <= Max({1, share})
    BY ONLY <2>2, Largest
  <2> QED BY <2>1, <2>3
<1> HIDE DEF wanted
<1>5. S \in SUBSET (0 .. end) /\ S # {}
  BY <1>1
<1>6. end > start + 1 => end \notin S
  BY <1>1, <1>3, <1>4
<1>7. S \in SUBSET (start + 1 .. end)
  BY <1>1
<1> HIDE DEF S
<1>8. Max(S) \in S
  BY <1>1, <1>5, Largest
<1> DEFINE n == NextStart(end)
<1>9. n \in S
  BY <1>2, <1>8
<1> HIDE DEF n
<1>10. n \in start + 1 .. end /\ (end > start + 1 => n # end)
  BY <1>6, <1>7, <1>9
<1>11. end > start + 1 => n < end
  BY <1>1, <1>10
<1> QED BY <1>10, <1>11 DEF n

LEMMA CorpusStarts == CorpusInit => CorpusInv
<1> SUFFICES ASSUME CorpusInit PROVE CorpusInv
  OBVIOUS
<1>1. lines \in LineLengths /\ start = 0 /\ chunks = <<>> /\ Len(lines) \in Nat \ {0}
  BY CorpusAssumption DEF CorpusInit
<1> QED BY <1>1 DEF CorpusInv, CorpusTypeOK, CorpusCovered

LEMMA CutChunkKeeps == ASSUME CorpusInv, CutChunk PROVE CorpusInv'
<1> DEFINE end == ChunkEnd
           next == IF end >= Len(lines) THEN Len(lines) ELSE NextStart(end)
           chunk == [start |-> start, end |-> end]
           k == Len(chunks)
<1>0. CorpusTypeOK /\ CorpusCovered
  BY DEF CorpusInv
<1>1. start < Len(lines) /\ chunks' = Append(chunks, chunk) /\ start' = next /\ lines' = lines
  BY DEF CutChunk
<1>2. /\ lines \in LineLengths /\ Len(lines) \in Nat /\ start \in 0 .. Len(lines)
      /\ chunks \in Seq([start: 0 .. Len(lines), end: 0 .. Len(lines)])
      /\ k \in Nat /\ DOMAIN chunks = 1 .. k /\ (k = 0 <=> chunks = <<>>) /\ TargetChars \in Nat
  BY <1>0, CorpusAssumption DEF CorpusTypeOK
<1>3. /\ end \in start + 1 .. Len(lines)
      /\ end > start + 1 => Chars(start, end) <= TargetChars
      /\ \A e \in start + 1 .. Len(lines) : Chars(start, e) <= TargetChars => e <= end
  BY <1>0, <1>1, ChunkEndFacts
<1> HIDE DEF end
<1>4. /\ NextStart(end) \in start + 1 .. end
      /\ end > start + 1 => NextStart(end) < end
  BY <1>0, <1>3, NextStartFacts
<1>5. /\ next \in start + 1 .. end
      /\ end > start + 1 /\ next < Len(lines) => next < end
      /\ next = Len(lines) => end = next
  BY <1>2, <1>3, <1>4
<1>6. end > next => Chars(next, end) <= TargetChars
  <2>1. start \in 0 .. Len(lines) /\ end \in 0 .. Len(lines) /\ next \in start .. end
    BY <1>2, <1>3, <1>5
  <2>2. Chars(next, end) <= Chars(start, end) /\ Chars(start, end) \in Nat
    BY <1>0, <2>1, CharsFacts
  <2>3. Chars(next, end) \in Nat
    <3>1. next \in 0 .. Len(lines)
      BY <1>2, <1>3, <1>5
    <3> QED BY <1>0, <2>1, <3>1, CharsFacts
  <2>4. end > next => end > start + 1
    BY <1>2, <1>3, <1>5
  <2> QED BY <1>2, <1>3, <2>2, <2>3, <2>4
<1> HIDE DEF next
<1>7. ASSUME k > 0
      PROVE  LET b == chunks[k] IN
             /\ b.start < start /\ start <= b.end /\ b.end <= end
             /\ b.end > b.start + 1 => start < b.end
  <2> DEFINE b == chunks[k]
  <2>1. b.start \in Nat /\ b.end \in 0 .. Len(lines)
    <3> DEFINE R == [start: 0 .. Len(lines), end: 0 .. Len(lines)]
    <3>1. chunks \in Seq(R) /\ k \in DOMAIN chunks
      BY <1>2, <1>7
    <3> HIDE DEF R, k
    <3>2. \A i \in DOMAIN chunks : chunks[i] \in R
      BY <3>1
    <3>3. b \in [start: 0 .. Len(lines), end: 0 .. Len(lines)]
      BY <3>1, <3>2 DEF R
    <3> HIDE DEF b
    <3> QED BY <1>2, <3>3
  <2>2. /\ b.start < start /\ start <= b.end
        /\ b.end > b.start + 1 /\ start < Len(lines) => start < b.end
        /\ b.end > start => Chars(start, b.end) <= TargetChars \/ b.end = start + 1
    BY <1>2, <1>7 DEF CorpusInv
  <2> HIDE DEF b
  <2>3. b.end <= end
    <3>1. CASE b.end <= start + 1
      BY <1>2, <1>3, <2>1, <3>1
    <3>2. CASE b.end > start + 1
      <4>1. b.end \in start + 1 .. Len(lines) /\ Chars(start, b.end) <= TargetChars
        BY <1>2, <2>1, <2>2, <3>2
      <4> QED BY <1>3, <4>1
    <3> QED BY <1>2, <2>1, <3>1, <3>2
  <2> QED BY <1>1, <2>2, <2>3 DEF b
<1>8. /\ chunk \in [start: 0 .. Len(lines), end: 0 .. Len(lines)]
      /\ chunk.start = start /\ chunk.end = end
  BY <1>2, <1>3
<1> HIDE DEF chunk
<1>9. /\ chunks' \in Seq([start: 0 .. Len(lines), end: 0 .. Len(lines)])
      /\ Len(chunks') = k + 1 /\ DOMAIN chunks' = 1 .. k + 1 /\ chunks' # <<>>
      /\ chunks'[k + 1] = chunk /\ \A i \in 1 .. k : chunks'[i] = chunks[i]
  BY <1>1, <1>2, <1>8, SMTT(30)
<1> HIDE DEF k
<1>10. CorpusTypeOK'
  <2>1. next \in 0 .. Len(lines)
    BY <1>2, <1>3, <1>5
  <2> QED BY <1>1, <1>2, <1>9, <2>1 DEF CorpusTypeOK
<1>11. ASSUME NEW i \in 1 .. k + 1
       PROVE  LET c == chunks'[i] IN
              /\ c.start < c.end
              /\ c.end > c.start + 1 => Chars(c.start, c.end) <= TargetChars
              /\ IF i = 1 THEN c.start = 0
                 ELSE LET b == chunks'[i - 1] IN
                      /\ b.start < c.start /\ c.start <= b.end /\ b.end <= c.end
                      /\ b.end > b.start + 1 => c.start < b.end
  <2>1. CASE i \in 1 .. k
    <3>1. i # 1 => i - 1 \in 1 .. k
      BY <1>2, <2>1
    <3>2. chunks'[i] = chunks[i] /\ (i # 1 => chunks'[i - 1] = chunks[i - 1])
      BY <1>9, <2>1, <3>1
    <3> QED BY <1>0, <1>2, <2>1, <3>2 DEF CorpusCovered
  <2>2. CASE i = k + 1
    <3>1. chunks'[i] = chunk
      BY <1>9, <2>2
    <3>2. i = 1 => start = 0
      BY <1>2, <2>2 DEF CorpusInv
    <3>3. i # 1 => i - 1 = k /\ k > 0 /\ k \in 1 .. k
      BY <1>2, <2>2
    <3>4. i # 1 => chunks'[i - 1] = chunks[k]
      BY <1>9, <3>3
    <3>5. start < end
      BY <1>2, <1>3
    <3> QED BY <1>3, <1>7, <1>8, <3>1, <3>2, <3>3, <3>4, <3>5
  <2> QED BY <1>2, <2>1, <2>2
<1>12. next = Len(lines) => chunks'[Len(chunks')].end = next
  BY <1>5, <1>8, <1>9
<1>13. CorpusCovered'
  <2>1. \A i, j : Chars(i, j)' = Chars(i, j)
    BY <1>1 DEF Chars
  <2>2. DOMAIN chunks' = 1 .. k + 1 /\ start' = next /\ lines' = lines
    BY <1>1, <1>9
  <2> QED BY <1>11, <1>12, <2>1, <2>2 DEF CorpusCovered, Chars
<1>14. LET b == chunks'[Len(chunks')] IN
       /\ b.start < next /\ next <= b.end
       /\ b.end > b.start + 1 /\ next < Len(lines) => next < b.end
       /\ b.end > next => Chars(next, b.end) <= TargetChars
  BY <1>2, <1>3, <1>5, <1>6, <1>8, <1>9
<1>15. \A i, j : Chars(i, j)' = Chars(i, j)
  BY <1>1 DEF Chars
<1> QED BY <1>1, <1>9, <1>10, <1>13, <1>14, <1>15 DEF CorpusInv, Chars

LEMMA CorpusStep == CorpusInv /\ [CutChunk]_corpusVars => CorpusInv'
<1>1. ASSUME CorpusInv, UNCHANGED corpusVars PROVE CorpusInv'
  BY <1>1 DEF corpusVars, CorpusInv, CorpusTypeOK, CorpusCovered, Chars
<1> QED BY <1>1, CutChunkKeeps

\* No chunk of a file refers to a line beyond it.
THEOREM CorpusTyped == CorpusSpec => []CorpusTypeOK
<1>1. CorpusInv => CorpusTypeOK
  BY DEF CorpusInv
<1> QED BY <1>1, CorpusStarts, CorpusStep, PTL DEF CorpusSpec

\* Every line of a file is in a chunk, for every file and target, and neighbours overlap
\* when they can.
THEOREM Covered == CorpusSpec => []CorpusCovered
<1>1. CorpusInv => CorpusCovered
  BY DEF CorpusInv
<1> QED BY <1>1, CorpusStarts, CorpusStep, PTL DEF CorpusSpec
=============================================================================
