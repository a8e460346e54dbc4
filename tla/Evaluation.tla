----------------------------- MODULE Evaluation -----------------------------
(***************************************************************************)
(* Evaluation runs (evaluation/service.py): the manager with its records   *)
(* in memory and one file per run, the task that executes a run, and the   *)
(* threads that write the files.  A thread goes on after the await that    *)
(* waits for it was cancelled, and all threads of a run write the same     *)
(* temporary file, so a thread keeps track of what its open file is        *)
(* called.  Everything in asyncio happens between two awaits: one action   *)
(* per such stretch.                                                       *)
(***************************************************************************)
EXTENDS Naturals, FiniteSets

CONSTANTS
  Examples,    \* indices of the sampled rows
  MaxRetries,  \* evaluation_example_max_retries
  MaxRuns,     \* bound on the runs of a behaviour
  MaxFresh,    \* bound: a later run is a recovery of another
  MaxWriters,  \* threads of the default executor that write
  MaxReaders,  \* and that read
  MaxStops     \* bound on the times the process ends

ASSUME EvaluationAssumption ==
  /\ IsFiniteSet(Examples) /\ Examples # {}
  /\ MaxRetries \in Nat /\ MaxRuns \in Nat /\ MaxFresh \in Nat
  /\ MaxWriters \in Nat /\ MaxReaders \in Nat /\ MaxStops \in Nat

VARIABLES
  process,   \* "up", or "closing" once close() has been called
  started,   \* runs so far
  memory,    \* _runs: memory[r].status = "none" when r is not in it
  task,      \* where start() and then _execute are for run r
  attempt,   \* attempt[r][i]: example i in the task group of run r
  awaited,   \* the writer that run r waits for; 0: none
  raised,    \* that writer ended with an exception
  writer,    \* threads in _write
  reader,    \* threads in _read, with what they have read
  temporary, \* <run-id>.tmp exists: truncated, its text still to come
  published, \* what <run-id>.json holds
  disturbed, \* history: runs hit by a cancel request or by close()
  stops

manager  == <<process, started, memory, task, attempt, awaited, raised, disturbed, stops>>
files    == <<temporary, published>>
evalVars == <<manager, writer, reader, files>>

Runs    == 1 .. MaxRuns
Writers == 1 .. MaxWriters

Active   == {"queued", "running"}
Settled  == {"succeeded", "completed_with_errors", "failed", "cancelled"}
Details  == {"missing", "retrying", "failed", "scored"}

Record == [status: Active \union Settled \union {"none"},
           retryOf: 0 .. MaxRuns,
           saved: BOOLEAN,                   \* result is not None
           result: [Examples -> Details],    \* its "examples"
           completed: Nat]                   \* completed_examples

NoRecord == [status |-> "none", retryOf |-> 0, saved |-> FALSE,
             result |-> [i \in Examples |-> "missing"], completed |-> 0]

Content    == [kind: {"absent", "empty", "whole", "mixed"}, record: Record]
Whole(rec) == [kind |-> "whole", record |-> rec]
Absent     == [kind |-> "absent", record |-> NoRecord]
Empty      == [kind |-> "empty", record |-> NoRecord]
Mixed      == [kind |-> "mixed", record |-> NoRecord]

NoAttempt  == [pc |-> "idle", count |-> 0, detail |-> "missing"]
IdleWriter == [step |-> "idle", run |-> 0, record |-> NoRecord, target |-> "temporary"]
IdleReader == [run |-> 0, record |-> NoRecord]

\* Inside _runner.run, where the except clauses of _execute apply.
RunnerPcs == {"sampling", "reporting", "first", "retry"}
TaskPcs   == RunnerPcs \union {"none", "saving", "created", "starting", "ending", "done"}

EvalTypeOK ==
  /\ process \in {"up", "closing"}
  /\ started \in 0 .. MaxRuns
  /\ memory \in [Runs -> Record]
  /\ task \in [Runs -> TaskPcs]
  /\ attempt \in [Runs -> [Examples ->
       [pc: {"idle", "trying", "waiting", "saving", "backoff"}, count: 0 .. MaxRetries + 1,
        detail: Details]]]
  /\ awaited \in [Runs -> {0} \union Writers]
  /\ raised \in [Runs -> BOOLEAN]
  /\ writer \in [Writers -> [step: {"idle", "submitted", "open"}, run: 0 .. MaxRuns, record: Record,
                             target: {"temporary", "published", "unlinked"}]]
  /\ reader \in [1 .. MaxReaders -> [run: 0 .. MaxRuns, record: Record]]
  /\ temporary \in [Runs -> BOOLEAN]
  /\ published \in [Runs -> Content]
  /\ disturbed \in SUBSET Runs
  /\ stops \in Nat

EvalInit ==
  /\ process = "up"
  /\ started = 0
  /\ memory = [r \in Runs |-> NoRecord]
  /\ task = [r \in Runs |-> "none"]
  /\ attempt = [r \in Runs |-> [i \in Examples |-> NoAttempt]]
  /\ awaited = [r \in Runs |-> 0]
  /\ raised = [r \in Runs |-> FALSE]
  /\ writer = [w \in Writers |-> IdleWriter]
  /\ reader = [n \in 1 .. MaxReaders |-> IdleReader]
  /\ temporary = [r \in Runs |-> FALSE]
  /\ published = [r \in Runs |-> Absent]
  /\ disturbed = {}
  /\ stops = 0

Scored(rec) == {i \in Examples : rec.result[i] = "scored"}
Final(rec)  == {i \in Examples : rec.result[i] \in {"scored", "failed"}}

\* Mutant of Completes: every attempt is counted.
CompletesAlways(d) == d # "missing"

\* The final flag of save_attempt.
Completes(d) == d \in {"scored", "failed"}

\* Mutant of Recovered: every example is evaluated anew.
RecoveredNothing(rec) == [i \in Examples |-> "missing"]

\* The details of a saved result that a recovery keeps.
Recovered(rec) == [i \in Examples |-> IF rec.result[i] = "scored" THEN "scored" ELSE "missing"]

-----------------------------------------------------------------------------
(* Writing a record: _persist and the thread it hands the record to.       *)

\* The record as it is from now on, and the thread that will serialise it.
Submit(r, rec, w) ==
  /\ writer[w].step = "idle"
  /\ \A v \in Writers : v < w => writer[v].step # "idle"
  /\ memory' = [memory EXCEPT ![r] = rec]
  /\ writer' = [writer EXCEPT ![w] = [IdleWriter EXCEPT !.step = "submitted", !.run = r,
                                                        !.record = rec]]

\* await self._persist(record), from the task (or the start request) of run r.
Persist(r, rec) ==
  \E w \in Writers : /\ Submit(r, rec, w)
                     /\ awaited' = [awaited EXCEPT ![r] = w]
                     /\ raised' = [raised EXCEPT ![r] = FALSE]

\* The first half of _write.  json.dumps sees the record as it is when the thread
\* gets to it: cancelled in the meantime, say.  (A run without a task may have been
\* loaded again; the thread has the object it was given.)  write_text then opens
\* the temporary file and truncates it, whoever else has it open.
OpenTemporary(w) ==
  LET r == writer[w].run
      live == IF task[r] = "none" THEN writer[w].record ELSE memory[r]
  IN
  /\ writer[w].step = "submitted"
  /\ writer' = [writer EXCEPT ![w].step = "open", ![w].record = live, ![w].target = "temporary"]
  /\ temporary' = [temporary EXCEPT ![r] = TRUE]
  /\ UNCHANGED <<manager, reader, published>>

\* What the open files of the other threads of run r are called after a replace.
Renamed(r, w) ==
  [v \in Writers |->
     IF v = w THEN IdleWriter
     ELSE IF writer[v].run # r \/ ~temporary[r] THEN writer[v]
     ELSE [writer[v] EXCEPT !.target = CASE @ = "temporary" -> "published"
                                         [] @ = "published" -> "unlinked"
                                         [] OTHER -> @]]

\* The second half: the text, then temporary.replace(path).  When another thread
\* was first with its replace, the text goes over the published one, of which the
\* end may show through, and there may be nothing left to replace: FileNotFoundError.
WriteAndReplace(w) ==
  LET r == writer[w].run
      mine == Whole(writer[w].record)
  IN
  /\ writer[w].step = "open"
  /\ writer' = Renamed(r, w)
  /\ temporary' = [temporary EXCEPT ![r] = FALSE]
  /\ \/ /\ writer[w].target = "temporary"
        /\ published' = [published EXCEPT ![r] = mine]
     \/ /\ writer[w].target # "temporary" /\ temporary[r]
        /\ published' = [published EXCEPT ![r] = Empty]
     \/ /\ writer[w].target = "published" /\ ~temporary[r]
        /\ \E text \in {mine, IF published[r] \in {Empty, mine} THEN mine ELSE Mixed} :
             published' = [published EXCEPT ![r] = text]
     \/ /\ writer[w].target = "unlinked" /\ ~temporary[r]
        /\ UNCHANGED published
  /\ IF awaited[r] = w
     THEN /\ awaited' = [awaited EXCEPT ![r] = 0]
          /\ raised' = [raised EXCEPT ![r] = ~temporary[r]]
     ELSE UNCHANGED <<awaited, raised>>
  /\ UNCHANGED <<process, started, memory, task, attempt, disturbed, stops, reader>>

\* The await returned.
Written(r) == awaited[r] = 0 /\ ~raised[r]

-----------------------------------------------------------------------------
(* start, _execute and _runner.run                                         *)

\* start(): r is a new run, a recovery of p when p # 0.
Start(r, p, result) ==
  /\ process = "up"
  /\ started < MaxRuns /\ r = started + 1
  /\ started' = r
  /\ task' = [task EXCEPT ![r] = "saving"]
  /\ Persist(r, [NoRecord EXCEPT !.status = "queued", !.retryOf = p, !.saved = p # 0,
                                 !.result = result])
  /\ UNCHANGED <<process, attempt, disturbed, stops, reader, files>>

StartFresh ==
  /\ started < MaxFresh
  /\ Start(started + 1, 0, NoRecord.result)

\* retry_failed(p), with p in memory: get() has loaded it (StartRead, Loaded).
RetryFailed(p) ==
  /\ memory[p].status \in {"failed", "completed_with_errors", "cancelled"}
  /\ memory[p].saved
  /\ Scored(memory[p]) # Examples
  /\ Start(started + 1, p, memory[p].result)

\* start() goes on: the task is created, or the error is the answer.
TaskCreated(r) ==
  /\ task[r] = "saving" /\ awaited[r] = 0
  /\ task' = [task EXCEPT ![r] = IF raised[r] THEN "done" ELSE "created"]
  /\ UNCHANGED <<process, started, memory, attempt, awaited, raised, disturbed, stops,
                 writer, reader, files>>

\* The first stretch of _execute, which is outside its try.
Execute(r) ==
  /\ task[r] = "created"
  /\ task' = [task EXCEPT ![r] = "starting"]
  /\ Persist(r, [memory[r] EXCEPT !.status = "running"])
  /\ UNCHANGED <<process, started, attempt, disturbed, stops, reader, files>>

RunStarted(r) ==
  /\ task[r] = "starting" /\ awaited[r] = 0
  /\ task' = [task EXCEPT ![r] = IF raised[r] THEN "done" ELSE "sampling"]
  /\ UNCHANGED <<process, started, memory, attempt, awaited, raised, disturbed, stops,
                 writer, reader, files>>

\* The end of _execute: the status, then the last write, outside the try.
Settle(r, status) ==
  /\ task' = [task EXCEPT ![r] = "ending"]
  /\ attempt' = [attempt EXCEPT ![r] = [i \in Examples |-> NoAttempt]]
  /\ Persist(r, [memory[r] EXCEPT !.status = status])
  /\ UNCHANGED <<process, started, disturbed, stops, reader, files>>

Outcome(rec) == IF \E i \in Examples : rec.result[i] = "failed"
                THEN "completed_with_errors" ELSE "succeeded"

\* The rows of the dataset; a recovery keeps the details that have scores, and
\* the first progress report says so.
Sampled(r) ==
  LET kept == Recovered(memory[r]) IN
  /\ task[r] = "sampling"
  /\ task' = [task EXCEPT ![r] = "reporting"]
  /\ Persist(r, [memory[r] EXCEPT !.saved = TRUE, !.result = kept,
                   !.completed = Cardinality({i \in Examples : kept[i] = "scored"})])
  /\ UNCHANGED <<process, started, attempt, disturbed, stops, reader, files>>

\* The dataset cannot be read, its sample changed, or the tuning did; a progress
\* report could not be written.
RunnerRaises(r) ==
  /\ \/ task[r] = "sampling"
     \/ task[r] \in RunnerPcs /\ awaited[r] = 0 /\ raised[r]
  /\ Settle(r, "failed")

\* The first task group: one attempt for every example without scores.
FirstPass(r) ==
  /\ task[r] = "reporting" /\ Written(r)
  /\ task' = [task EXCEPT ![r] = "first"]
  /\ attempt' = [attempt EXCEPT ![r] = [i \in Examples |->
       IF memory[r].result[i] = "missing"
       THEN [pc |-> "trying", count |-> 1, detail |-> "missing"] ELSE NoAttempt]]
  /\ UNCHANGED <<process, started, memory, awaited, raised, disturbed, stops,
                 writer, reader, files>>

\* run_attempt returns: with scores, or with an error and perhaps retries left.
Attempted(r, i) ==
  /\ attempt[r][i].pc = "trying"
  /\ \E d \in {"scored", IF attempt[r][i].count <= MaxRetries THEN "retrying" ELSE "failed"} :
       attempt' = [attempt EXCEPT ![r][i].pc = "waiting", ![r][i].detail = d]
  /\ UNCHANGED <<process, started, memory, task, awaited, raised, disturbed, stops,
                 writer, reader, files>>

\* save_attempt has progress_lock: the detail, the count and the report.
SaveAttempt(r, i) ==
  LET d == attempt[r][i].detail IN
  /\ attempt[r][i].pc = "waiting"
  /\ \A j \in Examples : attempt[r][j].pc # "saving"
  /\ attempt' = [attempt EXCEPT ![r][i].pc = "saving"]
  /\ Persist(r, [memory[r] EXCEPT !.result[i] = d,
                   !.completed = IF Completes(d) THEN @ + 1 ELSE @])
  /\ UNCHANGED <<process, started, task, disturbed, stops, reader, files>>

\* Mutant of BacksOff: an example is tried again at once, in the first pass too.
BacksOffAtOnce(r, i) == attempt[r][i].detail = "retrying"

\* retry_failed goes on to its next attempt.
BacksOff(r, i) == task[r] = "retry" /\ attempt[r][i].detail = "retrying"

\* progress_lock is released; in the retry pass a failure sleeps and tries again.
AttemptSaved(r, i) ==
  /\ attempt[r][i].pc = "saving" /\ Written(r)
  /\ attempt' = [attempt EXCEPT ![r][i] =
       [@ EXCEPT !.pc = IF BacksOff(r, i) THEN "backoff" ELSE "idle"]]
  /\ UNCHANGED <<process, started, memory, task, awaited, raised, disturbed, stops,
                 writer, reader, files>>

\* Mutant of GroupEnds: it waits for final results, the first pass too.
GroupEndsFinal(r) ==
  \A i \in Examples : attempt[r][i].pc = "idle" /\ Completes(memory[r].result[i])

GroupEnds(r) == \A i \in Examples : attempt[r][i].pc = "idle"

\* The second task group, for the examples whose first attempt failed.
RetryPass(r) ==
  /\ task[r] = "first" /\ GroupEnds(r)
  /\ task' = [task EXCEPT ![r] = "retry"]
  /\ attempt' = [attempt EXCEPT ![r] = [i \in Examples |->
       IF attempt[r][i].detail = "retrying" THEN [attempt[r][i] EXCEPT !.pc = "backoff"]
       ELSE attempt[r][i]]]
  /\ UNCHANGED <<process, started, memory, awaited, raised, disturbed, stops,
                 writer, reader, files>>

Retry(r, i) ==
  /\ attempt[r][i].pc = "backoff"
  /\ attempt' = [attempt EXCEPT ![r][i].pc = "trying", ![r][i].count = @ + 1]
  /\ UNCHANGED <<process, started, memory, task, awaited, raised, disturbed, stops,
                 writer, reader, files>>

RunnerReturns(r) ==
  /\ task[r] = "retry" /\ GroupEnds(r)
  /\ Settle(r, Outcome(memory[r]))

\* Mutant of TaskEnds: the last write is not awaited.
TaskEndsUnsaved(r) ==
  /\ task[r] = "ending"
  /\ task' = [task EXCEPT ![r] = "done"]
  /\ UNCHANGED <<process, started, memory, attempt, awaited, raised, disturbed, stops,
                 writer, reader, files>>

TaskEnds(r) ==
  /\ task[r] = "ending" /\ awaited[r] = 0
  /\ task' = [task EXCEPT ![r] = "done"]
  /\ UNCHANGED <<process, started, memory, attempt, awaited, raised, disturbed, stops,
                 writer, reader, files>>

RunStep(r) ==
  /\ process = "up" \/ task[r] = "ending"
  /\ \/ TaskCreated(r) \/ Execute(r) \/ RunStarted(r) \/ Sampled(r) \/ RunnerRaises(r)
     \/ FirstPass(r) \/ RetryPass(r) \/ RunnerReturns(r) \/ TaskEnds(r)
     \/ \E i \in Examples : \/ Attempted(r, i) \/ SaveAttempt(r, i)
                            \/ AttemptSaved(r, i) \/ Retry(r, i)

-----------------------------------------------------------------------------
(* cancel, get, list, close, and the end of the process                    *)

\* cancel(r).  Inside the runner the task ends itself; before its try, or when
\* no task is left, cancel() changes the record.  A write under way goes on.
CancelRun(r) ==
  /\ process = "up"
  /\ memory[r].status \in Active
  /\ disturbed' = disturbed \union {r}
  /\ \/ /\ task[r] \in RunnerPcs
        /\ task' = [task EXCEPT ![r] = "ending"]
        /\ attempt' = [attempt EXCEPT ![r] = [i \in Examples |-> NoAttempt]]
        /\ Persist(r, [memory[r] EXCEPT !.status = "cancelled"])
     \/ /\ task[r] \in {"created", "starting"}
        /\ task' = [task EXCEPT ![r] = "done"]
        /\ awaited' = [awaited EXCEPT ![r] = 0]
        /\ \E w \in Writers : Submit(r, [memory[r] EXCEPT !.status = "cancelled"], w)
        /\ UNCHANGED <<attempt, raised>>
     \/ /\ task[r] \in {"none", "saving", "done"}
        /\ \E w \in Writers : Submit(r, [memory[r] EXCEPT !.status = "cancelled"], w)
        /\ UNCHANGED <<task, attempt, awaited, raised>>
  /\ UNCHANGED <<process, started, stops, reader, files>>

\* get() and list() of a run that is not in memory: a thread reads its file ...
StartRead(n, r) ==
  /\ process = "up"
  /\ reader[n].run = 0 /\ \A k \in 1 .. MaxReaders : k < n => reader[k].run # 0
  /\ memory[r].status = "none"
  /\ published[r].kind = "whole"
  /\ reader' = [reader EXCEPT ![n] = [run |-> r, record |-> published[r].record]]
  /\ UNCHANGED <<manager, writer, files>>

\* ... and what it read becomes the record, whatever is in memory by then.
Loaded(n) ==
  /\ reader[n].run # 0
  /\ memory' = [memory EXCEPT ![reader[n].run] = reader[n].record]
  /\ reader' = [reader EXCEPT ![n] = IdleReader]
  /\ UNCHANGED <<process, started, task, attempt, awaited, raised, disturbed, stops,
                 writer, files>>

\* The server has answered its requests and calls close(): every task is cancelled.
Close ==
  /\ process = "up" /\ stops < MaxStops
  /\ \A r \in Runs : task[r] # "saving"
  /\ process' = "closing"
  /\ disturbed' = disturbed \union {r \in Runs : task[r] \notin {"none", "done"}}
  /\ task' = [r \in Runs |-> IF task[r] \in {"created", "starting", "ending"} THEN "done" ELSE task[r]]
  /\ awaited' = [r \in Runs |-> IF task[r] \in RunnerPcs THEN awaited[r] ELSE 0]
  /\ UNCHANGED <<started, memory, attempt, raised, stops, writer, reader, files>>

\* A task inside the runner receives the cancellation.
Interrupt(r) ==
  /\ process = "closing" /\ task[r] \in RunnerPcs
  /\ Settle(r, "cancelled")

\* The process is killed, or its threads have ended after close(); the next one starts.
Stop ==
  /\ \/ process = "up" /\ stops < MaxStops
     \/ process = "closing" /\ (\A r \in Runs : task[r] \in {"none", "done"})
                            /\ (\A w \in Writers : writer[w].step = "idle")
  /\ process' = "up"
  /\ stops' = stops + 1
  /\ memory' = [r \in Runs |-> NoRecord]
  /\ task' = [r \in Runs |-> "none"]
  /\ attempt' = [r \in Runs |-> [i \in Examples |-> NoAttempt]]
  /\ awaited' = [r \in Runs |-> 0]
  /\ raised' = [r \in Runs |-> FALSE]
  /\ writer' = [w \in Writers |-> IdleWriter]
  /\ reader' = [n \in 1 .. MaxReaders |-> IdleReader]
  /\ disturbed' = {}
  /\ UNCHANGED <<started, files>>

EvalNext ==
  \/ StartFresh
  \/ \E r \in Runs : RetryFailed(r) \/ RunStep(r) \/ CancelRun(r) \/ Interrupt(r)
  \/ \E w \in Writers : OpenTemporary(w) \/ WriteAndReplace(w)
  \/ \E n \in 1 .. MaxReaders : Loaded(n) \/ \E r \in Runs : StartRead(n, r)
  \/ Close \/ Stop

\* Tasks and threads go on: every call of an attempt has a timeout.
EvalFairness ==
  /\ \A r \in Runs : WF_evalVars(RunStep(r)) /\ WF_evalVars(Interrupt(r))
  /\ \A w \in Writers : WF_evalVars(OpenTemporary(w) \/ WriteAndReplace(w))

EvalSpec == EvalInit /\ [][EvalNext]_evalVars /\ EvalFairness

-----------------------------------------------------------------------------
(* Properties                                                              *)

\* "Keep the fast path fast" (service.py:187): no example is tried again before
\* every example of the run has had its first attempt and its detail is recorded,
\* in a recovery too.
FirstPassFirst ==
  \A r \in Runs : (\E i \in Examples : attempt[r][i].count > 1)
                   => \A i \in Examples : memory[r].result[i] # "missing"

\* The status of a run that ended by itself, and the count it reports, agree with
\* the details: succeeded means every example has scores, completed_with_errors
\* that the others failed for good, and an example retried or recovered is
\* counted once.
OutcomeTrue ==
  \A r \in Runs : task[r] \in {"ending", "done"} =>
    /\ memory[r].status = "succeeded" => Scored(memory[r]) = Examples
    /\ memory[r].status = "completed_with_errors" =>
         Final(memory[r]) = Examples /\ Scored(memory[r]) # Examples
    /\ memory[r].status \in {"succeeded", "completed_with_errors"} =>
         memory[r].completed = Cardinality(Examples)

\* A run that ended without a cancel request and without close() is on disk, whole
\* and as it ended.  (With one, two threads can write its file at once.)
SettledIsSaved ==
  \A r \in Runs : task[r] = "done" /\ r \notin disturbed => published[r] = Whole(memory[r])

\* Scores are never lost while a run is worked on: neither by a retry of another
\* example, nor when a recovery starts from the result of an earlier run, nor when
\* the run fails or is cancelled.
ScoresKept ==
  [][\A r \in Runs : task[r] # "none" /\ task'[r] # "none" =>
       Scored(memory[r]) \subseteq Scored(memory'[r])]_evalVars

\* A run that has been started ends, unless the process does: retries are bounded
\* and no task waits for ever for the lock or for a thread.
RunsEnd == \A r \in Runs : task[r] = "saving" ~> task[r] \in {"none", "done"}
=============================================================================
