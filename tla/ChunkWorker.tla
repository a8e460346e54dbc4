----------------------------- MODULE ChunkWorker -----------------------------
(***************************************************************************)
(* The chunking worker and its client: one Node process that answers a     *)
(* request with a stream of events (src/apps/chunker/src/index.ts), and    *)
(* the client that reads them for one caller at a time                     *)
(* (chunking/client.py).  A caller can leave in the middle of a stream;    *)
(* what the worker then still writes is what the next caller finds.  How a *)
(* file is parsed is left out: it succeeds with some chunks, or fails.     *)
(***************************************************************************)
EXTENDS Integers, Sequences, FiniteSets, SequencesExt, FiniteSetsExt, Lists

CONSTANTS
  Paths,          \* the files of a request, as numbers in the order of their paths
  Language,       \* Language[f], as a number in the order of the names
  Bytes,          \* Bytes[f]: its size
  MaxFileBytes, StreamingBytes, BatchBytes, MemoryBudget, Concurrency, \* limits
  PipeEvents,     \* events that fit in stdout; the write of more blocks the worker
  MaxChunks,      \* bound on the chunks of a file
  MaxRequests,    \* bound on the requests
  MaxDeaths       \* bound on the deaths of the process

ASSUME WorkerAssumption ==
  /\ Paths \subseteq Nat \ {0} /\ IsFiniteSet(Paths)
  /\ Language \in [Paths -> Nat] /\ Bytes \in [Paths -> Nat \ {0}]
  /\ MaxFileBytes \in Nat /\ StreamingBytes \in Nat /\ BatchBytes \in Nat
  /\ MemoryBudget \in Nat /\ Concurrency \in Nat \ {0}
  /\ PipeEvents \in Nat \ {0} /\ MaxChunks \in Nat /\ MaxRequests \in Nat /\ MaxDeaths \in Nat

VARIABLES
  child,     \* "none", "alive", "broken" (ended, not yet noticed), "exited"
  stdin,     \* requests written and not taken
  backlog,   \* whether the client's write buffer is above its mark, where drain() waits
  stdout,    \* events written and not read
  current,   \* the request the worker is working on; 0: none
  ahead,     \* the batches it has not loaded
  pending,   \* the files of its batch that nobody has taken
  busy,      \* the files being chunked
  width,     \* concurrency of its batch
  client,    \* "idle", "writing" (waits in drain) or "reading"; not idle: has the lock
  request,   \* requestId of the caller's request
  buffered,  \* buffered[f]: chunks_by_path
  delivered, \* delivered[f]: the file event the caller has got, "none" before
  outcome,   \* how the last request ended: "none", "complete", "error", "left"
  answers,   \* history: answers[f]: what the worker answered to this request about f
  deaths

childVars  == <<child, stdin, backlog, stdout, current, ahead, pending, busy, width>>
callerVars == <<client, request, buffered, delivered, outcome>>
workerVars == <<childVars, callerVars, answers, deaths>>

Unanswered == [status |-> "none", chunks |-> 0]
Answer == [status: {"none", "succeeded", "skipped", "failed"}, chunks: 0 .. MaxChunks]
Event  == [request: 1 .. MaxRequests, type: {"chunk", "file", "complete", "fatal"},
           path: Paths \union {0}, status: {"none", "succeeded", "skipped", "failed"}]

WorkerTypeOK ==
  /\ child \in {"none", "alive", "broken", "exited"}
  /\ stdin \in Seq(1 .. MaxRequests)
  /\ backlog \in BOOLEAN
  /\ stdout \in Seq(Event)
  /\ current \in 0 .. MaxRequests
  /\ ahead \in Seq(Seq(Paths))
  /\ pending \in Seq(Paths)
  /\ busy \subseteq Paths
  /\ width \in Nat
  /\ client \in {"idle", "writing", "reading"}
  /\ request \in 0 .. MaxRequests
  /\ buffered \in [Paths -> Nat]
  /\ delivered \in [Paths -> Answer]
  /\ outcome \in {"none", "complete", "error", "left"}
  /\ answers \in [Paths -> Answer]
  /\ deaths \in 0 .. MaxDeaths

WorkerInit ==
  /\ child = "none"
  /\ stdin = <<>> /\ backlog = FALSE /\ stdout = <<>>
  /\ current = 0 /\ ahead = <<>> /\ pending = <<>> /\ busy = {} /\ width = 0
  /\ client = "idle" /\ request = 0
  /\ buffered = [f \in Paths |-> 0]
  /\ delivered = [f \in Paths |-> Unanswered]
  /\ outcome = "none"
  /\ answers = [f \in Paths |-> Unanswered]
  /\ deaths = 0

-----------------------------------------------------------------------------
(* The worker                                                              *)

\* Writes to a pipe are synchronous in Node: as long as what it has written does not fit,
\* the worker stands still, and reads no stdin either.
CanWrite == Len(stdout) < PipeEvents
Standing == Len(stdout) > PipeEvents

\* The order of processRequest: language, size, path.
Before ==
  {p \in Paths \X Paths :
     LET f == p[1]
         g == p[2]
     IN  \/ Language[f] < Language[g]
         \/ Language[f] = Language[g] /\ Bytes[f] < Bytes[g]
         \/ Language[f] = Language[g] /\ Bytes[f] = Bytes[g] /\ f < g}

Sorted == InOrder(Paths, Before)

Fits(f) == Bytes[f] <= MaxFileBytes

TooLarge == Pick(Sorted, {i \in DOMAIN Sorted : ~Fits(Sorted[i])})
Ordinary == Pick(Sorted, {i \in DOMAIN Sorted : Fits(Sorted[i]) /\ Bytes[Sorted[i]] < StreamingBytes})
Large    == Pick(Sorted, {i \in DOMAIN Sorted : Fits(Sorted[i]) /\ Bytes[Sorted[i]] >= StreamingBytes})

\* Where the batch of the i-th ordinary file begins: with it when the file is of
\* another language than the one before it, or too much for that one's batch.
BatchStart[i \in DOMAIN Ordinary] ==
  IF \/ i = 1
     \/ Language[Ordinary[i]] # Language[Ordinary[i - 1]]
     \/ SumOver(Bytes, {Ordinary[j] : j \in BatchStart[i - 1] .. i}) > BatchBytes
  THEN i ELSE BatchStart[i - 1]

\* The batches of ordinary files, then the large files alone.
Batches ==
  LET starts == Ascending({BatchStart[i] : i \in DOMAIN Ordinary})
  IN  [n \in DOMAIN starts |-> Pick(Ordinary, {i \in DOMAIN Ordinary : BatchStart[i] = starts[n]})]
      \o [n \in DOMAIN Large |-> <<Large[n]>>]

\* Mutant of Width: the memory budget is not looked at.
WidthUnbounded(files) == Min({Concurrency, Len(files)})

\* Files in progress at once: no more than fit the memory, and one at least.
Width(files) ==
  LET largest == Max({Bytes[f] : f \in ToSet(files)})
      wanted  == Min({Concurrency, Len(files), MemoryBudget \div largest})
  IN  IF wanted > 1 THEN wanted ELSE 1

ChunkEvents(q, f, n) ==
  [i \in 1 .. n |-> [request |-> q, type |-> "chunk", path |-> f, status |-> "none"]]
FileEvent(q, f, s) == [request |-> q, type |-> "file", path |-> f, status |-> s]

\* Mutant of EndEvent: a failed request is only logged.
EndEventSilent(q, type) ==
  IF type = "fatal" THEN <<>>
  ELSE <<[request |-> q, type |-> type, path |-> 0, status |-> "none"]>>

EndEvent(q, type) == <<[request |-> q, type |-> type, path |-> 0, status |-> "none"]>>

\* Mutant of Emit: the file event comes before its chunks.
EmitFileFirst(q, f, answer) ==
  /\ stdout' = stdout \o <<FileEvent(q, f, answer.status)>> \o ChunkEvents(q, f, answer.chunks)
  /\ answers' = IF q = request THEN [answers EXCEPT ![f] = answer] ELSE answers

\* What a file is answered, and the record of it.
Emit(q, f, answer) ==
  /\ stdout' = stdout \o ChunkEvents(q, f, answer.chunks) \o <<FileEvent(q, f, answer.status)>>
  /\ answers' = IF q = request THEN [answers EXCEPT ![f] = answer] ELSE answers

\* The files of list s are left out.
EmitSkipped(q, s) ==
  /\ stdout' = stdout \o [i \in DOMAIN s |-> FileEvent(q, s[i], "skipped")]
  /\ answers' = [f \in Paths |-> IF q = request /\ f \in ToSet(s)
                                 THEN [status |-> "skipped", chunks |-> 0] ELSE answers[f]]

\* Between its writes Node reads what comes on stdin, whatever it is working on.
ReadStdin ==
  /\ child = "alive" /\ ~Standing /\ backlog
  /\ backlog' = FALSE
  /\ UNCHANGED <<child, stdin, stdout, current, ahead, pending, busy, width, callerVars, answers,
                 deaths>>

\* main takes a line; processRequest sorts the files and skips those too large.
TakeRequest ==
  /\ child = "alive" /\ CanWrite /\ current = 0 /\ stdin # <<>> /\ ~backlog
  /\ current' = Head(stdin)
  /\ stdin' = Tail(stdin)
  /\ ahead' = Batches
  /\ EmitSkipped(Head(stdin), TooLarge)
  /\ UNCHANGED <<child, backlog, pending, busy, width, callerVars, deaths>>

\* loadBatch: some files are unsafe, unreadable, empty or generated; the client
\* treats what could not be read, which is reported as failed, like the others.
LoadBatch ==
  /\ child = "alive" /\ CanWrite /\ pending = <<>> /\ busy = {} /\ ahead # <<>>
  /\ ahead' = Tail(ahead)
  /\ \E left \in SUBSET ToSet(Head(ahead)) :
       LET batch  == Head(ahead)
           loaded == Pick(batch, {i \in DOMAIN batch : batch[i] \notin left})
       IN
       /\ pending' = loaded
       /\ width' = IF loaded = <<>> THEN 0 ELSE Width(loaded)
       /\ EmitSkipped(current, Pick(batch, {i \in DOMAIN batch : batch[i] \in left}))
  /\ UNCHANGED <<child, stdin, backlog, current, busy, callerVars, deaths>>

\* A loop of processBatch takes files[next++].
TakeFile ==
  /\ child = "alive" /\ ~Standing /\ pending # <<>> /\ Cardinality(busy) < width
  /\ busy' = busy \union {Head(pending)}
  /\ pending' = Tail(pending)
  /\ UNCHANGED <<child, stdin, backlog, stdout, current, ahead, width, callerVars, answers, deaths>>

\* emitSuccess: the chunks, adapted to the budget, and the file event in one go;
\* or the file event of a failure.
FileDone(f) ==
  /\ child = "alive" /\ CanWrite /\ f \in busy
  /\ busy' = busy \ {f}
  /\ \/ \E n \in 1 .. MaxChunks : Emit(current, f, [status |-> "succeeded", chunks |-> n])
     \/ Emit(current, f, [status |-> "failed", chunks |-> 0])
  /\ UNCHANGED <<child, stdin, backlog, current, ahead, pending, width, callerVars, deaths>>

Complete ==
  /\ child = "alive" /\ CanWrite /\ current # 0
  /\ ahead = <<>> /\ pending = <<>> /\ busy = {}
  /\ stdout' = stdout \o EndEvent(current, "complete")
  /\ current' = 0
  /\ UNCHANGED <<child, stdin, backlog, ahead, pending, busy, width, callerVars, answers, deaths>>

\* processRequest throws: main answers with fatal and reads the next line.
Fatal ==
  /\ child = "alive" /\ CanWrite /\ current # 0
  /\ stdout' = stdout \o EndEvent(current, "fatal")
  /\ current' = 0 /\ ahead' = <<>> /\ pending' = <<>> /\ busy' = {} /\ width' = 0
  /\ UNCHANGED <<child, stdin, backlog, callerVars, answers, deaths>>

\* The process ends; what it has written can still be read.
Die ==
  /\ child = "alive" /\ deaths < MaxDeaths
  /\ deaths' = deaths + 1
  /\ child' = "broken"
  /\ stdin' = <<>> /\ backlog' = FALSE
  /\ current' = 0 /\ ahead' = <<>> /\ pending' = <<>> /\ busy' = {} /\ width' = 0
  /\ UNCHANGED <<stdout, callerVars, answers>>

\* asyncio sets returncode.
NoticeExit ==
  /\ child = "broken"
  /\ child' = "exited"
  /\ UNCHANGED <<stdin, backlog, stdout, current, ahead, pending, busy, width, callerVars, answers,
                 deaths>>

-----------------------------------------------------------------------------
(* The client                                                              *)

\* chunk(): start() replaces a process that is known to have ended; writing to one
\* that has just ended raises outside the try, and the process stays.  What is written
\* may be more than the pipe takes at once, or come behind what it has not taken yet.
RequestChunks ==
  /\ client = "idle" /\ request < MaxRequests
  /\ request' = request + 1
  /\ buffered' = [f \in Paths |-> 0]
  /\ delivered' = [f \in Paths |-> Unanswered]
  /\ IF child = "broken"
     THEN /\ outcome' = "error"
          /\ UNCHANGED <<childVars, client>>
     ELSE /\ \E large \in BOOLEAN : backlog' = (backlog \/ large)
          /\ client' = IF backlog' THEN "writing" ELSE "reading"
          /\ outcome' = "none"
          /\ stdin' = Append(stdin, request + 1)
          /\ child' = "alive"
          /\ stdout' = IF child = "alive" THEN stdout ELSE <<>>
          /\ UNCHANGED <<current, ahead, pending, busy, width>>
  /\ answers' = [f \in Paths |-> Unanswered]
  /\ UNCHANGED deaths

\* drain() returns.
Drained ==
  /\ client = "writing" /\ child = "alive" /\ ~backlog
  /\ client' = "reading"
  /\ UNCHANGED <<childVars, request, buffered, delivered, outcome, answers, deaths>>

\* The process has ended: drain() raises, outside the try, and the process stays.
DrainFails ==
  /\ client = "writing" /\ child \in {"broken", "exited"}
  /\ client' = "idle" /\ outcome' = "error"
  /\ UNCHANGED <<childVars, request, buffered, delivered, answers, deaths>>

\* _discard_process: the next request starts another one.
Discard ==
  /\ child' = "none"
  /\ stdin' = <<>> /\ backlog' = FALSE /\ stdout' = <<>>
  /\ current' = 0 /\ ahead' = <<>> /\ pending' = <<>> /\ busy' = {} /\ width' = 0

Raise ==
  /\ client' = "idle" /\ outcome' = "error"
  /\ Discard
  /\ UNCHANGED <<buffered, delivered>>

\* Consuming the head of the stream leaves the process as it is.
Consume ==
  /\ stdout' = Tail(stdout)
  /\ UNCHANGED <<child, stdin, backlog, current, ahead, pending, busy, width>>

\* Mutant of Stale: the requestId is not compared.
StaleNever(e) == FALSE

\* An event of another request is not for this caller.
Stale(e) == e.request # request

ReadEvent ==
  LET e == Head(stdout) IN
  /\ client = "reading" /\ stdout # <<>>
  /\ \/ Stale(e) /\ Raise
     \/ ~Stale(e) /\ e.type = "fatal" /\ Raise
     \/ e.type = "chunk" /\ Raise   \* a record beyond the limit of the reader
     \/ /\ ~Stale(e) /\ e.type = "complete"
        /\ IF \E f \in Paths : buffered[f] > 0
           THEN Raise
           ELSE /\ client' = "idle" /\ outcome' = "complete"
                /\ Consume /\ UNCHANGED <<buffered, delivered>>
     \/ /\ ~Stale(e) /\ e.type = "chunk"
        /\ buffered' = [buffered EXCEPT ![e.path] = @ + 1]
        /\ Consume /\ UNCHANGED <<client, delivered, outcome>>
     \/ /\ ~Stale(e) /\ e.type = "file"
        /\ IF e.status # "succeeded" /\ buffered[e.path] > 0
           THEN Raise
           ELSE /\ buffered' = [buffered EXCEPT ![e.path] = 0]
                /\ delivered' = [delivered EXCEPT ![e.path] =
                     [status |-> e.status, chunks |-> buffered[e.path]]]
                /\ Consume /\ UNCHANGED <<client, outcome>>
  /\ UNCHANGED <<request, answers, deaths>>

\* readline returns nothing: the process has ended.
ReadEnd ==
  /\ client = "reading" /\ stdout = <<>> /\ child \in {"broken", "exited"}
  /\ Raise
  /\ UNCHANGED <<request, answers, deaths>>

\* The caller leaves, between events or while it waits for one or for drain(): the
\* generator is closed or cancelled, the lock is released and the process keeps working.
CallerLeaves ==
  /\ client # "idle"
  /\ client' = "idle" /\ outcome' = "left"
  /\ UNCHANGED <<childVars, request, buffered, delivered, answers, deaths>>

\* stop(), once the runner has stopped.
StopWorker ==
  /\ client = "idle" /\ child # "none"
  /\ Discard
  /\ UNCHANGED <<callerVars, answers, deaths>>

ServeStep == \/ TakeRequest \/ LoadBatch \/ TakeFile \/ Complete
             \/ \E f \in Paths : FileDone(f)
ReadStep  == Drained \/ DrainFails \/ ReadEvent \/ ReadEnd

WorkerNext == \/ ServeStep \/ ReadStdin \/ ReadStep \/ Fatal \/ Die \/ NoticeExit
              \/ RequestChunks \/ CallerLeaves \/ StopWorker

\* The worker works (no file takes for ever), it reads stdin while it has no write to wait
\* for, and a caller that stays reads on.
WorkerFairness ==
  /\ WF_workerVars(ServeStep) /\ WF_workerVars(ReadStep)
  /\ WF_workerVars(ReadStdin /\ (CanWrite \/ current = 0))

WorkerSpec == WorkerInit /\ [][WorkerNext]_workerVars /\ WorkerFairness

-----------------------------------------------------------------------------
\* A request that completes has told its caller about every file, with the status
\* and all the chunks that the worker made for this request: nothing of a stream
\* somebody left, nothing of a process that died.
CompleteMeansAll ==
  outcome = "complete" =>
    /\ delivered = answers
    /\ \A f \in Paths : delivered[f].status # "none"

\* What a caller has got before the end is the worker's answer to it, too: chunking
\* stores nothing from another request even when the stream then breaks.
DeliveredIsAnswered ==
  \A f \in Paths : delivered[f].status # "none" => delivered[f] = answers[f]

\* The worker never holds more source than a batch, or one file, and never chunks
\* more at once than its memory budget has room for, or one file.
WorkerMemory ==
  LET held == busy \union ToSet(pending) IN
  /\ Cardinality(held) > 1 => SumOver(Bytes, held) <= BatchBytes
  /\ Cardinality(busy) > 1 =>
       Cardinality(busy) * Max({Bytes[f] : f \in busy}) <= MemoryBudget
  /\ \A f, g \in held : Language[f] = Language[g]

\* The worker cannot write on for a caller that has left, so it reads no stdin, and drain()
\* waits, with the lock, for it to read the request behind (client.py:88).
Deadlocked == client = "writing" /\ backlog /\ child = "alive" /\ ~CanWrite /\ current # 0

\* A request ends: with everything, with an error, or because its caller leaves.  Nothing
\* but that deadlock keeps it, which only a cancellation or the death of the process ends.
RequestEnds == client # "idle" ~> client = "idle" \/ Deadlocked
=============================================================================
