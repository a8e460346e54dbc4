----------------------------- MODULE MCServices -----------------------------
(* Instances for TLC of the services that share no state: evaluation runs,   *)
(* their corpus, rate limiter and vector cache, the chunking worker,         *)
(* retrieval and the chat.  A behaviour is one of one service, chosen at the *)
(* start; the others stay as they are.                                       *)
EXTENDS Evaluation, Corpus, RateLimit, VectorCache, ChunkWorker, Retrieval, Chat

CONSTANTS Parts, e1, e2, ka, kb, x1, x2, x3

VARIABLE part  \* the service of this behaviour

others == <<limiterVars, cacheVars, workerVars, retrievalVars, chatVars>>
rest == <<corpusVars, others>>
servicesVars == <<part, evalVars, rest>>

-----------------------------------------------------------------------------
(* Values of the constants                                                   *)

\* x1 and x2 are examples of one corpus, whose third chunk fills a batch alone.
CorpusKey == [e \in Retrievals |-> IF e = x3 THEN kb ELSE ka]
ChunksIn == [k \in Corpora |-> IF k = ka THEN 3 ELSE 1]
InputLengths == [k \in Corpora |-> [i \in 1 .. ChunksIn[k] |-> IF i = 3 THEN 3 ELSE 1]]

\* Files with a line beyond the target, an empty one, chunks of one line and of many.
FilesByLine == UNION {[1 .. n -> {1, 3, 12}] : n \in 1 .. 6} \union {<<0>>}

\* Two files that fit in one batch, one that does not, one of another language,
\* one too large; the third and fourth are large enough to be streamed alone.
Languages == <<1, 1, 1, 2, 1>>
FileBytes == <<1, 1, 2, 3, 5>>

Qualities == <<1, 2, 1, 1>>
TextLengths == <<2, 3, 1, 1>>
PromptRooms == {-1, 4, 7, 20}

-----------------------------------------------------------------------------
(* Bounds on evaluation runs, one set of them for each question: recoveries  *)
(* without cancellation, one run that is cancelled at any point, and a       *)
(* process that ends and finds the files of the one before it.               *)

InTurn == started' > 1 /\ started = 1 => \A w \in Writers : writer[w].step = "idle"

OnlyFails(r, i) == \A j \in Examples \ {i} : attempt'[r][j].detail \in {"missing", "scored"}

Recoveries ==
  /\ \A r \in Runs : task[r] = "saving" => memory'[r].status # "cancelled"
  /\ process' = "up" /\ stops' = 0 /\ disturbed' \subseteq {1}
  /\ InTurn /\ OnlyFails(2, e1)

Cancellation == started' <= 1 /\ OnlyFails(1, e1)

Restarts ==
  /\ \A r \in Runs : task[r] # "none" => memory'[r].status # "cancelled"
  /\ started = 0 \/ started' = 1 \/ stops = 1
  /\ reader'[2].run = 0
  /\ InTurn

\* The requests of x3, which has a corpus to itself, only compete for the slots.
Undisturbed(e) ==
  /\ query[e] # "idle" /\ query'[e] = "idle" => query[e] = "ok" /\ documents[e] = "ok"
  /\ \A b \in batches'[e] : b.step \notin {"refused", "failed"}

\* The page is left in the middle of one answer at most.
OneAbandoned ==
  /\ page = "open" /\ page' = "away" => streaming # 0
  /\ Cardinality(abandoned') <= 1

-----------------------------------------------------------------------------
ServicesInit ==
  /\ part \in Parts
  /\ CorpusInit /\ (part # "corpus" => lines = <<0>>)
  /\ EvalInit /\ LimiterInit /\ CacheInit /\ WorkerInit /\ RetrievalInit /\ ChatInit

EvaluationTurn ==
  /\ EvalNext
  /\ \/ part = "recoveries" /\ Recoveries
     \/ part = "cancellation" /\ Cancellation
     \/ part = "restarts" /\ Restarts
  /\ UNCHANGED <<part, rest>>

CorpusTurn ==
  /\ part = "corpus" /\ CutChunk
  /\ UNCHANGED <<part, evalVars, others>>

LimiterTurn ==
  /\ part = "limiter" /\ LimiterNext
  /\ UNCHANGED <<part, evalVars, corpusVars, cacheVars, workerVars, retrievalVars, chatVars>>

CacheTurn ==
  /\ part = "cache" /\ CacheNext /\ Undisturbed(x3)
  /\ UNCHANGED <<part, evalVars, corpusVars, limiterVars, workerVars, retrievalVars, chatVars>>

WorkerTurn ==
  /\ part = "worker" /\ WorkerNext
  /\ UNCHANGED <<part, evalVars, corpusVars, limiterVars, cacheVars, retrievalVars, chatVars>>

RetrievalTurn ==
  /\ part = "retrieval" /\ RetrievalNext
  /\ UNCHANGED <<part, evalVars, corpusVars, limiterVars, cacheVars, workerVars, chatVars>>

ChatTurn ==
  /\ part = "chat" /\ ChatNext /\ OneAbandoned
  /\ UNCHANGED <<part, evalVars, corpusVars, limiterVars, cacheVars, workerVars, retrievalVars>>

ServicesNext ==
  \/ EvaluationTurn \/ CorpusTurn \/ LimiterTurn \/ CacheTurn \/ WorkerTurn \/ RetrievalTurn \/ ChatTurn

ServicesSpec ==
  /\ ServicesInit /\ [][ServicesNext]_servicesVars
  /\ EvalFairness /\ LimiterFairness /\ WF_cacheVars(CacheStep) /\ WorkerFairness
=============================================================================
