----------------------------- MODULE VectorCache -----------------------------
(***************************************************************************)
(* The retriever of the evaluation (evaluation/retrieval.py): examples     *)
(* that share a corpus share its document vectors.  One lock per corpus,   *)
(* the vectors of batches that succeeded before a failure, a batch size    *)
(* that shrinks, and the two semaphores.  The other task of a group is     *)
(* cancelled when the first one fails, and a caller can be cancelled at    *)
(* any time; both release what the code holds in async with.               *)
(***************************************************************************)
EXTENDS Integers, FiniteSets, FiniteSetsExt

CONSTANTS
  Retrievals,     \* examples that are being retrieved for
  Corpora,        \* hashes of the chunk ids of a corpus
  CorpusOf,       \* CorpusOf[e]: the corpus of example e
  Size,           \* Size[k]: the number of chunks of corpus k
  InputChars,     \* InputChars[k][i]: len of the input of chunk i
  MaxChars,       \* evaluation_embedding_batch_max_chars
  MaxBatch,       \* min of the two batch-size settings
  RetrievalSlots, \* evaluation_retrieval_concurrency
  EmbeddingSlots, \* evaluation_embedding_request_concurrency
  MaxCalls,       \* bound on the attempts of an example
  Unowned         \* a lock nobody holds

ASSUME CacheAssumption ==
  /\ CorpusOf \in [Retrievals -> Corpora]
  /\ Size \in [Corpora -> Nat \ {0}]
  /\ \A k \in Corpora : InputChars[k] \in [1 .. Size[k] -> Nat]
  /\ MaxChars \in Nat /\ MaxBatch \in Nat \ {0} /\ MaxCalls \in Nat
  /\ RetrievalSlots \in Nat \ {0} /\ EmbeddingSlots \in Nat \ {0}
  /\ Unowned \notin Retrievals

VARIABLES
  cached,        \* corpora in _document_vectors
  partial,       \* partial[k]: chunks with a vector in _partial_document_vectors
  batchSize,     \* batchSize[k]: _document_batch_sizes, MaxBatch when absent
  owner,         \* owner[k]: who holds the corpus's lock
  retrievalFree, \* values of the two semaphores
  embeddingFree,
  query,         \* query[e]: the task that embeds the query
  documents,     \* documents[e]: the task in _cached_document_vectors
  batches,       \* batches[e]: the batches it has planned and not finished
  planned,       \* planned[e]: the batch_size it planned them with
  calls,         \* attempts so far
  embedded       \* history: embedded[k], chunks the provider has answered, without those
                 \* whose vectors were dropped while its close() was awaited

cacheVars == <<cached, partial, batchSize, owner, retrievalFree, embeddingFree,
               query, documents, batches, planned, calls, embedded>>

Chunk(k)   == 1 .. Size[k]
AllChunks  == UNION {Chunk(k) : k \in Corpora}

\* A batch waits for a slot, is sent, is answered or refused by the provider, whose close()
\* is then awaited with the slot still held, and is done (and gone) or has failed.
UnderWay   == {"sent", "answered", "refused"}
Batch      == [chunks: SUBSET AllChunks, step: {"waiting", "failed"} \union UnderWay]

CacheTypeOK ==
  /\ cached \subseteq Corpora
  /\ partial \in [Corpora -> SUBSET AllChunks]
  /\ batchSize \in [Corpora -> 1 .. MaxBatch]
  /\ owner \in [Corpora -> Retrievals \union {Unowned}]
  /\ retrievalFree \in 0 .. RetrievalSlots
  /\ embeddingFree \in 0 .. EmbeddingSlots
  /\ query \in [Retrievals -> {"idle", "asked", "pending", "sent", "ok"}]
  /\ documents \in [Retrievals -> {"idle", "pending", "embedding", "ok"}]
  /\ batches \in [Retrievals -> SUBSET Batch]
  /\ planned \in [Retrievals -> 0 .. MaxBatch]
  /\ calls \in [Retrievals -> 0 .. MaxCalls]
  /\ embedded \in [Corpora -> SUBSET AllChunks]

CacheInit ==
  /\ cached = {}
  /\ partial = [k \in Corpora |-> {}]
  /\ batchSize = [k \in Corpora |-> MaxBatch]
  /\ owner = [k \in Corpora |-> Unowned]
  /\ retrievalFree = RetrievalSlots
  /\ embeddingFree = EmbeddingSlots
  /\ query = [e \in Retrievals |-> "idle"]
  /\ documents = [e \in Retrievals |-> "idle"]
  /\ batches = [e \in Retrievals |-> {}]
  /\ planned = [e \in Retrievals |-> 0]
  /\ calls = [e \in Retrievals |-> 0]
  /\ embedded = [k \in Corpora |-> {}]

Running(e) == documents[e] # "idle"

\* Mutant of Plan: the vectors that are there are not looked at.
PlanAgain(k, done, size) == {[chunks |-> Chunk(k), step |-> "waiting"]}

\* The batches of _embed_documents: neighbours without a vector, while they fit.
Plan(k, done, size) ==
  LET missing == Chunk(k) \ done
      first[i \in Chunk(k)] ==   \* the first chunk of the batch that i is in
        IF i = 1 \/ i - 1 \in done THEN i
        ELSE LET s == first[i - 1] IN
             IF i - s < size /\ MapThenSumSet(LAMBDA j : InputChars[k][j], s .. i) <= MaxChars
             THEN s ELSE i
  IN  {[chunks |-> {i \in missing : first[i] = s}, step |-> "waiting"] :
         s \in {first[i] : i \in missing}}

-----------------------------------------------------------------------------
\* Mutant of Slots: the slot comes back only with an answer.
SlotsAnswered(e) == IF query[e] = "ok" THEN 1 ELSE 0

\* The retrieval slots that e holds.
Slots(e) == IF query[e] \in {"idle", "asked"} THEN 0 ELSE 1

\* The chunks of e whose vectors are there while close() is awaited.
Answered(e) == UNION {b.chunks : b \in {c \in batches[e] : c.step = "answered"}}

\* What the async with blocks of e's tasks give back however e leaves; vectors that
\* wait for a close() are dropped.
Unwind(e) ==
  LET held == Cardinality({b \in batches[e] : b.step \in UnderWay})
              + (IF query[e] = "sent" THEN 1 ELSE 0)
      k == CorpusOf[e]
  IN
  /\ embeddingFree' = embeddingFree + held
  /\ embedded' = [embedded EXCEPT ![k] = @ \ Answered(e)]
  /\ retrievalFree' = retrievalFree + Slots(e)
  /\ owner' = IF owner[k] = e THEN [owner EXCEPT ![k] = Unowned] ELSE owner
  /\ query' = [query EXCEPT ![e] = "idle"]
  /\ documents' = [documents EXCEPT ![e] = "idle"]
  /\ batches' = [batches EXCEPT ![e] = {}]
  /\ planned' = [planned EXCEPT ![e] = 0]

\* retrieve(): an attempt of example e waits for a retrieval slot.
Retrieve(e) ==
  /\ query[e] = "idle" /\ calls[e] < MaxCalls
  /\ query' = [query EXCEPT ![e] = "asked"]
  /\ calls' = [calls EXCEPT ![e] = @ + 1]
  /\ UNCHANGED <<cached, partial, batchSize, owner, retrievalFree, embeddingFree,
                 documents, batches, planned, embedded>>

\* The two tasks of _dense_records start.
Admit(e) ==
  /\ query[e] = "asked" /\ retrievalFree > 0
  /\ retrievalFree' = retrievalFree - 1
  /\ query' = [query EXCEPT ![e] = "pending"]
  /\ documents' = [documents EXCEPT ![e] = "pending"]
  /\ UNCHANGED <<cached, partial, batchSize, owner, embeddingFree, batches, planned, calls,
                 embedded>>

\* _cached_document_vectors has the lock: the cached vectors, or the missing
\* batches at the size the corpus has come down to.
OwnCorpus(e) ==
  LET k == CorpusOf[e] IN
  /\ documents[e] = "pending" /\ owner[k] = Unowned
  /\ IF k \in cached
     THEN /\ documents' = [documents EXCEPT ![e] = "ok"]
          /\ UNCHANGED <<owner, batches, planned>>
     ELSE /\ documents' = [documents EXCEPT ![e] = "embedding"]
          /\ owner' = [owner EXCEPT ![k] = e]
          /\ batches' = [batches EXCEPT ![e] = Plan(k, partial[k], batchSize[k])]
          /\ planned' = [planned EXCEPT ![e] = batchSize[k]]
  /\ UNCHANGED <<cached, partial, batchSize, retrievalFree, embeddingFree, query, calls,
                 embedded>>

Becomes(e, b, step) == batches' = [batches EXCEPT ![e] = (@ \ {b}) \union {[b EXCEPT !.step = step]}]

SendBatch(e, b) ==
  /\ b.step = "waiting" /\ embeddingFree > 0
  /\ embeddingFree' = embeddingFree - 1
  /\ Becomes(e, b, "sent")
  /\ UNCHANGED <<cached, partial, batchSize, owner, retrievalFree, query, documents, planned,
                 calls, embedded>>

\* embed_documents returns, and close() is awaited.
BatchAnswered(e, b) ==
  /\ b.step = "sent"
  /\ Becomes(e, b, "answered")
  /\ embedded' = [embedded EXCEPT ![CorpusOf[e]] = @ \union b.chunks]
  /\ UNCHANGED <<cached, partial, batchSize, owner, retrievalFree, embeddingFree, query, documents,
                 planned, calls>>

\* embed_documents raises; a transient failure halves the size for the next attempt.
BatchRefused(e, b) ==
  LET half == planned[e] \div 2 IN
  /\ b.step = "sent"
  /\ Becomes(e, b, "refused")
  /\ \E retryable \in BOOLEAN :
       batchSize' = IF retryable
                    THEN [batchSize EXCEPT ![CorpusOf[e]] = IF half > 1 THEN half ELSE 1]
                    ELSE batchSize
  /\ UNCHANGED <<cached, partial, owner, retrievalFree, embeddingFree, query, documents, planned,
                 calls, embedded>>

\* close() returns: the slot is free and the vectors are stored.
BatchStored(e, b) ==
  /\ b.step = "answered"
  /\ embeddingFree' = embeddingFree + 1
  /\ partial' = [partial EXCEPT ![CorpusOf[e]] = @ \union b.chunks]
  /\ batches' = [batches EXCEPT ![e] = @ \ {b}]
  /\ UNCHANGED <<cached, batchSize, owner, retrievalFree, query, documents, planned, calls,
                 embedded>>

\* The request had failed, its close() fails, or the answer has the wrong number of
\* vectors: nothing is stored, and the siblings go on.
BatchRaises(e, b) ==
  /\ b.step \in {"answered", "refused"}
  /\ embeddingFree' = embeddingFree + 1
  /\ Becomes(e, b, "failed")
  /\ embedded' = IF b.step = "answered"
                 THEN [embedded EXCEPT ![CorpusOf[e]] = @ \ b.chunks] ELSE embedded
  /\ UNCHANGED <<cached, partial, batchSize, owner, retrievalFree, query, documents, planned, calls>>

\* Mutant of Gathered: the exceptions that gather returned are not raised.
GatheredAnyway(e) == \A b \in batches[e] : b.step = "failed"

\* gather has all outcomes, none is an exception, and no vector is missing.
Gathered(e) == batches[e] = {} /\ partial[CorpusOf[e]] = Chunk(CorpusOf[e])

StoreVectors(e) ==
  LET k == CorpusOf[e] IN
  /\ documents[e] = "embedding" /\ Gathered(e)
  /\ cached' = cached \union {k}
  /\ partial' = [partial EXCEPT ![k] = {}]
  /\ batchSize' = [batchSize EXCEPT ![k] = MaxBatch]
  /\ owner' = [owner EXCEPT ![k] = Unowned]
  /\ documents' = [documents EXCEPT ![e] = "ok"]
  /\ batches' = [batches EXCEPT ![e] = {}]
  /\ planned' = [planned EXCEPT ![e] = 0]
  /\ UNCHANGED <<retrievalFree, embeddingFree, query, calls, embedded>>

\* All batches have ended and one failed: raised, and the query's task is cancelled.
DocumentsFail(e) ==
  /\ documents[e] = "embedding"
  /\ batches[e] # {} /\ \A b \in batches[e] : b.step = "failed"
  /\ Unwind(e)
  /\ UNCHANGED <<cached, partial, batchSize, calls>>

SendQuery(e) ==
  /\ query[e] = "pending" /\ embeddingFree > 0
  /\ query' = [query EXCEPT ![e] = "sent"]
  /\ embeddingFree' = embeddingFree - 1
  /\ UNCHANGED <<cached, partial, batchSize, owner, retrievalFree, documents, batches, planned,
                 calls, embedded>>

\* The answer is there and close() has returned; the time in between changes nothing here.
QuerySucceeds(e) ==
  /\ query[e] = "sent"
  /\ query' = [query EXCEPT ![e] = "ok"]
  /\ embeddingFree' = embeddingFree + 1
  /\ UNCHANGED <<cached, partial, batchSize, owner, retrievalFree, documents, batches, planned,
                 calls, embedded>>

\* The provider or its close() has failed: the documents' task is cancelled with its
\* batches under way.
QueryFails(e) ==
  /\ query[e] = "sent"
  /\ Unwind(e)
  /\ UNCHANGED <<cached, partial, batchSize, calls>>

\* Both vectors are there; ranking them changes no state.
Ranked(e) ==
  /\ query[e] = "ok" /\ documents[e] = "ok"
  /\ Unwind(e)
  /\ UNCHANGED <<cached, partial, batchSize, calls>>

\* The run is cancelled.
CancelRetrieval(e) ==
  /\ query[e] # "idle"
  /\ Unwind(e)
  /\ UNCHANGED <<cached, partial, batchSize, calls>>

CacheStep ==
  \E e \in Retrievals :
    \/ Admit(e) \/ OwnCorpus(e) \/ StoreVectors(e) \/ DocumentsFail(e)
    \/ SendQuery(e) \/ QuerySucceeds(e) \/ QueryFails(e) \/ Ranked(e)
    \/ \E b \in batches[e] :
         \/ SendBatch(e, b) \/ BatchAnswered(e, b) \/ BatchRefused(e, b)
         \/ BatchStored(e, b) \/ BatchRaises(e, b)

CacheNext == CacheStep \/ \E e \in Retrievals : Retrieve(e) \/ CancelRetrieval(e)

\* Something that can go on does; the bounded calls leave nobody behind.
CacheSpec == CacheInit /\ [][CacheNext]_cacheVars /\ WF_cacheVars(CacheStep)

-----------------------------------------------------------------------------
\* What a retry leaves of "adaptive sizing does not repeat successful embedding work"
\* (docs/development/evaluations.md:93): what is planned, sent or refused was never
\* answered before, whoever asked and however that attempt ended, unless the close()
\* awaited behind the answer (retrieval.py:337) failed or was cancelled; and two examples
\* never embed the same corpus side by side.
EmbeddedOnce ==
  \A e \in Retrievals : \A b \in batches[e] :
    /\ b.step # "answered" => b.chunks \intersect embedded[CorpusOf[e]] = {}
    /\ \A f \in Retrievals \ {e} : CorpusOf[f] = CorpusOf[e] => batches[f] = {}

\* "A failed/cancelled attempt cannot poison" the cache (retrieval.py:279): the vectors of
\* a corpus are shared only when all are there, and those of an unfinished corpus are
\* forgotten nowhere but in that close(): they are stored, or it is still awaited.
CacheSound ==
  \A k \in Corpora :
    IF k \in cached THEN embedded[k] = Chunk(k)
    ELSE embedded[k] = partial[k]
           \union UNION {Answered(e) : e \in {f \in Retrievals : CorpusOf[f] = k}}

\* Who holds a slot of a semaphore.
Seated      == {e \in Retrievals : query[e] \notin {"idle", "asked"}}
QueriesSent == {e \in Retrievals : query[e] = "sent"}
BatchesSent == UNION {{e} \X {b \in batches[e] : b.step \in UnderWay} : e \in Retrievals}

\* Every slot is free or somebody's: whoever fails or is cancelled, with any of the
\* requests of its two tasks under way, gives back what it holds, and nothing twice.
SlotsConserved ==
  /\ retrievalFree + Cardinality(Seated) = RetrievalSlots
  /\ embeddingFree + Cardinality(QueriesSent) + Cardinality(BatchesSent) = EmbeddingSlots

\* A retrieval ends, with an answer or an error: no semaphore slot and no lock is
\* lost to an attempt that failed or was cancelled.
RetrievalEnds == \A e \in Retrievals : query[e] # "idle" ~> query[e] = "idle"
=============================================================================
