---------------------------- MODULE SharedProofs -----------------------------
(***************************************************************************)
(* Why what callers share can be trusted, for any number of them: the      *)
(* document vectors of an evaluation (VectorCache: the lock of a corpus is *)
(* held for as long as its vectors are being embedded, and what is planned *)
(* has no vector yet, so only a close() that fails or is cancelled behind  *)
(* an answer makes work repeat), the quota of a provider (RateLimit), and  *)
(* the chunking worker (ChunkWorker: whoever leaves in the middle of a     *)
(* stream, the next caller gets answers to its own request).               *)
(***************************************************************************)
EXTENDS VectorCache, RateLimit, ChunkWorker, ListsProofs

-----------------------------------------------------------------------------
(* The vectors of a corpus                                                   *)

\* The part of the type invariant that the proof needs.  (The semaphores' bounds
\* rest on counting who holds a slot, and play no part in it.)
CacheTypes ==
  /\ cached \subseteq Corpora
  /\ partial \in [Corpora -> SUBSET AllChunks]
  /\ embedded \in [Corpora -> SUBSET AllChunks]
  /\ owner \in [Corpora -> Retrievals \union {Unowned}]
  /\ query \in [Retrievals -> {"idle", "asked", "pending", "sent", "ok"}]
  /\ documents \in [Retrievals -> {"idle", "pending", "embedding", "ok"}]
  /\ batches \in [Retrievals -> SUBSET Batch]

\* Who embeds a corpus holds its lock, and its vectors are not shared yet.
LockHeld ==
  \A e \in Retrievals : documents[e] = "embedding" => /\ owner[CorpusOf[e]] = e
                                                      /\ CorpusOf[e] \notin cached

\* Batches belong to an attempt that embeds.
BatchesOwned == \A e \in Retrievals : batches[e] # {} => documents[e] = "embedding"

\* The batches of an attempt are chunks of its corpus without a vector, each in one batch.
BatchesApart ==
  \A e \in Retrievals : \A b \in batches[e] :
    /\ b.chunks \subseteq Chunk(CorpusOf[e])
    /\ b.chunks \intersect partial[CorpusOf[e]] = {}
    /\ \A c \in batches[e] : b # c => b.chunks \intersect c.chunks = {}

\* The two tasks of an attempt start when it has its slot.
TasksTogether ==
  \A e \in Retrievals : query[e] \in {"idle", "asked"} => documents[e] = "idle"

\* Answered, and what CacheSound joins over a corpus, of the batches bs.
AnsweredIn(s)    == UNION {b.chunks : b \in {c \in s : c.step = "answered"}}
AwaitedIn(bs, k) == UNION {AnsweredIn(bs[f]) : f \in {g \in Retrievals : CorpusOf[g] = k}}

\* CacheSound of these values of the variables.
SoundOf(shared, stored, answered, bs) ==
  \A k \in Corpora : IF k \in shared THEN answered[k] = Chunk(k)
                     ELSE answered[k] = stored[k] \union AwaitedIn(bs, k)

CacheInv == /\ CacheTypes /\ TasksTogether /\ LockHeld /\ BatchesOwned /\ BatchesApart
            /\ SoundOf(cached, partial, embedded, batches)

-----------------------------------------------------------------------------
\* What Plan returns, however the chunks are cut: batches of missing chunks, apart.
LEMMA PlanIsMissing ==
  ASSUME NEW k \in Corpora, NEW done, NEW size
  PROVE  /\ Plan(k, done, size) \subseteq Batch
         /\ \A b \in Plan(k, done, size) : b.chunks \subseteq Chunk(k) \ done /\ b.step = "waiting"
         /\ \A b, c \in Plan(k, done, size) : b # c => b.chunks \intersect c.chunks = {}
  <1>1. \E f : Plan(k, done, size) =
                 {[chunks |-> {i \in Chunk(k) \ done : f[i] = s}, step |-> "waiting"] :
                    s \in {f[i] : i \in Chunk(k) \ done}}
    BY DEF Plan
  <1>2. PICK f : Plan(k, done, size) =
                 {[chunks |-> {i \in Chunk(k) \ done : f[i] = s}, step |-> "waiting"] :
                    s \in {f[i] : i \in Chunk(k) \ done}}
    BY <1>1
  <1>3. Chunk(k) \subseteq AllChunks
    BY DEF AllChunks
  <1> DEFINE Missing == Chunk(k) \ done
  <1>4. \A b \in Plan(k, done, size) :
          \E s : b = [chunks |-> {i \in Missing : f[i] = s}, step |-> "waiting"]
    BY <1>2
  <1>5. ASSUME NEW b \in Plan(k, done, size)
        PROVE  b \in Batch /\ b.chunks \subseteq Missing /\ b.step = "waiting"
    <2>1. PICK s : b = [chunks |-> {i \in Missing : f[i] = s}, step |-> "waiting"]
      BY <1>4
    <2>2. b.chunks = {i \in Missing : f[i] = s}
      BY <2>1
    <2>3. {i \in Missing : f[i] = s} \in SUBSET AllChunks
      BY <1>3
    <2>4. QED
      BY <2>1, <2>2, <2>3 DEF Batch
  <1>6. ASSUME NEW b \in Plan(k, done, size), NEW c \in Plan(k, done, size), b # c
        PROVE  b.chunks \intersect c.chunks = {}
    <2>1. PICK s : b = [chunks |-> {i \in Missing : f[i] = s}, step |-> "waiting"]
      BY <1>4
    <2>2. PICK t : c = [chunks |-> {i \in Missing : f[i] = t}, step |-> "waiting"]
      BY <1>4
    <2>3. s # t
      BY <1>6, <2>1, <2>2
    <2>4. b.chunks = {i \in Missing : f[i] = s} /\ c.chunks = {i \in Missing : f[i] = t}
      BY <2>1, <2>2
    <2>5. QED
      BY <2>3, <2>4
  <1>7. QED
    BY <1>5, <1>6

-----------------------------------------------------------------------------
\* Only one attempt has batches of a corpus, and what is awaited for the others is elsewhere.
LEMMA AwaitedHere ==
  ASSUME NEW bs, NEW e \in Retrievals,
         \A f \in Retrievals \ {e} : CorpusOf[f] = CorpusOf[e] => bs[f] = {}
  PROVE  AwaitedIn(bs, CorpusOf[e]) = AnsweredIn(bs[e])
  <1>1. \A f \in Retrievals \ {e} : CorpusOf[f] = CorpusOf[e] => AnsweredIn(bs[f]) = {}
    BY DEF AnsweredIn
  <1> QED BY <1>1 DEF AwaitedIn

LEMMA AwaitedElsewhere ==
  ASSUME NEW bs, NEW cs, NEW e \in Retrievals, NEW k, CorpusOf[e] # k,
         \A f \in Retrievals \ {e} : bs[f] = cs[f]
  PROVE  AwaitedIn(bs, k) = AwaitedIn(cs, k)
  BY DEF AwaitedIn

\* A step of one attempt leaves the other corpora as they are.
LEMMA SoundStep ==
  ASSUME CacheInv, NEW e \in Retrievals,
         \A f \in Retrievals \ {e} : batches'[f] = batches[f],
         \A j \in Corpora \ {CorpusOf[e]} :
           /\ j \in cached' <=> j \in cached
           /\ partial'[j] = partial[j] /\ embedded'[j] = embedded[j],
         IF CorpusOf[e] \in cached' THEN embedded'[CorpusOf[e]] = Chunk(CorpusOf[e])
         ELSE embedded'[CorpusOf[e]] = partial'[CorpusOf[e]] \union AwaitedIn(batches', CorpusOf[e])
  PROVE  SoundOf(cached', partial', embedded', batches')
  <1>1. \A j \in Corpora \ {CorpusOf[e]} : AwaitedIn(batches', j) = AwaitedIn(batches, j)
    BY AwaitedElsewhere
  <1> QED BY <1>1 DEF CacheInv, SoundOf

\* Who embeds a corpus is the only one to have batches of it.
LEMMA OneEmbeds ==
  ASSUME CacheInv, NEW e \in Retrievals, documents[e] = "embedding"
  PROVE  /\ CorpusOf[e] \in Corpora /\ owner[CorpusOf[e]] = e /\ CorpusOf[e] \notin cached
         /\ \A f \in Retrievals \ {e} :
              CorpusOf[f] = CorpusOf[e] => documents[f] # "embedding" /\ batches[f] = {}
         /\ embedded[CorpusOf[e]] = partial[CorpusOf[e]] \union AnsweredIn(batches[e])
  <1>1. CorpusOf[e] \in Corpora /\ owner[CorpusOf[e]] = e /\ CorpusOf[e] \notin cached
    BY CacheAssumption DEF CacheInv, LockHeld
  <1>2. \A f \in Retrievals \ {e} :
          CorpusOf[f] = CorpusOf[e] => documents[f] # "embedding" /\ batches[f] = {}
    BY <1>1 DEF CacheInv, LockHeld, BatchesOwned
  <1>3. AwaitedIn(batches, CorpusOf[e]) = AnsweredIn(batches[e])
    BY <1>2, AwaitedHere
  <1> QED BY <1>1, <1>2, <1>3 DEF CacheInv, SoundOf

LEMMA Initially == ASSUME CacheInit PROVE CacheInv
  <1>1. CacheTypes
    BY DEF CacheInit, CacheTypes
  <1>2. TasksTogether /\ LockHeld /\ BatchesOwned /\ BatchesApart
    BY CacheAssumption DEF CacheInit, TasksTogether, LockHeld, BatchesOwned, BatchesApart
  <1>3. \A e \in Retrievals : AnsweredIn(batches[e]) = {}
    BY DEF CacheInit, AnsweredIn
  <1>4. SoundOf(cached, partial, embedded, batches)
    BY <1>3 DEF CacheInit, SoundOf, AwaitedIn
  <1>5. QED
    BY <1>1, <1>2, <1>4 DEF CacheInv

\* However an attempt leaves, the other attempts of its corpus find the lock free
\* and every vector that was stored.
LEMMA LeaveKeeps ==
  ASSUME CacheInv, NEW e \in Retrievals, Unwind(e), UNCHANGED <<cached, partial>>
  PROVE  CacheInv'
  <1> USE CacheAssumption
  <1> DEFINE k == CorpusOf[e]
  <1>0. k \in Corpora /\ Answered(e) = AnsweredIn(batches[e])
    BY DEF Answered, AnsweredIn
  <1>1. CacheTypes'
    BY <1>0 DEF CacheInv, CacheTypes, Unwind
  <1>2. /\ documents'[e] = "idle" /\ batches'[e] = {}
        /\ \A f \in Retrievals \ {e} : documents'[f] = documents[f] /\ batches'[f] = batches[f]
    BY DEF CacheInv, CacheTypes, Unwind
  <1>3. \A j \in Corpora : owner'[j] = owner[j] \/ owner[j] = e
    BY DEF CacheInv, CacheTypes, Unwind
  <1>4. LockHeld'
    BY <1>2, <1>3 DEF CacheInv, LockHeld
  <1>5. BatchesOwned'
    BY <1>2 DEF CacheInv, BatchesOwned
  <1>6. BatchesApart'
    BY <1>2 DEF CacheInv, BatchesApart
  <1>7. TasksTogether'
    BY DEF CacheInv, CacheTypes, TasksTogether, Unwind
  <1>8. /\ embedded'[k] = embedded[k] \ AnsweredIn(batches[e])
        /\ \A j \in Corpora \ {k} : embedded'[j] = embedded[j]
    BY <1>0 DEF CacheInv, CacheTypes, Unwind
  <1>9. SoundOf(cached', partial', embedded', batches')
    <2>1. CASE documents[e] = "embedding"
      <3>0. \A f \in Retrievals \ {e} : CorpusOf[f] = CorpusOf[e] => batches'[f] = {}
        BY <1>2, <2>1, OneEmbeds
      <3>1. AwaitedIn(batches', k) = AnsweredIn(batches'[e])
        BY ONLY <3>0, AwaitedHere
      <3>2. AnsweredIn(batches'[e]) = {}
        BY <1>2 DEF AnsweredIn
      <3>3. partial[k] \intersect AnsweredIn(batches[e]) = {}
        BY DEF CacheInv, BatchesApart, AnsweredIn
      <3>4. embedded'[k] = partial[k] /\ k \notin cached
        BY <1>8, <2>1, <3>3, OneEmbeds
      <3> QED BY <1>2, <1>8, <3>1, <3>2, <3>4, SoundStep
    <2>2. CASE documents[e] # "embedding"
      <3>1. batches[e] = {}
        BY <2>2 DEF CacheInv, BatchesOwned
      <3>2. embedded'[k] = embedded[k]
        BY <1>8, <3>1 DEF AnsweredIn
      <3>3. AwaitedIn(batches', k) = AwaitedIn(batches, k)
        <4>1. \A f \in Retrievals : batches'[f] = batches[f]
          BY ONLY <1>2, <3>1
        <4> QED BY ONLY <4>1 DEF AwaitedIn
      <3> QED BY <1>0, <1>2, <1>8, <3>2, <3>3, SoundStep DEF CacheInv, SoundOf
    <2> QED BY <2>1, <2>2
  <1>10. QED
    BY <1>1, <1>4, <1>5, <1>6, <1>7, <1>9 DEF CacheInv

\* The lock is taken: the plan is what the partial vectors leave to be done.
LEMMA PlanKeeps ==
  ASSUME CacheInv, NEW e \in Retrievals, OwnCorpus(e)
  PROVE  CacheInv'
  <1> USE CacheAssumption
  <1> DEFINE k == CorpusOf[e]
             plan == Plan(k, partial[k], batchSize[k])
  <1>1. k \in Corpora /\ owner[k] = Unowned /\ documents[e] = "pending"
    BY DEF OwnCorpus
  <1>2. UNCHANGED <<cached, partial, embedded>>
    BY DEF OwnCorpus
  <1>3. TasksTogether'
    BY <1>1, <1>2 DEF OwnCorpus, CacheInv, CacheTypes, TasksTogether
  <1>4. batches[e] = {}
    BY <1>1 DEF CacheInv, BatchesOwned
  <1>5. CASE k \in cached
    <2>1. documents' = [documents EXCEPT ![e] = "ok"] /\ UNCHANGED <<owner, batches, query>>
      BY <1>5 DEF OwnCorpus
    <2>2. CacheTypes'
      BY <1>2, <2>1 DEF CacheInv, CacheTypes
    <2>3. LockHeld' /\ BatchesOwned' /\ BatchesApart'
      BY <1>2, <1>4, <2>1 DEF CacheInv, CacheTypes, LockHeld, BatchesOwned, BatchesApart
    <2>4. SoundOf(cached', partial', embedded', batches')
      BY <1>2, <2>1 DEF CacheInv
    <2>5. QED
      BY <1>3, <2>2, <2>3, <2>4 DEF CacheInv
  <1>6. CASE k \notin cached
    <2>1. /\ documents' = [documents EXCEPT ![e] = "embedding"]
          /\ owner' = [owner EXCEPT ![k] = e]
          /\ batches' = [batches EXCEPT ![e] = plan]
          /\ UNCHANGED query
      BY <1>6 DEF OwnCorpus
    <2>3. /\ plan \subseteq Batch
          /\ \A b \in plan : b.chunks \subseteq Chunk(k) \ partial[k] /\ b.step = "waiting"
          /\ \A b, c \in plan : b # c => b.chunks \intersect c.chunks = {}
      BY <1>1, PlanIsMissing
    <2> HIDE DEF plan
    <2>4. CacheTypes'
      BY <1>1, <1>2, <2>1, <2>3 DEF CacheInv, CacheTypes
    <2>5. \A f \in Retrievals : documents[f] = "embedding" => CorpusOf[f] # k
      BY <1>1 DEF CacheInv, LockHeld
    <2>6. LockHeld'
      BY <1>1, <1>2, <1>6, <2>1, <2>5 DEF CacheInv, CacheTypes, LockHeld
    <2>7. BatchesOwned'
      BY <2>1 DEF CacheInv, CacheTypes, BatchesOwned
    <2>8. /\ \A f \in Retrievals \ {e} : batches'[f] = batches[f]
          /\ batches'[e] = plan
      BY <2>1 DEF CacheInv, CacheTypes
    <2>9. BatchesApart'
      BY <1>2, <2>3, <2>8 DEF CacheInv, BatchesApart
    <2>10. SoundOf(cached', partial', embedded', batches')
      <3>1. AnsweredIn(batches'[e]) = {} /\ AnsweredIn(batches[e]) = {}
        BY <1>4, <2>3, <2>8 DEF AnsweredIn
      <3>2. AwaitedIn(batches', k) = AwaitedIn(batches, k)
        BY <2>8, <3>1 DEF AwaitedIn
      <3>3. embedded[k] = partial[k] \union AwaitedIn(batches, k)
        BY <1>1, <1>6 DEF CacheInv, SoundOf
      <3> QED BY <1>2, <1>6, <2>8, <3>2, <3>3, SoundStep
    <2>11. QED
      BY <1>3, <2>4, <2>6, <2>7, <2>9, <2>10 DEF CacheInv
  <1>7. QED
    BY <1>5, <1>6

\* A batch takes its next step: its chunks stay where they are, and its vectors are
\* awaited from the answer until they are dropped.
LEMMA BatchKeeps ==
  ASSUME CacheInv, NEW e \in Retrievals, NEW b \in batches[e], NEW c \in Batch,
         c.chunks = b.chunks,
         batches' = [batches EXCEPT ![e] = (@ \ {b}) \union {c}],
         UNCHANGED <<cached, partial, owner, query, documents>>,
         embedded' = [embedded EXCEPT ![CorpusOf[e]] =
           IF c.step = "answered" THEN @ \union b.chunks
           ELSE IF b.step = "answered" THEN @ \ b.chunks ELSE @]
  PROVE  CacheInv'
  <1> USE CacheAssumption
  <1> DEFINE k == CorpusOf[e]
  <1>0. k \in Corpora /\ b \in Batch /\ b.chunks \subseteq AllChunks
    BY DEF CacheInv, CacheTypes, Batch
  <1>1. CacheTypes'
    BY <1>0 DEF CacheInv, CacheTypes
  <1>2. /\ batches'[e] = (batches[e] \ {b}) \union {c}
        /\ \A f \in Retrievals \ {e} : batches'[f] = batches[f]
        /\ \A j \in Corpora \ {k} : embedded'[j] = embedded[j]
        /\ embedded'[k] = IF c.step = "answered" THEN embedded[k] \union b.chunks
                          ELSE IF b.step = "answered" THEN embedded[k] \ b.chunks ELSE embedded[k]
    BY <1>0 DEF CacheInv, CacheTypes
  <1>3. TasksTogether' /\ LockHeld'
    BY DEF CacheInv, TasksTogether, LockHeld
  <1>4. BatchesOwned'
    BY <1>2 DEF CacheInv, BatchesOwned
  <1>5. BatchesApart'
    <2>1. ASSUME NEW f \in Retrievals \ {e}, NEW d \in batches'[f]
          PROVE  /\ d.chunks \subseteq Chunk(CorpusOf[f])
                 /\ d.chunks \intersect partial'[CorpusOf[f]] = {}
                 /\ \A g \in batches'[f] : d # g => d.chunks \intersect g.chunks = {}
      BY <1>2 DEF CacheInv, BatchesApart
    <2>2. ASSUME NEW d \in batches'[e]
          PROVE  /\ d.chunks \subseteq Chunk(CorpusOf[e])
                 /\ d.chunks \intersect partial'[CorpusOf[e]] = {}
                 /\ \A g \in batches'[e] : d # g => d.chunks \intersect g.chunks = {}
      BY <1>2 DEF CacheInv, BatchesApart
    <2>3. QED
      BY <2>1, <2>2 DEF BatchesApart
  <1>6. SoundOf(cached', partial', embedded', batches')
    <2> DEFINE Rest == AnsweredIn(batches[e] \ {b})
    <2>0. documents[e] = "embedding"
      BY DEF CacheInv, BatchesOwned
    <2>1. /\ k \notin cached
          /\ \A f \in Retrievals \ {e} : CorpusOf[f] = k => batches[f] = {}
          /\ embedded[k] = partial[k] \union AnsweredIn(batches[e])
      BY <2>0, OneEmbeds
    <2>2. AwaitedIn(batches', k) = AnsweredIn(batches'[e])
      <3>1. \A f \in Retrievals \ {e} : CorpusOf[f] = CorpusOf[e] => batches'[f] = {}
        BY ONLY <1>2, <2>1
      <3> QED BY ONLY <3>1, AwaitedHere
    <2>3. /\ AnsweredIn(batches[e]) = Rest \union (IF b.step = "answered" THEN b.chunks ELSE {})
          /\ AnsweredIn(batches'[e]) = Rest \union (IF c.step = "answered" THEN b.chunks ELSE {})
      BY <1>2 DEF AnsweredIn
    <2>4. b.chunks \intersect Rest = {} /\ b.chunks \intersect partial[k] = {}
      BY DEF CacheInv, BatchesApart, AnsweredIn
    <2> HIDE DEF Rest
    <2>5. embedded'[k] = partial'[k] \union AwaitedIn(batches', k)
      <3>1. /\ embedded'[k] = IF c.step = "answered" THEN embedded[k] \union b.chunks
                              ELSE IF b.step = "answered" THEN embedded[k] \ b.chunks ELSE embedded[k]
            /\ embedded[k] = partial[k] \union AnsweredIn(batches[e]) /\ partial'[k] = partial[k]
        BY <1>2, <2>1
      <3> QED BY ONLY <2>2, <2>3, <2>4, <3>1
    <2>6. QED
      BY <1>2, <2>1, <2>5, SoundStep
  <1>7. QED
    BY <1>1, <1>3, <1>4, <1>5, <1>6 DEF CacheInv

\* The vectors of a batch are stored in the step that takes it off the plan.
LEMMA AnswerKeeps ==
  ASSUME CacheInv, NEW e \in Retrievals, NEW b \in batches[e], BatchStored(e, b)
  PROVE  CacheInv'
  <1> USE CacheAssumption
  <1> DEFINE k == CorpusOf[e]
  <1>1. /\ partial' = [partial EXCEPT ![k] = @ \union b.chunks]
        /\ batches' = [batches EXCEPT ![e] = @ \ {b}]
        /\ b.step = "answered"
        /\ UNCHANGED <<cached, owner, query, documents, embedded>>
    BY DEF BatchStored
  <1>2. /\ k \in Corpora /\ documents[e] = "embedding" /\ owner[k] = e /\ k \notin cached
        /\ \A f \in Retrievals \ {e} : CorpusOf[f] = k => batches[f] = {}
        /\ embedded[k] = partial[k] \union AnsweredIn(batches[e])
    <2>1. documents[e] = "embedding"
      BY DEF CacheInv, BatchesOwned
    <2> QED BY <2>1, OneEmbeds
  <1>3. b \in Batch /\ b.chunks \subseteq AllChunks
    BY DEF CacheInv, CacheTypes, Batch
  <1>4. CacheTypes'
    BY <1>1, <1>3 DEF CacheInv, CacheTypes
  <1>5. TasksTogether' /\ LockHeld'
    BY <1>1 DEF CacheInv, TasksTogether, LockHeld
  <1>6. /\ batches'[e] = batches[e] \ {b}
        /\ \A f \in Retrievals \ {e} : batches'[f] = batches[f]
        /\ partial'[k] = partial[k] \union b.chunks
        /\ \A j \in Corpora \ {k} : partial'[j] = partial[j]
    BY <1>1, <1>2 DEF CacheInv, CacheTypes
  <1>7. BatchesOwned'
    BY <1>1, <1>6 DEF CacheInv, BatchesOwned
  <1>8. BatchesApart'
    <2>2. ASSUME NEW f \in Retrievals \ {e}, NEW d \in batches'[f]
          PROVE  /\ d.chunks \subseteq Chunk(CorpusOf[f])
                 /\ d.chunks \intersect partial'[CorpusOf[f]] = {}
                 /\ \A g \in batches'[f] : d # g => d.chunks \intersect g.chunks = {}
      BY <1>2, <1>6 DEF CacheInv, BatchesApart
    <2>3. ASSUME NEW d \in batches'[e]
          PROVE  /\ d.chunks \subseteq Chunk(CorpusOf[e])
                 /\ d.chunks \intersect partial'[CorpusOf[e]] = {}
                 /\ \A g \in batches'[e] : d # g => d.chunks \intersect g.chunks = {}
      BY <1>6 DEF CacheInv, BatchesApart
    <2>4. QED
      BY <2>2, <2>3 DEF BatchesApart
  <1>9. SoundOf(cached', partial', embedded', batches')
    <2>1. AwaitedIn(batches', k) = AnsweredIn(batches'[e])
      <3>1. \A f \in Retrievals \ {e} : CorpusOf[f] = CorpusOf[e] => batches'[f] = {}
        BY ONLY <1>2, <1>6
      <3> QED BY ONLY <3>1, AwaitedHere
    <2>2. AnsweredIn(batches[e]) = AnsweredIn(batches'[e]) \union b.chunks
      BY <1>1, <1>6 DEF AnsweredIn
    <2>3. embedded'[k] = partial'[k] \union AwaitedIn(batches', k)
      <3>1. embedded'[k] = partial[k] \union AnsweredIn(batches[e]) /\ partial'[k] = partial[k] \union b.chunks
        BY <1>1, <1>2, <1>6
      <3> QED BY ONLY <2>1, <2>2, <3>1
    <2> QED BY <1>1, <1>2, <1>6, <2>3, SoundStep
  <1>10. QED
    BY <1>4, <1>5, <1>7, <1>8, <1>9 DEF CacheInv

\* The vectors become shared when every chunk has one.
LEMMA StoreKeeps ==
  ASSUME CacheInv, NEW e \in Retrievals, StoreVectors(e)
  PROVE  CacheInv'
  <1> USE CacheAssumption
  <1> DEFINE k == CorpusOf[e]
  <1>1. /\ cached' = cached \union {k}
        /\ partial' = [partial EXCEPT ![k] = {}]
        /\ owner' = [owner EXCEPT ![k] = Unowned]
        /\ documents' = [documents EXCEPT ![e] = "ok"]
        /\ batches' = [batches EXCEPT ![e] = {}]
        /\ UNCHANGED <<embedded, query>>
        /\ documents[e] = "embedding" /\ partial[k] = Chunk(k)
    BY DEF StoreVectors, Gathered
  <1>2. /\ k \in Corpora /\ owner[k] = e /\ k \notin cached /\ batches[e] = {}
        /\ embedded[k] = partial[k] \union AnsweredIn(batches[e])
    BY <1>1, OneEmbeds DEF StoreVectors, Gathered
  <1>3. CacheTypes'
    BY <1>1, <1>2 DEF CacheInv, CacheTypes
  <1>4. LockHeld'
    <2>1. \A f \in Retrievals \ {e} : documents[f] = "embedding" => CorpusOf[f] # k
      BY <1>2 DEF CacheInv, LockHeld
    <2>2. QED
      BY <1>1, <1>2, <2>1 DEF CacheInv, CacheTypes, LockHeld
  <1>5. BatchesOwned' /\ BatchesApart'
    BY <1>1 DEF CacheInv, CacheTypes, BatchesOwned, BatchesApart
  <1>6. TasksTogether'
    BY <1>1, <1>2 DEF CacheInv, CacheTypes, TasksTogether
  <1>7. SoundOf(cached', partial', embedded', batches')
    <2>1. AnsweredIn(batches[e]) = {}
      BY <1>2 DEF AnsweredIn
    <2>2. embedded'[k] = Chunk(k) /\ k \in cached'
      BY <1>1, <1>2, <2>1
    <2>3. /\ \A f \in Retrievals \ {e} : batches'[f] = batches[f]
          /\ \A j \in Corpora \ {k} : /\ j \in cached' <=> j \in cached
                                     /\ partial'[j] = partial[j] /\ embedded'[j] = embedded[j]
      BY <1>1 DEF CacheInv, CacheTypes
    <2> QED BY <2>2, <2>3, SoundStep
  <1>8. QED
    BY <1>3, <1>4, <1>5, <1>6, <1>7 DEF CacheInv

LEMMA StepKeeps == ASSUME CacheInv, [CacheNext]_cacheVars PROVE CacheInv'
  <1>1. ASSUME NEW e \in Retrievals,
               DocumentsFail(e) \/ QueryFails(e) \/ Ranked(e) \/ CancelRetrieval(e)
        PROVE  CacheInv'
    BY <1>1, LeaveKeeps DEF DocumentsFail, QueryFails, Ranked, CancelRetrieval
  <1>2. ASSUME NEW e \in Retrievals, OwnCorpus(e) PROVE CacheInv'
    BY <1>2, PlanKeeps
  <1>3. ASSUME NEW e \in Retrievals, StoreVectors(e) PROVE CacheInv'
    BY <1>3, StoreKeeps
  <1>4. ASSUME NEW e \in Retrievals, NEW b \in batches[e],
               \/ SendBatch(e, b) \/ BatchAnswered(e, b)
               \/ BatchRefused(e, b) \/ BatchRaises(e, b)
        PROVE  CacheInv'
    <2>0. b \in Batch /\ embedded \in [Corpora -> SUBSET AllChunks] /\ CorpusOf[e] \in Corpora
      BY CacheAssumption DEF CacheInv, CacheTypes
    <2>1. ASSUME NEW step \in {"waiting", "failed"} \union UnderWay, Becomes(e, b, step),
                 UNCHANGED <<cached, partial, owner, query, documents>>,
                 embedded' = [embedded EXCEPT ![CorpusOf[e]] =
                   IF step = "answered" THEN @ \union b.chunks
                   ELSE IF b.step = "answered" THEN @ \ b.chunks ELSE @]
          PROVE  CacheInv'
      <3> DEFINE c == [b EXCEPT !.step = step]
      <3>1. c \in Batch /\ c.chunks = b.chunks /\ c.step = step
        BY <2>0 DEF Batch
      <3>2. batches' = [batches EXCEPT ![e] = (@ \ {b}) \union {c}]
        BY <2>1 DEF Becomes
      <3> HIDE DEF c
      <3> QED BY <2>1, <3>1, <3>2, BatchKeeps
    <2>2. CASE SendBatch(e, b)
      BY <2>0, <2>1, <2>2 DEF SendBatch, UnderWay
    <2>3. CASE BatchAnswered(e, b)
      BY <2>1, <2>3 DEF BatchAnswered, UnderWay
    <2>4. CASE BatchRefused(e, b)
      BY <2>0, <2>1, <2>4 DEF BatchRefused, UnderWay
    <2>5. CASE BatchRaises(e, b)
      BY <2>0, <2>1, <2>5 DEF BatchRaises
    <2> QED BY <1>4, <2>2, <2>3, <2>4, <2>5
  <1>6. ASSUME NEW e \in Retrievals, NEW b \in batches[e], BatchStored(e, b) PROVE CacheInv'
    BY <1>6, AnswerKeeps
  <1>7. ASSUME NEW e \in Retrievals, Admit(e) PROVE CacheInv'
    <2>1. documents[e] = "idle" /\ batches[e] = {}
      BY <1>7 DEF Admit, CacheInv, TasksTogether, BatchesOwned
    <2>2. /\ query' = [query EXCEPT ![e] = "pending"]
          /\ documents' = [documents EXCEPT ![e] = "pending"]
          /\ UNCHANGED <<cached, partial, owner, batches, embedded>>
      BY <1>7 DEF Admit
    <2>3. CacheTypes' /\ TasksTogether'
      BY <2>2 DEF CacheInv, CacheTypes, TasksTogether
    <2>4. LockHeld' /\ BatchesOwned'
      BY <2>1, <2>2 DEF CacheInv, CacheTypes, LockHeld, BatchesOwned
    <2>5. BatchesApart' /\ SoundOf(cached', partial', embedded', batches')
      BY <2>2 DEF CacheInv, BatchesApart
    <2>6. QED
      BY <2>3, <2>4, <2>5 DEF CacheInv
  <1>8. ASSUME NEW e \in Retrievals, Retrieve(e) \/ SendQuery(e) \/ QuerySucceeds(e) PROVE CacheInv'
    <2>1. UNCHANGED <<cached, partial, owner, documents, batches, embedded>>
      BY <1>8 DEF Retrieve, SendQuery, QuerySucceeds
    <2>2. CacheTypes' /\ TasksTogether'
      BY <1>8, <2>1 DEF Retrieve, SendQuery, QuerySucceeds, CacheInv, CacheTypes, TasksTogether
    <2>3. /\ LockHeld' /\ BatchesOwned' /\ BatchesApart'
          /\ SoundOf(cached', partial', embedded', batches')
      BY <2>1 DEF CacheInv, LockHeld, BatchesOwned, BatchesApart
    <2>4. QED
      BY <2>2, <2>3 DEF CacheInv
  <1>9. CASE UNCHANGED cacheVars
    BY <1>9 DEF cacheVars, CacheInv, CacheTypes, TasksTogether, LockHeld, BatchesOwned, BatchesApart
  <1>10. QED
    BY <1>1, <1>2, <1>3, <1>4, <1>6, <1>7, <1>8, <1>9 DEF CacheNext, CacheStep

\* The invariant behind the two theorems that follow.
LEMMA Invariant == CacheSpec => []CacheInv
  <1>1. CacheInit => CacheInv
    BY Initially
  <1>2. CacheInv /\ [CacheNext]_cacheVars => CacheInv'
    BY StepKeeps
  <1>3. QED
    BY <1>1, <1>2, PTL DEF CacheSpec

\* Vectors of a corpus are shared only when all of its chunks have one, and of an
\* unfinished corpus every answered vector is stored or waits for its close(), where
\* alone it can be dropped (_cached_document_vectors, _embed_documents).
THEOREM Sound == CacheSpec => []CacheSound
  <1>1. CacheInv => CacheSound
    <2>1. \A e \in Retrievals : Answered(e) = AnsweredIn(batches[e])
      BY DEF Answered, AnsweredIn
    <2> QED BY <2>1 DEF CacheInv, SoundOf, AwaitedIn, CacheSound
  <1>2. QED
    BY <1>1, Invariant, PTL

\* No chunk of a corpus is sent to the provider again once its vector was answered,
\* unless it was dropped while the close() of that request was awaited, and two examples
\* never embed one corpus side by side (_embed_documents under the corpus's lock).
THEOREM Once == CacheSpec => []EmbeddedOnce
  <1>1. CacheInv => EmbeddedOnce
    <2> SUFFICES ASSUME CacheInv, NEW e \in Retrievals, NEW b \in batches[e]
                 PROVE  /\ b.step # "answered" => b.chunks \intersect embedded[CorpusOf[e]] = {}
                        /\ \A f \in Retrievals \ {e} : CorpusOf[f] = CorpusOf[e] => batches[f] = {}
      BY DEF EmbeddedOnce
    <2>1. documents[e] = "embedding"
      BY DEF CacheInv, BatchesOwned
    <2>2. b.chunks \intersect partial[CorpusOf[e]] = {}
      BY DEF CacheInv, BatchesApart
    <2>3. b.step # "answered" => b.chunks \intersect AnsweredIn(batches[e]) = {}
      BY DEF CacheInv, BatchesApart, AnsweredIn
    <2> QED BY <2>1, <2>2, <2>3, OneEmbeds
  <1>2. QED
    BY <1>1, Invariant, PTL

-----------------------------------------------------------------------------
(* The slots of the two semaphores                                           *)

\* No planned batch is empty, so that two of them are never the same record; and the
\* slots that are not free have been counted.
SlotInv ==
  /\ batchSize \in [Corpora -> 1 .. MaxBatch]
  /\ planned \in [Retrievals -> 0 .. MaxBatch]
  /\ calls \in [Retrievals -> 0 .. MaxCalls]
  /\ \A e \in Retrievals : \A b \in batches[e] : b.chunks # {}
  /\ retrievalFree \in Nat /\ embeddingFree \in Nat
  /\ IsFiniteSet(Seated) /\ IsFiniteSet(QueriesSent) /\ IsFiniteSet(BatchesSent)
  /\ SlotsConserved

\* A new plan has something to do in each batch, and nothing under way.
LEMMA PlanUnsent ==
  ASSUME NEW k \in Corpora, NEW done, NEW size, NEW b \in Plan(k, done, size)
  PROVE  b.chunks # {} /\ b.step \notin UnderWay
  <1>1. \E f : Plan(k, done, size) =
                 {[chunks |-> {i \in Chunk(k) \ done : f[i] = s}, step |-> "waiting"] :
                    s \in {f[i] : i \in Chunk(k) \ done}}
    BY DEF Plan
  <1>2. PICK f : Plan(k, done, size) =
                 {[chunks |-> {i \in Chunk(k) \ done : f[i] = s}, step |-> "waiting"] :
                    s \in {f[i] : i \in Chunk(k) \ done}}
    BY <1>1
  <1>3. PICK s \in {f[i] : i \in Chunk(k) \ done} :
          b = [chunks |-> {i \in Chunk(k) \ done : f[i] = s}, step |-> "waiting"]
    BY <1>2
  <1>4. PICK j \in Chunk(k) \ done : s = f[j]
    BY <1>3
  <1>5. b.chunks = {i \in Chunk(k) \ done : f[i] = s} /\ b.step = "waiting"
    BY <1>3
  <1> QED BY <1>4, <1>5 DEF UnderWay

\* Pairs with one first component are as many as their second ones.
LEMMA ColumnSize ==
  ASSUME NEW e, NEW S, IsFiniteSet({e} \X S)
  PROVE  IsFiniteSet(S) /\ Cardinality(S) = Cardinality({e} \X S)
  <1> DEFINE f == [p \in {e} \X S |-> p[2]]
  <1>1. f \in Bijection({e} \X S, S)
    <2>1. f \in [{e} \X S -> S]
      OBVIOUS
    <2>2. \A p, q \in {e} \X S : f[p] = f[q] => p = q
      OBVIOUS
    <2>3. \A x \in S : <<e, x>> \in {e} \X S /\ f[<<e, x>>] = x
      OBVIOUS
    <2> HIDE DEF f
    <2>4. f \in Injection({e} \X S, S)
      BY <2>1, <2>2 DEF Injection, IsInjective
    <2>5. f \in Surjection({e} \X S, S)
      BY <2>1, <2>3 DEF Surjection
    <2> QED BY <2>4, <2>5 DEF Bijection
  <1> QED BY <1>1, FS_Bijection DEF ExistsBijection

LEMMA SlotsStart == CacheInit => SlotInv
  <1> SUFFICES ASSUME CacheInit PROVE SlotInv
    OBVIOUS
  <1> USE CacheAssumption DEF CacheInit
  <1>1. Seated = {} /\ QueriesSent = {} /\ BatchesSent = {}
    BY DEF Seated, QueriesSent, BatchesSent
  <1> QED BY <1>1, FS_EmptySet DEF SlotInv, SlotsConserved

\* An attempt that leaves gives back what is counted for it.
LEMMA UnwindSlots ==
  ASSUME CacheInv, SlotInv, NEW e \in Retrievals, query[e] \notin {"idle", "asked"}, Unwind(e),
         UNCHANGED <<batchSize, calls>>
  PROVE  SlotInv'
  <1> USE CacheAssumption DEF CacheInv, CacheTypes, SlotInv
  <1> DEFINE Sent == {b \in batches[e] : b.step \in UnderWay}
             one  == IF query[e] = "sent" THEN 1 ELSE 0
  <1>1. /\ embeddingFree' = embeddingFree + (Cardinality(Sent) + one)
        /\ retrievalFree' = retrievalFree + 1
        /\ query' = [query EXCEPT ![e] = "idle"]
        /\ batches' = [batches EXCEPT ![e] = {}]
        /\ planned' = [planned EXCEPT ![e] = 0]
    BY DEF Unwind, Slots
  <1>2. Seated' = Seated \ {e} /\ e \in Seated
    BY <1>1 DEF Seated
  <1>3. QueriesSent' = QueriesSent \ {e}
    BY <1>1 DEF QueriesSent
  <1>4. BatchesSent' = BatchesSent \ ({e} \X Sent) /\ {e} \X Sent \subseteq BatchesSent
    BY <1>1 DEF BatchesSent
  <1>5. IsFiniteSet(Seated') /\ Cardinality(Seated') = Cardinality(Seated) - 1
    BY <1>2, FS_RemoveElement
  <1>6. IsFiniteSet(QueriesSent') /\ Cardinality(QueriesSent') = Cardinality(QueriesSent) - one
    <2>1. e \in QueriesSent <=> query[e] = "sent"
      BY DEF QueriesSent
    <2>2. Cardinality(QueriesSent) \in Nat
      BY FS_CardinalityType
    <2>3. /\ IsFiniteSet(QueriesSent \ {e})
          /\ Cardinality(QueriesSent \ {e}) =
               IF e \in QueriesSent THEN Cardinality(QueriesSent) - 1 ELSE Cardinality(QueriesSent)
      BY FS_RemoveElement
    <2> QED BY ONLY <1>3, <2>1, <2>2, <2>3
  <1>7. /\ IsFiniteSet(BatchesSent') /\ Cardinality(Sent) \in Nat
        /\ Cardinality(BatchesSent') = Cardinality(BatchesSent) - Cardinality(Sent)
    <2>1. IsFiniteSet({e} \X Sent)
      BY <1>4, FS_Subset
    <2>2. IsFiniteSet(Sent) /\ Cardinality(Sent) = Cardinality({e} \X Sent)
      BY <2>1, ColumnSize
    <2>3. BatchesSent \intersect ({e} \X Sent) = {e} \X Sent
      BY <1>4
    <2>4. Cardinality(Sent) \in Nat
      BY <2>2, FS_CardinalityType
    <2>5. /\ IsFiniteSet(BatchesSent \ ({e} \X Sent))
          /\ Cardinality(BatchesSent \ ({e} \X Sent)) =
               Cardinality(BatchesSent) - Cardinality(BatchesSent \intersect ({e} \X Sent))
      BY FS_Difference
    <2> QED BY ONLY <1>4, <2>2, <2>3, <2>4, <2>5
  <1>8. /\ Cardinality(Seated) \in Nat /\ Cardinality(QueriesSent) \in Nat
        /\ Cardinality(BatchesSent) \in Nat
    BY FS_CardinalityType
  <1>9. \A f \in Retrievals : \A b \in batches'[f] : b.chunks # {}
    BY <1>1
  <1>10. planned' \in [Retrievals -> 0 .. MaxBatch]
    BY <1>1
  <1>11. embeddingFree' \in Nat /\ retrievalFree' \in Nat
    BY <1>1, <1>7
  <1>12. SlotsConserved'
    <2> HIDE DEF Sent, one
    <2>1. one \in {0, 1}
      BY DEF one
    <2>2. /\ retrievalFree + Cardinality(Seated) = RetrievalSlots
          /\ embeddingFree + Cardinality(QueriesSent) + Cardinality(BatchesSent) = EmbeddingSlots
          /\ retrievalFree \in Nat /\ embeddingFree \in Nat
      BY DEF SlotsConserved
    <2>3. retrievalFree' + Cardinality(Seated') = RetrievalSlots
      BY ONLY <1>1, <1>5, <1>8, <2>2
    <2>4. embeddingFree' + Cardinality(QueriesSent') + Cardinality(BatchesSent') = EmbeddingSlots
      BY ONLY <1>1, <1>6, <1>7, <1>8, <2>1, <2>2
    <2> QED BY <2>3, <2>4 DEF SlotsConserved
  <1> HIDE DEF Sent, one
  <1> QED BY <1>5, <1>6, <1>7, <1>9, <1>10, <1>11, <1>12

\* An attempt that is cancelled before it has a slot has none to give back.
LEMMA UnwindAsked ==
  ASSUME CacheInv, SlotInv, NEW e \in Retrievals, query[e] = "asked", CancelRetrieval(e)
  PROVE  SlotInv'
  <1> USE CacheAssumption DEF CacheInv, CacheTypes, SlotInv
  <1>1. batches[e] = {}
    BY DEF TasksTogether, BatchesOwned
  <1>2. /\ retrievalFree' = retrievalFree + 0
        /\ embeddingFree' = embeddingFree + (Cardinality({b \in batches[e] : b.step \in UnderWay}) + 0)
        /\ query' = [query EXCEPT ![e] = "idle"]
        /\ batches' = [batches EXCEPT ![e] = {}]
        /\ planned' = [planned EXCEPT ![e] = 0]
        /\ UNCHANGED <<batchSize, calls>>
    BY DEF CancelRetrieval, Unwind, Slots
  <1>3. {b \in batches[e] : b.step \in UnderWay} = {}
    BY <1>1
  <1>4. UNCHANGED <<retrievalFree, embeddingFree, batches>>
    BY <1>1, <1>2, <1>3, FS_EmptySet
  <1>5. Seated' = Seated /\ QueriesSent' = QueriesSent /\ BatchesSent' = BatchesSent
    BY <1>2, <1>4 DEF Seated, QueriesSent, BatchesSent
  <1>6. planned' \in [Retrievals -> 0 .. MaxBatch]
    BY <1>2
  <1> QED BY <1>2, <1>4, <1>5, <1>6 DEF SlotsConserved

\* A request to the provider is sent with a slot, keeps it until its close() has ended, and
\* then gives it back.
LEMMA BatchSlots ==
  ASSUME CacheInv, SlotInv, NEW e \in Retrievals, NEW b \in batches[e],
         \/ SendBatch(e, b) \/ BatchAnswered(e, b) \/ BatchRefused(e, b)
         \/ BatchStored(e, b) \/ BatchRaises(e, b)
  PROVE  SlotInv'
  <1> USE CacheAssumption DEF CacheInv, CacheTypes, SlotInv
  <1>1. b \in Batch /\ b.chunks # {} /\ batches \in [Retrievals -> SUBSET Batch]
    OBVIOUS
  <1>2. UNCHANGED <<retrievalFree, query, planned, calls>>
    BY DEF SendBatch, BatchAnswered, BatchRefused, BatchStored, BatchRaises
  <1>3. Seated' = Seated /\ QueriesSent' = QueriesSent
    BY <1>2 DEF Seated, QueriesSent
  <1>4. /\ Cardinality(Seated) \in Nat /\ Cardinality(QueriesSent) \in Nat
        /\ Cardinality(BatchesSent) \in Nat /\ IsFiniteSet(BatchesSent)
    BY FS_CardinalityType
  <1>5. batchSize' \in [Corpora -> 1 .. MaxBatch]
    <2>1. CASE BatchRefused(e, b)
      <3>1. planned[e] \in 0 .. MaxBatch /\ MaxBatch \in Nat \ {0}
        OBVIOUS
      <3>2. (IF planned[e] \div 2 > 1 THEN planned[e] \div 2 ELSE 1) \in 1 .. MaxBatch
        BY <3>1
      <3> QED BY <2>1, <3>2 DEF BatchRefused
    <2>2. CASE SendBatch(e, b) \/ BatchAnswered(e, b) \/ BatchStored(e, b) \/ BatchRaises(e, b)
      BY <2>2 DEF SendBatch, BatchAnswered, BatchStored, BatchRaises
    <2> QED BY <2>1, <2>2
  <1>6. /\ embeddingFree' \in Nat /\ IsFiniteSet(BatchesSent')
        /\ embeddingFree' + Cardinality(BatchesSent') = embeddingFree + Cardinality(BatchesSent)
        /\ \A f \in Retrievals : \A d \in batches'[f] : d.chunks # {}
    <2>1. ASSUME NEW step, b.step # step, Becomes(e, b, step)
          PROVE  /\ BatchesSent' = (BatchesSent \ {<<e, b>>})
                                   \union (IF step \in UnderWay THEN {<<e, [b EXCEPT !.step = step]>>} ELSE {})
                 /\ <<e, [b EXCEPT !.step = step]>> \notin BatchesSent
                 /\ <<e, b>> \in BatchesSent <=> b.step \in UnderWay
                 /\ \A f \in Retrievals : \A d \in batches'[f] : d.chunks # {}
      <3> DEFINE c == [b EXCEPT !.step = step]
      <3>1. c.step = step /\ c.chunks = b.chunks /\ c # b
        BY <1>1, <2>1 DEF Batch
      <3>2. batches' = [batches EXCEPT ![e] = (@ \ {b}) \union {c}]
        BY <2>1 DEF Becomes
      <3>3. c \notin batches[e]
        BY <1>1, <3>1 DEF BatchesApart
      <3> HIDE DEF c
      <3>4. \A f \in Retrievals : \A d \in batches'[f] : d.chunks # {}
        <4>1. ASSUME NEW f \in Retrievals, NEW d \in batches'[f] PROVE d \in batches[f] \/ d = c
          BY ONLY <1>1, <3>2, <4>1
        <4> QED BY <1>1, <3>1, <4>1
      <3>5. /\ batches'[e] = (batches[e] \ {b}) \union {c}
            /\ \A f \in Retrievals \ {e} : batches'[f] = batches[f]
        BY ONLY <1>1, <3>2
      <3>6. BatchesSent' = (BatchesSent \ {<<e, b>>}) \union (IF step \in UnderWay THEN {<<e, c>>} ELSE {})
        BY ONLY <3>1, <3>3, <3>5 DEF BatchesSent
      <3>7. <<e, c>> \notin BatchesSent /\ (<<e, b>> \in BatchesSent <=> b.step \in UnderWay)
        BY <3>3 DEF BatchesSent
      <3> QED BY <3>4, <3>6, <3>7 DEF c
    <2> DEFINE Of(step) == <<e, [b EXCEPT !.step = step]>>
    <2>2. CASE SendBatch(e, b)
      <3>1. /\ b.step = "waiting" /\ Becomes(e, b, "sent")
            /\ embeddingFree > 0 /\ embeddingFree' = embeddingFree - 1
        BY <2>2 DEF SendBatch
      <3>2. BatchesSent' = BatchesSent \union {Of("sent")} /\ Of("sent") \notin BatchesSent
        BY ONLY <2>1, <3>1 DEF UnderWay
      <3> HIDE DEF Of
      <3>3. IsFiniteSet(BatchesSent') /\ Cardinality(BatchesSent') = Cardinality(BatchesSent) + 1
        BY ONLY <1>4, <3>2, FS_AddElement
      <3>4. \A f \in Retrievals : \A d \in batches'[f] : d.chunks # {}
        BY ONLY <2>1, <3>1
      <3>5. embeddingFree \in Nat
        OBVIOUS
      <3> QED BY ONLY <1>4, <3>1, <3>3, <3>4, <3>5
    <2>3. CASE BatchAnswered(e, b) \/ BatchRefused(e, b)
      <3>1. /\ b.step = "sent" /\ embeddingFree' = embeddingFree
            /\ Becomes(e, b, "answered") \/ Becomes(e, b, "refused")
        BY <2>3 DEF BatchAnswered, BatchRefused
      <3>2. PICK step \in {"answered", "refused"} : Becomes(e, b, step)
        BY <3>1
      <3>3. /\ BatchesSent' = (BatchesSent \ {<<e, b>>}) \union {Of(step)}
            /\ Of(step) \notin BatchesSent /\ <<e, b>> \in BatchesSent
            /\ \A f \in Retrievals : \A d \in batches'[f] : d.chunks # {}
        BY <2>1, <3>1, <3>2 DEF UnderWay
      <3> HIDE DEF Of
      <3>4. /\ IsFiniteSet(BatchesSent \ {<<e, b>>})
            /\ Cardinality(BatchesSent \ {<<e, b>>}) = Cardinality(BatchesSent) - 1
        BY ONLY <1>4, <3>3, FS_RemoveElement
      <3>5. Of(step) \notin BatchesSent \ {<<e, b>>}
        BY <3>3
      <3>6. IsFiniteSet(BatchesSent') /\ Cardinality(BatchesSent') = Cardinality(BatchesSent) - 1 + 1
        BY ONLY <3>3, <3>4, <3>5, FS_AddElement
      <3>7. embeddingFree \in Nat
        OBVIOUS
      <3> QED BY ONLY <1>4, <3>1, <3>3, <3>6, <3>7
    <2>4. CASE BatchStored(e, b) \/ BatchRaises(e, b)
      <3>1. b.step \in UnderWay /\ embeddingFree' = embeddingFree + 1
        BY <2>4 DEF BatchStored, BatchRaises, UnderWay
      <3>2. /\ BatchesSent' = BatchesSent \ {<<e, b>>} /\ <<e, b>> \in BatchesSent
            /\ \A f \in Retrievals : \A d \in batches'[f] : d.chunks # {}
        <4>1. CASE BatchRaises(e, b)
          <5>1. Becomes(e, b, "failed") /\ b.step # "failed"
            BY <4>1, <3>1 DEF BatchRaises, UnderWay
          <5>2. /\ BatchesSent' = (BatchesSent \ {<<e, b>>})
                                   \union (IF "failed" \in UnderWay THEN {Of("failed")} ELSE {})
                /\ <<e, b>> \in BatchesSent <=> b.step \in UnderWay
                /\ \A f \in Retrievals : \A d \in batches'[f] : d.chunks # {}
            BY ONLY <2>1, <5>1
          <5>3. "failed" \notin UnderWay
            BY DEF UnderWay
          <5> QED BY ONLY <3>1, <5>2, <5>3
        <4>2. CASE BatchStored(e, b)
          <5>1. batches' = [batches EXCEPT ![e] = @ \ {b}]
            BY <4>2 DEF BatchStored
          <5>2. batches'[e] = batches[e] \ {b} /\ \A f \in Retrievals \ {e} : batches'[f] = batches[f]
            BY ONLY <1>1, <5>1
          <5>3. BatchesSent' = BatchesSent \ {<<e, b>>} /\ <<e, b>> \in BatchesSent
            BY ONLY <3>1, <5>2 DEF BatchesSent
          <5> QED BY <5>2, <5>3
        <4> QED BY <2>4, <4>1, <4>2
      <3>3. IsFiniteSet(BatchesSent') /\ Cardinality(BatchesSent') = Cardinality(BatchesSent) - 1
        BY ONLY <1>4, <3>2, FS_RemoveElement
      <3>4. embeddingFree \in Nat
        OBVIOUS
      <3> QED BY ONLY <1>4, <3>1, <3>2, <3>3, <3>4
    <2> QED BY <2>2, <2>3, <2>4
  <1>7. SlotsConserved'
    <2>1. SlotsConserved /\ embeddingFree \in Nat /\ EmbeddingSlots \in Nat
      OBVIOUS
    <2>2. Cardinality(BatchesSent') \in Nat
      BY <1>6, FS_CardinalityType
    <2> QED BY ONLY <1>2, <1>3, <1>4, <1>6, <2>1, <2>2 DEF SlotsConserved
  <1> QED BY <1>2, <1>3, <1>5, <1>6, <1>7

\* The other steps that take a slot or give one back, and those that do neither.
LEMMA QuerySlots ==
  ASSUME CacheInv, SlotInv, NEW e \in Retrievals,
         Retrieve(e) \/ Admit(e) \/ SendQuery(e) \/ QuerySucceeds(e)
  PROVE  SlotInv'
  <1> USE CacheAssumption DEF CacheInv, CacheTypes, SlotInv
  <1>1. UNCHANGED <<batchSize, batches, planned>>
    BY DEF Retrieve, Admit, SendQuery, QuerySucceeds
  <1>2. BatchesSent' = BatchesSent
    BY <1>1 DEF BatchesSent
  <1>3. /\ Cardinality(Seated) \in Nat /\ Cardinality(QueriesSent) \in Nat
        /\ Cardinality(BatchesSent) \in Nat
    BY FS_CardinalityType
  <1>4. calls' \in [Retrievals -> 0 .. MaxCalls]
    <2>1. CASE Retrieve(e)
      <3>1. calls[e] + 1 \in 0 .. MaxCalls
        BY <2>1 DEF Retrieve
      <3> QED BY <2>1, <3>1 DEF Retrieve
    <2>2. CASE Admit(e) \/ SendQuery(e) \/ QuerySucceeds(e)
      BY <2>2 DEF Admit, SendQuery, QuerySucceeds
    <2> QED BY <2>1, <2>2
  <1>5. /\ retrievalFree' \in Nat /\ embeddingFree' \in Nat
        /\ IsFiniteSet(Seated') /\ IsFiniteSet(QueriesSent') /\ SlotsConserved'
    <2>1. CASE Retrieve(e)
      <3>1. Seated' = Seated /\ QueriesSent' = QueriesSent
        BY <2>1 DEF Retrieve, Seated, QueriesSent
      <3> QED BY <1>2, <2>1, <3>1 DEF Retrieve, SlotsConserved
    <2>2. CASE Admit(e)
      <3>1. Seated' = Seated \union {e} /\ e \notin Seated /\ QueriesSent' = QueriesSent
        BY <2>2 DEF Admit, Seated, QueriesSent
      <3>2. IsFiniteSet(Seated') /\ Cardinality(Seated') = Cardinality(Seated) + 1
        BY <3>1, FS_AddElement
      <3>3. /\ retrievalFree > 0 /\ retrievalFree' = retrievalFree - 1
            /\ embeddingFree' = embeddingFree
        BY <2>2 DEF Admit
      <3> QED BY <1>2, <1>3, <3>1, <3>2, <3>3 DEF SlotsConserved
    <2>3. CASE SendQuery(e)
      <3>1. Seated' = Seated /\ QueriesSent' = QueriesSent \union {e} /\ e \notin QueriesSent
        BY <2>3 DEF SendQuery, Seated, QueriesSent
      <3>2. IsFiniteSet(QueriesSent') /\ Cardinality(QueriesSent') = Cardinality(QueriesSent) + 1
        BY <3>1, FS_AddElement
      <3>3. /\ embeddingFree > 0 /\ embeddingFree' = embeddingFree - 1
            /\ retrievalFree' = retrievalFree
        BY <2>3 DEF SendQuery
      <3> QED BY <1>2, <1>3, <3>1, <3>2, <3>3 DEF SlotsConserved
    <2>4. CASE QuerySucceeds(e)
      <3>1. Seated' = Seated /\ QueriesSent' = QueriesSent \ {e} /\ e \in QueriesSent
        BY <2>4 DEF QuerySucceeds, Seated, QueriesSent
      <3>2. IsFiniteSet(QueriesSent') /\ Cardinality(QueriesSent') = Cardinality(QueriesSent) - 1
        BY <3>1, FS_RemoveElement
      <3>3. embeddingFree' = embeddingFree + 1 /\ retrievalFree' = retrievalFree
        BY <2>4 DEF QuerySucceeds
      <3> QED BY <1>2, <1>3, <3>1, <3>2, <3>3 DEF SlotsConserved
    <2> QED BY <2>1, <2>2, <2>3, <2>4
  <1> QED BY <1>1, <1>2, <1>4, <1>5

LEMMA DocumentSlots ==
  ASSUME CacheInv, SlotInv, NEW e \in Retrievals, OwnCorpus(e) \/ StoreVectors(e)
  PROVE  SlotInv'
  <1> USE CacheAssumption DEF CacheInv, CacheTypes, SlotInv
  <1> DEFINE k == CorpusOf[e]
  <1>1. k \in Corpora /\ MaxBatch \in 1 .. MaxBatch /\ 0 \in 0 .. MaxBatch
    OBVIOUS
  <1>2. UNCHANGED <<retrievalFree, embeddingFree, query, calls>>
    BY DEF OwnCorpus, StoreVectors
  <1>3. batchSize' \in [Corpora -> 1 .. MaxBatch]
    BY <1>1 DEF OwnCorpus, StoreVectors
  <1>4. planned' \in [Retrievals -> 0 .. MaxBatch]
    <2>1. batchSize[k] \in 0 .. MaxBatch
      BY <1>1
    <2>2. \/ planned' = planned
          \/ planned' = [planned EXCEPT ![e] = batchSize[k]]
          \/ planned' = [planned EXCEPT ![e] = 0]
      BY DEF OwnCorpus, StoreVectors
    <2>3. planned \in [Retrievals -> 0 .. MaxBatch] /\ 0 \in 0 .. MaxBatch
      BY <1>1
    <2> QED BY ONLY <2>1, <2>2, <2>3
  <1>5. batches[e] = {}
    BY DEF OwnCorpus, StoreVectors, Gathered, BatchesOwned
  <1>6. /\ \A f \in Retrievals \ {e} : batches'[f] = batches[f]
        /\ \A b \in batches'[e] : b.chunks # {} /\ b.step \notin UnderWay
    <2>0. batches \in [Retrievals -> SUBSET Batch]
      OBVIOUS
    <2>1. CASE OwnCorpus(e) /\ k \in cached
      <3>1. batches' = batches
        BY <2>1 DEF OwnCorpus
      <3> QED BY ONLY <1>5, <3>1
    <2>2. CASE OwnCorpus(e) /\ k \notin cached
      <3>1. batches' = [batches EXCEPT ![e] = Plan(k, partial[k], batchSize[k])]
        BY <2>2 DEF OwnCorpus
      <3>2. \A b \in Plan(k, partial[k], batchSize[k]) : b.chunks # {} /\ b.step \notin UnderWay
        BY <1>1, PlanUnsent
      <3> QED BY ONLY <2>0, <3>1, <3>2
    <2>3. CASE StoreVectors(e)
      <3>1. batches' = [batches EXCEPT ![e] = {}]
        BY <2>3 DEF StoreVectors
      <3> QED BY ONLY <2>0, <3>1
    <2> QED BY <2>1, <2>2, <2>3
  <1>7. \A f \in Retrievals : \A b \in batches'[f] : b.chunks # {}
    BY <1>6
  <1>8. Seated' = Seated /\ QueriesSent' = QueriesSent
    BY <1>2 DEF Seated, QueriesSent
  <1>9. BatchesSent' = BatchesSent
    <2>1. \A f \in Retrievals : {b \in batches'[f] : b.step \in UnderWay} = {b \in batches[f] : b.step \in UnderWay}
      BY ONLY <1>5, <1>6
    <2> QED BY ONLY <2>1 DEF BatchesSent
  <1> QED BY <1>2, <1>3, <1>4, <1>7, <1>8, <1>9 DEF SlotsConserved

LEMMA SlotsStep == CacheInv /\ SlotInv /\ [CacheNext]_cacheVars => SlotInv'
  <1> SUFFICES ASSUME CacheInv, SlotInv, [CacheNext]_cacheVars PROVE SlotInv'
    OBVIOUS
  <1>1. ASSUME NEW e \in Retrievals, QueryFails(e) \/ Ranked(e) PROVE SlotInv'
    BY <1>1, UnwindSlots DEF QueryFails, Ranked
  <1>2. ASSUME NEW e \in Retrievals, DocumentsFail(e) PROVE SlotInv'
    <2>1. query[e] \notin {"idle", "asked"}
      BY <1>2 DEF DocumentsFail, CacheInv, TasksTogether
    <2> QED BY <1>2, <2>1, UnwindSlots DEF DocumentsFail
  <1>3. ASSUME NEW e \in Retrievals, CancelRetrieval(e) PROVE SlotInv'
    <2>1. CASE query[e] # "asked"
      BY <1>3, <2>1, UnwindSlots DEF CancelRetrieval
    <2>2. CASE query[e] = "asked"
      BY <1>3, <2>2, UnwindAsked
    <2> QED BY <2>1, <2>2
  <1>4. ASSUME NEW e \in Retrievals, NEW b \in batches[e],
               \/ SendBatch(e, b) \/ BatchAnswered(e, b) \/ BatchRefused(e, b)
               \/ BatchStored(e, b) \/ BatchRaises(e, b)
        PROVE  SlotInv'
    BY <1>4, BatchSlots
  <1>5. ASSUME NEW e \in Retrievals, Retrieve(e) \/ Admit(e) \/ SendQuery(e) \/ QuerySucceeds(e)
        PROVE  SlotInv'
    BY <1>5, QuerySlots
  <1>6. ASSUME NEW e \in Retrievals, OwnCorpus(e) \/ StoreVectors(e) PROVE SlotInv'
    BY <1>6, DocumentSlots
  <1>7. CASE UNCHANGED cacheVars
    BY <1>7 DEF cacheVars, SlotInv, SlotsConserved, Seated, QueriesSent, BatchesSent
  <1> QED BY <1>1, <1>2, <1>3, <1>4, <1>5, <1>6, <1>7 DEF CacheNext, CacheStep

LEMMA SlotsCounted == CacheSpec => [](CacheInv /\ SlotInv)
  <1>1. CacheInit => CacheInv /\ SlotInv
    BY Initially, SlotsStart
  <1>2. (CacheInv /\ SlotInv) /\ [CacheNext]_cacheVars => (CacheInv /\ SlotInv)'
    BY StepKeeps, SlotsStep
  <1> QED BY <1>1, <1>2, PTL DEF CacheSpec

\* However attempts fail and are cancelled, no slot of the two semaphores is lost and
\* none is given back twice (retrieve, _dense_records, _embed_documents).
THEOREM Conserved == CacheSpec => []SlotsConserved
  <1>1. SlotInv => SlotsConserved
    BY DEF SlotInv
  <1> QED BY <1>1, SlotsCounted, PTL

\* The retriever keeps its types; that the semaphores stay within their limits follows
\* from who holds their slots.
THEOREM CacheTyped == CacheSpec => []CacheTypeOK
  <1>1. ASSUME CacheInv, SlotInv PROVE CacheTypeOK
    <2>1. /\ Cardinality(Seated) \in Nat /\ Cardinality(QueriesSent) \in Nat
          /\ Cardinality(BatchesSent) \in Nat
      BY <1>1, FS_CardinalityType DEF SlotInv
    <2>2. retrievalFree \in 0 .. RetrievalSlots /\ embeddingFree \in 0 .. EmbeddingSlots
      BY <1>1, <2>1, CacheAssumption DEF SlotInv, SlotsConserved
    <2> QED BY <1>1, <2>2 DEF CacheInv, CacheTypes, SlotInv, CacheTypeOK
  <1> QED BY <1>1, SlotsCounted, PTL

-----------------------------------------------------------------------------
(* The quota                                                                 *)

Grants == [age: 0 .. Window, tokens: Estimates]
Amounts(s) == [i \in DOMAIN s |-> s[i].tokens]

\* A total is a natural number.
LEMMA UsedType ==
  ASSUME NEW s \in Seq(Grants)
  PROVE  Used(s) \in Nat
<1>1. Len(s) \in Nat /\ DOMAIN s = 1 .. Len(s) /\ s \in [1 .. Len(s) -> Grants]
  BY LenProperties
<1>2. IsFiniteSet(DOMAIN s)
  BY <1>1, FS_Interval
<1>3. \A i \in DOMAIN s : Amounts(s)[i] \in Nat
  BY <1>1, LimiterAssumption DEF Amounts, Grants
<1> QED BY <1>2, <1>3, UnitsFinite DEF Used, Amounts

\* What the total of a sequence of grants is made of.
LEMMA UsedAppend ==
  ASSUME NEW s \in Seq(Grants), NEW g \in Grants
  PROVE  Used(s) \in Nat /\ Used(Append(s, g)) = Used(s) + g.tokens
<1> DEFINE t == Append(s, g)
<1>1. Len(s) \in Nat /\ DOMAIN s = 1 .. Len(s) /\ s \in [1 .. Len(s) -> Grants]
  BY LenProperties
<1>2. t \in Seq(Grants) /\ DOMAIN t = (1 .. Len(s)) \union {Len(s) + 1} /\ Len(s) + 1 \notin 1 .. Len(s)
      /\ t[Len(s) + 1] = g /\ \A i \in 1 .. Len(s) : t[i] = s[i]
  BY <1>1
<1>3. \A i \in DOMAIN s : Amounts(s)[i] \in Nat /\ Amounts(t)[i] = Amounts(s)[i]
  BY <1>1, <1>2, LimiterAssumption DEF Amounts, Grants
<1>4. IsFiniteSet(DOMAIN s)
  BY <1>1, FS_Interval
<1>5. Amounts(t)[Len(s) + 1] = g.tokens /\ g.tokens \in Nat
  BY <1>2, LimiterAssumption DEF Amounts, Grants
<1> HIDE DEF t
<1>6. SumOver(Amounts(t), DOMAIN s) = SumOver(Amounts(s), DOMAIN s) /\ SumOver(Amounts(s), DOMAIN s) \in Nat
  <2> DEFINE h == [i \in DOMAIN s |-> i]
  <2>1. h \in Bijection(DOMAIN s, DOMAIN s)
    BY Fun_IsBij
  <2>2. \A i \in DOMAIN s : Amounts(t)[h[i]] = Amounts(s)[i]
    BY <1>3
  <2> HIDE DEF h
  <2> QED BY <1>3, <1>4, <2>1, <2>2, SumRenamed, UnitsFinite
<1>7. SumOver(Amounts(t), (1 .. Len(s)) \union {Len(s) + 1})
        = SumOver(Amounts(t), DOMAIN s) + Amounts(t)[Len(s) + 1]
  <2>1. IsFiniteSet(1 .. Len(s)) /\ DOMAIN s = 1 .. Len(s)
    BY <1>1, <1>4
  <2>2. \A i \in 1 .. Len(s) : Amounts(t)[i] \in Nat
    BY <1>1, <1>3
  <2> QED BY <1>2, <1>5, <2>1, <2>2, SumAdd
<1>8. Used(s) = SumOver(Amounts(s), DOMAIN s) /\ Used(t) = SumOver(Amounts(t), DOMAIN t)
  BY DEF Used, Amounts
<1> QED BY <1>2, <1>5, <1>6, <1>7, <1>8 DEF t

LEMMA UsedSuffix ==
  ASSUME NEW s \in Seq(Grants), NEW m \in 1 .. Len(s)
  PROVE  Used(SubSeq(s, m, Len(s))) <= Used(s)
<1> DEFINE t == SubSeq(s, m, Len(s))
           h == [i \in DOMAIN t |-> i + (m - 1)]
<1>1. Len(s) \in Nat /\ DOMAIN s = 1 .. Len(s) /\ s \in [1 .. Len(s) -> Grants] /\ IsFiniteSet(DOMAIN s)
  BY LenProperties, FS_Interval
<1>2. t \in Seq(Grants) /\ DOMAIN t = 1 .. (Len(s) - m + 1)
      /\ \A i \in DOMAIN t : t[i] = s[i + (m - 1)]
  BY <1>1
<1>3. \A i \in DOMAIN s : Amounts(s)[i] \in Nat
  BY <1>1, LimiterAssumption DEF Amounts, Grants
<1>4. h \in Bijection(DOMAIN t, m .. Len(s))
  <2>1. \A i \in DOMAIN t : h[i] \in m .. Len(s)
    BY <1>1, <1>2
  <2>2. \A i, j \in DOMAIN t : h[i] = h[j] => i = j
    BY <1>1, <1>2
  <2>3. \A j \in m .. Len(s) : \E i \in DOMAIN t : h[i] = j
    <3> SUFFICES ASSUME NEW j \in m .. Len(s) PROVE \E i \in DOMAIN t : h[i] = j
      OBVIOUS
    <3>1. j - (m - 1) \in DOMAIN t /\ h[j - (m - 1)] = j
      BY <1>1, <1>2
    <3> QED BY <3>1
  <2> HIDE DEF t
  <2> QED BY <2>1, <2>2, <2>3, Fun_IsBij
<1>5. \A i \in DOMAIN t : Amounts(t)[i] \in Nat /\ Amounts(s)[h[i]] = Amounts(t)[i]
  <2> SUFFICES ASSUME NEW i \in DOMAIN t
               PROVE  Amounts(t)[i] \in Nat /\ Amounts(s)[h[i]] = Amounts(t)[i]
    OBVIOUS
  <2>1. h[i] = i + (m - 1) /\ i + (m - 1) \in DOMAIN s /\ t[i] = s[i + (m - 1)]
    BY <1>1, <1>2
  <2>2. Amounts(t)[i] = t[i].tokens /\ Amounts(s)[i + (m - 1)] = s[i + (m - 1)].tokens
    BY <2>1 DEF Amounts
  <2> QED BY <1>3, <2>1, <2>2
<1>6. IsFiniteSet(DOMAIN t)
  <2>1. Len(s) - m + 1 \in Int /\ 1 \in Int
    BY <1>1
  <2> QED BY <1>2, <2>1, FS_Interval
<1>7. Used(s) = SumOver(Amounts(s), DOMAIN s) /\ Used(t) = SumOver(Amounts(t), DOMAIN t)
  BY DEF Used, Amounts
<1>8. m .. Len(s) \in SUBSET DOMAIN s
  BY <1>1
<1> HIDE DEF h, t
<1>9. SumOver(Amounts(s), m .. Len(s)) = SumOver(Amounts(t), DOMAIN t)
  BY <1>4, <1>5, <1>6, SumRenamed
<1>10. SumOver(Amounts(s), m .. Len(s)) <= SumOver(Amounts(s), DOMAIN s)
  BY <1>1, <1>3, <1>8, SumSubset
<1> QED BY <1>7, <1>9, <1>10 DEF t

\* Time changes neither the number of grants nor their tokens.
LEMMA OlderKeeps ==
  ASSUME NEW s \in Seq(Grants)
  PROVE  /\ Older(s) \in Seq(Grants) /\ Len(Older(s)) = Len(s) /\ Used(Older(s)) = Used(s)
         /\ \A i \in 1 .. Len(s) : ~Expired(Older(s)[i]) => ~Expired(s[i])
<1>1. Len(s) \in Nat /\ DOMAIN s = 1 .. Len(s) /\ s \in [1 .. Len(s) -> Grants]
  BY LenProperties
<1>2. \A i \in 1 .. Len(s) : [age |-> IF s[i].age < Window THEN s[i].age + 1 ELSE s[i].age, tokens |-> s[i].tokens] \in Grants
  BY <1>1, LimiterAssumption DEF Grants
<1>3. Older(s) = [i \in 1 .. Len(s) |-> [age |-> IF s[i].age < Window THEN s[i].age + 1 ELSE s[i].age, tokens |-> s[i].tokens]]
  BY <1>1 DEF Older
<1>4. Older(s) \in Seq(Grants)
  BY <1>1, <1>2, <1>3, IsASeq
<1>5. DOMAIN Older(s) = 1 .. Len(s) /\ Len(Older(s)) = Len(s)
  BY <1>1, <1>3, <1>4, LenProperties
<1>6. \A i \in 1 .. Len(s) : Older(s)[i].tokens = s[i].tokens
                             /\ Older(s)[i].age = IF s[i].age < Window THEN s[i].age + 1 ELSE s[i].age
  BY <1>1, <1>3 DEF Grants
<1>7. Amounts(Older(s)) = Amounts(s)
  BY <1>1, <1>5, <1>6 DEF Amounts
<1>8. Used(Older(s)) = Used(s)
  BY <1>1, <1>5, <1>7 DEF Used, Amounts
<1>9. \A i \in 1 .. Len(s) : ~Expired(Older(s)[i]) => ~Expired(s[i])
  BY <1>1, <1>6, LimiterAssumption DEF Expired, Grants
<1> QED BY <1>4, <1>5, <1>8, <1>9

-----------------------------------------------------------------------------
\* What is left of a sequence when the expired grants at its front are gone.
LEMMA UnexpiredIsSuffix ==
  ASSUME NEW s \in Seq(Grants)
  PROVE  \/ /\ \A i \in 1 .. Len(s) : Expired(s[i])
            /\ Unexpired(s) = <<>>
         \/ \E m \in 1 .. Len(s) :
              /\ \A i \in 1 .. m - 1 : Expired(s[i])
              /\ ~Expired(s[m])
              /\ Unexpired(s) = SubSeq(s, m, Len(s))
<1> DEFINE live == {i \in DOMAIN s : ~Expired(s[i])}
<1>1. Len(s) \in Nat /\ DOMAIN s = 1 .. Len(s)
  BY LenProperties
<1>2. CASE live = {}
  <2>1. Unexpired(s) = <<>>
    BY <1>2 DEF Unexpired
  <2>2. \A i \in 1 .. Len(s) : Expired(s[i])
    BY <1>1, <1>2
  <2> QED BY <2>1, <2>2
<1>3. CASE live # {}
  <2>1. live \in SUBSET Nat
    BY <1>1
  <2>2. \E n \in live : \A k \in live : n <= k
    BY <1>3, <2>1, LeastNatural
  <2>3. Min(live) \in live /\ \A k \in live : Min(live) <= k
    BY <2>2 DEF Min
  <2>4. Unexpired(s) = SubSeq(s, Min(live), Len(s))
    BY <1>3 DEF Unexpired
  <2> DEFINE m == Min(live)
  <2>5. m \in 1 .. Len(s) /\ ~Expired(s[m]) /\ \A k \in 1 .. Len(s) : ~Expired(s[k]) => m <= k
    BY <1>1, <2>3
  <2> HIDE DEF m
  <2>6. \A i \in 1 .. m - 1 : Expired(s[i])
    BY <1>1, <2>5
  <2> QED BY <2>4, <2>5, <2>6 DEF m
<1> QED BY <1>2, <1>3

\* A sequence decides by where its first live grant is, and only by that.
LEMMA SuffixIsUnexpired ==
  ASSUME NEW s \in Seq(Grants), NEW m \in 1 .. Len(s),
         \A i \in 1 .. m - 1 : Expired(s[i]), ~Expired(s[m])
  PROVE  Unexpired(s) = SubSeq(s, m, Len(s))
<1>1. Len(s) \in Nat
  BY LenProperties
<1>2. PICK k \in 1 .. Len(s) : /\ \A i \in 1 .. k - 1 : Expired(s[i])
                               /\ ~Expired(s[k])
                               /\ Unexpired(s) = SubSeq(s, k, Len(s))
  BY UnexpiredIsSuffix
<1>3. k = m
  BY <1>1, <1>2
<1> QED BY <1>2, <1>3

LEMMA NothingIsUnexpired ==
  ASSUME NEW s \in Seq(Grants), \A i \in 1 .. Len(s) : Expired(s[i])
  PROVE  Unexpired(s) = <<>>
BY UnexpiredIsSuffix, LenProperties

\* Dropping what has expired gives no more grants and no more tokens.
LEMMA UnexpiredBounds ==
  ASSUME NEW s \in Seq(Grants)
  PROVE  /\ Unexpired(s) \in Seq(Grants)
         /\ Len(Unexpired(s)) <= Len(s) /\ Used(Unexpired(s)) <= Used(s)
         /\ Unexpired(s) # <<>> => ~Expired(Head(Unexpired(s)))
<1>1. Len(s) \in Nat /\ s \in [1 .. Len(s) -> Grants]
  BY LenProperties
<1>2. CASE Unexpired(s) = <<>>
  <2>1. Used(<<>>) = 0
    <3>1. DOMAIN <<>> = {}
      OBVIOUS
    <3> QED BY <3>1, SumEmpty DEF Used
  <2>2. Used(s) \in Nat
    <3>1. \A i \in DOMAIN s : Amounts(s)[i] \in Nat
      BY <1>1, LimiterAssumption DEF Amounts, Grants
    <3>2. IsFiniteSet(DOMAIN s)
      BY <1>1, FS_Interval
    <3> QED BY <3>1, <3>2, UnitsFinite DEF Used, Amounts
  <2> QED BY <1>1, <1>2, <2>1, <2>2
<1>3. CASE Unexpired(s) # <<>>
  <2>1. PICK m \in 1 .. Len(s) : ~Expired(s[m]) /\ Unexpired(s) = SubSeq(s, m, Len(s))
    BY <1>3, UnexpiredIsSuffix
  <2>2. Used(SubSeq(s, m, Len(s))) <= Used(s)
    BY UsedSuffix
  <2>3. /\ SubSeq(s, m, Len(s)) \in Seq(Grants)
        /\ Len(SubSeq(s, m, Len(s))) = Len(s) - m + 1
        /\ Head(SubSeq(s, m, Len(s))) = s[m]
    BY <1>1
  <2> QED BY <1>1, <2>1, <2>2, <2>3
<1> QED BY <1>2, <1>3

\* A grant that has just been made is behind those that have not expired.
LEMMA UnexpiredAppend ==
  ASSUME NEW s \in Seq(Grants), NEW g \in Grants, ~Expired(g)
  PROVE  Unexpired(Append(s, g)) = Append(Unexpired(s), g)
<1> DEFINE t == Append(s, g)
<1>1. Len(s) \in Nat /\ s \in [1 .. Len(s) -> Grants]
  BY LenProperties
<1>2. t \in Seq(Grants) /\ Len(t) = Len(s) + 1 /\ t[Len(s) + 1] = g /\ \A i \in 1 .. Len(s) : t[i] = s[i]
  BY <1>1
<1>3. CASE \A i \in 1 .. Len(s) : Expired(s[i])
  <2>1. Unexpired(s) = <<>>
    BY <1>3, NothingIsUnexpired
  <2>2. Len(s) + 1 \in 1 .. Len(t) /\ (\A i \in 1 .. (Len(s) + 1) - 1 : Expired(t[i])) /\ ~Expired(t[Len(s) + 1])
    BY <1>1, <1>2, <1>3
  <2>3. Unexpired(t) = SubSeq(t, Len(s) + 1, Len(t))
    BY <1>2, <2>2, SuffixIsUnexpired
  <2>4. SubSeq(t, Len(s) + 1, Len(t)) = <<g>>
    <3> DEFINE a == SubSeq(t, Len(s) + 1, Len(t))
    <3>1. a \in Seq(Grants) /\ Len(a) = 1 /\ a[1] = g
      BY <1>1, <1>2
    <3>2. <<g>> \in Seq(Grants) /\ Len(<<g>>) = 1 /\ <<g>>[1] = g
      OBVIOUS
    <3> HIDE DEF a
    <3>3. \A i \in 1 .. Len(a) : a[i] = <<g>>[i]
      BY <3>1, <3>2
    <3>4. a = <<g>>
      BY <3>1, <3>2, <3>3, SeqEqual
    <3> QED BY <3>4 DEF a
  <2>5. Append(<<>>, g) = <<g>>
    OBVIOUS
  <2> QED BY <2>1, <2>3, <2>4, <2>5
<1>4. CASE \E i \in 1 .. Len(s) : ~Expired(s[i])
  <2>1. PICK m \in 1 .. Len(s) : /\ \A i \in 1 .. m - 1 : Expired(s[i])
                                 /\ ~Expired(s[m]) /\ Unexpired(s) = SubSeq(s, m, Len(s))
    BY <1>4, UnexpiredIsSuffix
  <2>2. m \in 1 .. Len(t) /\ (\A i \in 1 .. m - 1 : Expired(t[i])) /\ ~Expired(t[m])
    BY <1>1, <1>2, <2>1
  <2>3. Unexpired(t) = SubSeq(t, m, Len(t))
    BY <1>2, <2>2, SuffixIsUnexpired
  <2>4. SubSeq(t, m, Len(t)) = Append(SubSeq(s, m, Len(s)), g)
    <3>1. SubSeq(t, m, Len(t)) \in Seq(Grants) /\ Append(SubSeq(s, m, Len(s)), g) \in Seq(Grants)
      BY <1>1, <1>2
    <3>2. Len(SubSeq(t, m, Len(t))) = Len(s) - m + 2 /\ Len(Append(SubSeq(s, m, Len(s)), g)) = Len(s) - m + 2
      BY <1>1, <1>2
    <3>3. \A i \in 1 .. Len(s) - m + 2 : SubSeq(t, m, Len(t))[i] = Append(SubSeq(s, m, Len(s)), g)[i]
      BY <1>1, <1>2
    <3> QED BY <3>1, <3>2, <3>3, SeqEqual
  <2> QED BY <2>1, <2>3, <2>4
<1> QED BY <1>3, <1>4

\* Once more, now or after a tick, nothing else is dropped.
LEMMA UnexpiredTwice ==
  ASSUME NEW s \in Seq(Grants)
  PROVE  /\ Unexpired(Unexpired(s)) = Unexpired(s)
         /\ Unexpired(Older(Unexpired(s))) = Unexpired(Older(s))
<1>1. Len(s) \in Nat /\ s \in [1 .. Len(s) -> Grants]
  BY LenProperties
<1>2. CASE \A i \in 1 .. Len(s) : Expired(s[i])
  <2>1. Unexpired(s) = <<>>
    BY <1>2, NothingIsUnexpired
  <2>2. <<>> \in Seq(Grants) /\ Len(<<>>) = 0 /\ \A i \in 1 .. Len(<<>>) : Expired(<<>>[i])
    OBVIOUS
  <2>3. Unexpired(<<>>) = <<>>
    BY <2>2, NothingIsUnexpired
  <2>4. Older(<<>>) \in Seq(Grants) /\ Len(Older(<<>>)) = 0
    BY <2>2, OlderKeeps
  <2>5. Unexpired(Older(<<>>)) = <<>>
    BY <2>4, NothingIsUnexpired
  <2>6. Older(s) \in Seq(Grants) /\ \A i \in 1 .. Len(Older(s)) : Expired(Older(s)[i])
    BY <1>2, OlderKeeps
  <2>7. Unexpired(Older(s)) = <<>>
    BY <2>6, NothingIsUnexpired
  <2> QED BY <2>1, <2>3, <2>5, <2>7
<1>3. CASE \E i \in 1 .. Len(s) : ~Expired(s[i])
  <2>1. PICK m \in 1 .. Len(s) : /\ \A i \in 1 .. m - 1 : Expired(s[i])
                                 /\ ~Expired(s[m]) /\ Unexpired(s) = SubSeq(s, m, Len(s))
    BY <1>3, UnexpiredIsSuffix
  <2> DEFINE t == SubSeq(s, m, Len(s))
             n == Len(s) - m + 1
  <2>2. t \in Seq(Grants) /\ Len(t) = n /\ n \in Nat /\ \A i \in 1 .. n : t[i] = s[i + (m - 1)]
    BY <1>1
  <2>3. 1 \in 1 .. Len(t) /\ (\A i \in 1 .. 1 - 1 : Expired(t[i])) /\ ~Expired(t[1])
    BY <1>1, <2>1, <2>2
  <2> HIDE DEF t
  <2>4. Unexpired(t) = t
    BY <2>2, <2>3, SuffixIsUnexpired, SubSeqFull
  <2>5. /\ Older(s) \in Seq(Grants) /\ Len(Older(s)) = Len(s)
        /\ \A i \in 1 .. Len(s) : ~Expired(Older(s)[i]) => ~Expired(s[i])
    BY OlderKeeps
  <2>6. Older(t) \in Seq(Grants) /\ Len(Older(t)) = n
    BY <2>2, OlderKeeps
  <2>7. \A i \in 1 .. n : Older(t)[i] = Older(s)[i + (m - 1)]
    <3> SUFFICES ASSUME NEW i \in 1 .. n PROVE Older(t)[i] = Older(s)[i + (m - 1)]
      OBVIOUS
    <3>1. i \in DOMAIN t /\ i + (m - 1) \in DOMAIN s /\ t[i] = s[i + (m - 1)]
      BY <1>1, <2>2 DEF n
    <3> QED BY <3>1 DEF Older
  <2> HIDE DEF t, n
  <2>8. CASE \A i \in 1 .. Len(s) : Expired(Older(s)[i])
    <3>1. \A i \in 1 .. n : Expired(Older(t)[i])
      BY <1>1, <2>7, <2>8 DEF n
    <3> QED BY <2>1, <2>4, <2>5, <2>6, <2>8, <3>1, NothingIsUnexpired DEF t
  <2>9. CASE \E i \in 1 .. Len(s) : ~Expired(Older(s)[i])
    <3>1. PICK k \in 1 .. Len(s) : /\ \A i \in 1 .. k - 1 : Expired(Older(s)[i])
                                   /\ ~Expired(Older(s)[k])
                                   /\ Unexpired(Older(s)) = SubSeq(Older(s), k, Len(s))
      BY <2>5, <2>9, UnexpiredIsSuffix
    <3>2. k >= m
      BY <1>1, <2>1, <2>5, <3>1
    <3>3. k - (m - 1) \in 1 .. n
      BY <1>1, <3>2 DEF n
    <3>4. \A i \in 1 .. (k - (m - 1)) - 1 : Expired(Older(t)[i])
      <4> SUFFICES ASSUME NEW i \in 1 .. (k - (m - 1)) - 1 PROVE Expired(Older(t)[i])
        OBVIOUS
      <4>1. i \in 1 .. n /\ i + (m - 1) \in 1 .. k - 1
        BY <1>1, <3>3 DEF n
      <4> QED BY <2>7, <3>1, <4>1
    <3>5. ~Expired(Older(t)[k - (m - 1)])
      <4>1. (k - (m - 1)) + (m - 1) = k
        BY <1>1
      <4> QED BY <2>7, <3>1, <3>3, <4>1
    <3>6. Unexpired(Older(t)) = SubSeq(Older(t), k - (m - 1), n)
      BY <2>6, <3>3, <3>4, <3>5, SuffixIsUnexpired
    <3>7. SubSeq(Older(t), k - (m - 1), n) = SubSeq(Older(s), k, Len(s))
      <4> DEFINE a == SubSeq(Older(t), k - (m - 1), n)
                 b == SubSeq(Older(s), k, Len(s))
      <4>1. a \in Seq(Grants) /\ Len(a) = Len(s) - k + 1
            /\ \A i \in 1 .. Len(s) - k + 1 : a[i] = Older(t)[i + (k - m)]
        BY <1>1, <2>6, <3>3, SMTT(30) DEF n
      <4>2. b \in Seq(Grants) /\ Len(b) = Len(s) - k + 1
            /\ \A i \in 1 .. Len(s) - k + 1 : b[i] = Older(s)[i + (k - 1)]
        BY <1>1, <2>5
      <4>3. \A i \in 1 .. Len(s) - k + 1 : Older(t)[i + (k - m)] = Older(s)[i + (k - 1)]
        <5> SUFFICES ASSUME NEW i \in 1 .. Len(s) - k + 1
                     PROVE  Older(t)[i + (k - m)] = Older(s)[i + (k - 1)]
          OBVIOUS
        <5>1. i + (k - m) \in 1 .. n /\ (i + (k - m)) + (m - 1) = i + (k - 1)
          BY <1>1, <3>2 DEF n
        <5> QED BY <2>7, <5>1
      <4> HIDE DEF a, b
      <4>4. a = b
        BY <4>1, <4>2, <4>3, SeqEqual
      <4> QED BY <4>4 DEF a, b
    <3> QED BY <2>1, <2>4, <3>1, <3>6, <3>7 DEF t
  <2> QED BY <2>8, <2>9
<1> QED BY <1>2, <1>3

-----------------------------------------------------------------------------
\* Whoever waits or holds the lock has an estimate within the budget, and nobody
\* does both or waits twice.
WaitersFit ==
  /\ \A c \in Callers : estimate[c] <= Tokens
  /\ holder # Nobody => estimate[holder] # 0
  /\ \A i \in 1 .. Len(queue) : queue[i] # holder /\ estimate[queue[i]] # 0
  /\ \A i, j \in 1 .. Len(queue) : queue[i] = queue[j] => i = j

\* What the limiter counts is what was granted in the last Window ticks.
WindowTrue == granted = Unexpired(window)

LimiterInv == LimiterTypeOK /\ WaitersFit /\ WindowTrue /\ LimitRespected

LEMMA LimiterStarts == LimiterInit => LimiterInv
<1> SUFFICES ASSUME LimiterInit PROVE LimiterInv
  OBVIOUS
<1> USE DEF LimiterInit
<1>1. LimiterTypeOK
  BY LimiterAssumption DEF LimiterTypeOK
<1>2. WaitersFit
  BY LimiterAssumption DEF WaitersFit
<1>3. <<>> \in Seq(Grants) /\ Len(<<>>) = 0 /\ DOMAIN <<>> = {} /\ \A i \in 1 .. Len(<<>>) : Expired(<<>>[i])
  OBVIOUS
<1>4. WindowTrue
  BY <1>3, NothingIsUnexpired DEF WindowTrue
<1>5. LimitRespected
  BY <1>3, SumEmpty, LimiterAssumption DEF LimitRespected, Used
<1> QED BY <1>1, <1>2, <1>4, <1>5 DEF LimiterInv

LEMMA EnterKeeps ==
  ASSUME LimiterInv, NEW c \in Callers, NEW n \in Estimates, Enter(c, n)
  PROVE  LimiterInv'
<1>1. /\ c # holder /\ (\A i \in 1 .. Len(queue) : queue[i] # c) /\ n <= Tokens
      /\ estimate' = [estimate EXCEPT ![c] = n] /\ queue' = Append(queue, c)
      /\ UNCHANGED <<window, sinceLast, holder, sleep, granted>>
  BY DEF Enter, ToSet, LimiterInv, LimiterTypeOK
<1>2. queue \in Seq(Callers) /\ Len(queue) \in Nat /\ n \in Nat \ {0}
  BY LimiterAssumption DEF LimiterInv, LimiterTypeOK
<1>3. /\ queue' \in Seq(Callers) /\ Len(queue') = Len(queue) + 1 /\ queue'[Len(queue) + 1] = c
      /\ \A i \in 1 .. Len(queue) : queue'[i] = queue[i]
  BY <1>1, <1>2
<1>4. LimiterTypeOK'
  BY <1>1, <1>3 DEF LimiterInv, LimiterTypeOK
<1>5. WaitersFit'
  BY <1>1, <1>2, <1>3, LimiterAssumption DEF LimiterInv, WaitersFit, LimiterTypeOK
<1>6. WindowTrue' /\ LimitRespected'
  BY <1>1 DEF LimiterInv, WindowTrue, LimitRespected, Used, Unexpired, Expired
<1> QED BY <1>4, <1>5, <1>6 DEF LimiterInv

LEMMA LockKeeps ==
  ASSUME LimiterInv, Lock
  PROVE  LimiterInv'
<1>1. /\ holder = Nobody /\ queue # <<>> /\ holder' = Head(queue) /\ queue' = Tail(queue)
      /\ UNCHANGED <<window, sinceLast, sleep, estimate, granted>>
  BY DEF Lock
<1>2. queue \in Seq(Callers) /\ Len(queue) \in Nat \ {0}
  BY <1>1, EmptySeq DEF LimiterInv, LimiterTypeOK
<1>3. /\ queue' \in Seq(Callers) /\ Len(queue') = Len(queue) - 1 /\ holder' = queue[1] /\ holder' \in Callers
      /\ \A i \in 1 .. Len(queue) - 1 : queue'[i] = queue[i + 1]
  BY <1>1, <1>2, HeadTailProperties
<1>4. LimiterTypeOK'
  BY <1>1, <1>3 DEF LimiterInv, LimiterTypeOK
<1>5. WaitersFit'
  BY <1>1, <1>2, <1>3 DEF LimiterInv, WaitersFit
<1>6. WindowTrue' /\ LimitRespected'
  BY <1>1 DEF LimiterInv, WindowTrue, LimitRespected, Used, Unexpired, Expired
<1> QED BY <1>4, <1>5, <1>6 DEF LimiterInv

\* The heart: a request is granted only when the window, cleared of what has expired,
\* has room for it; that the clock moves on before it is recorded only makes room.
LEMMA TurnKeeps ==
  ASSUME LimiterInv, Turn
  PROVE  LimiterInv'
<1> DEFINE s == Unexpired(window)
           n == estimate[holder]
           now == [age |-> 0, tokens |-> n]
<1>1. /\ holder \in Callers /\ holder # Nobody /\ sleep = 0
      /\ n \in Estimates /\ n <= Tokens /\ n \in Nat
      /\ window \in Seq(Grants) /\ sinceLast \in 0 .. Window
  BY LimiterAssumption DEF LimiterInv, LimiterTypeOK, WaitersFit, Turn, Grants
<1>2. /\ s \in Seq(Grants) /\ s = granted /\ Len(s) <= Requests /\ Used(s) <= Tokens /\ Len(s) \in Nat
      /\ s # <<>> => Head(s) \in Grants /\ Head(s).age < Window
  <2>1. s \in Seq(Grants) /\ (s # <<>> => ~Expired(Head(s)))
    BY <1>1, UnexpiredBounds
  <2>2. s # <<>> => Head(s) \in Grants
    BY <2>1, HeadTailProperties
  <2> HIDE DEF s
  <2>3. s # <<>> => Head(s).age < Window
    BY <2>1, <2>2, LimiterAssumption DEF Expired, Grants
  <2>4. s = granted /\ Len(s) <= Requests /\ Used(s) <= Tokens
    BY DEF s, LimiterInv, WindowTrue, LimitRespected
  <2> QED BY <2>1, <2>2, <2>3, <2>4, LenProperties
<1>3. Full(s, n) => s # <<>>
  <2>1. Used(<<>>) = 0 /\ Len(<<>>) = 0
    <3>1. DOMAIN <<>> = {} /\ Len(<<>>) = 0
      OBVIOUS
    <3> QED BY <3>1, SumEmpty DEF Used
  <2> QED BY <1>1, <2>1, LimiterAssumption DEF Full
<1>4. Wait(s, n) \in 0 .. Window /\ (Full(s, n) => Wait(s, n) > 0)
  <2>1. MinimumInterval \in 0 .. Window
    BY LimiterAssumption DEF MinimumInterval
  <2>2. Full(s, n) => Window - Head(s).age \in 1 .. Window
    BY <1>2, <1>3, LimiterAssumption DEF Grants
  <2> HIDE DEF s, n
  <2> QED BY <1>1, <2>1, <2>2, LimiterAssumption DEF Wait
<1>5. CASE Wait(s, n) > 0 /\ window' = s /\ sleep' = Wait(s, n)
           /\ UNCHANGED <<sinceLast, queue, holder, estimate, granted>>
  <2>1. LimiterTypeOK'
    BY <1>2, <1>4, <1>5 DEF LimiterInv, LimiterTypeOK, Grants
  <2>2. WaitersFit'
    BY <1>5 DEF LimiterInv, WaitersFit
  <2>3. WindowTrue'
    <3>1. Unexpired(s) = s
      BY <1>1, UnexpiredTwice
    <3>2. Unexpired(window') = Unexpired(window)'
      BY DEF Unexpired, Expired
    <3> QED BY <1>2, <1>5, <3>1, <3>2 DEF WindowTrue
  <2>4. LimitRespected'
    BY <1>5 DEF LimiterInv, LimitRespected, Used
  <2> QED BY <2>1, <2>2, <2>3, <2>4 DEF LimiterInv
<1>6. ASSUME Wait(s, n) = 0, NEW late \in BOOLEAN,
             window' = Append(IF late THEN Older(s) ELSE s, now),
             granted' = Append(Unexpired(IF late THEN Older(granted) ELSE granted), now),
             sinceLast' = 0, holder' = Nobody, estimate' = [estimate EXCEPT ![holder] = 0],
             UNCHANGED <<queue, sleep>>
      PROVE  LimiterInv'
  <2> DEFINE x == IF late THEN Older(s) ELSE s
  <2>1. ~Full(s, n)
    BY <1>4, <1>6
  <2>2. x \in Seq(Grants) /\ Len(x) = Len(s) /\ Used(x) = Used(s)
    BY <1>2, OlderKeeps
  <2>3. Len(x) < Requests /\ Used(x) + n <= Tokens
    <3>1. Used(s) \in Nat
      BY <1>2, UsedType
    <3> HIDE DEF s, x, n
    <3> QED BY <1>1, <1>2, <2>1, <2>2, <3>1, LimiterAssumption DEF Full
  <2>4. now \in Grants /\ ~Expired(now)
    BY <1>1, LimiterAssumption DEF Grants, Expired
  <2> DEFINE y == Unexpired(x)
  <2>5. y \in Seq(Grants) /\ Len(y) <= Len(x) /\ Used(y) <= Used(x) /\ Len(y) \in Nat /\ Len(x) \in Nat
    BY <2>2, UnexpiredBounds, LenProperties
  <2>6. window' = Append(x, now) /\ granted' = Append(y, now)
    BY <1>2, <1>6
  <2> HIDE DEF x, s, now
  <2>7. granted' = Unexpired(window')
    BY <2>2, <2>4, <2>6, UnexpiredAppend
  <2>8. WindowTrue'
    BY <2>7 DEF WindowTrue, Unexpired, Expired
  <2>9. LimitRespected'
    <3>1. Used(Append(y, now)) = Used(y) + now.tokens /\ Used(y) \in Nat /\ Used(x) \in Nat
      BY <2>2, <2>4, <2>5, UsedAppend
    <3>2. now.tokens = n
      BY DEF now
    <3>3. Len(Append(y, now)) = Len(y) + 1
      BY <2>4, <2>5, AppendProperties
    <3> HIDE DEF y, n
    <3>4. Len(Append(y, now)) <= Requests /\ Used(Append(y, now)) <= Tokens
      BY <1>1, <2>3, <2>5, <3>1, <3>2, <3>3, LimiterAssumption
    <3> QED BY <2>6, <3>4 DEF LimitRespected, Used
  <2>10. LimiterTypeOK'
    <3>1. window' \in Seq(Grants) /\ granted' \in Seq(Grants)
      BY <2>2, <2>4, <2>5, <2>6
    <3> QED BY <1>1, <1>6, <3>1, LimiterAssumption DEF LimiterInv, LimiterTypeOK, Grants
  <2>11. WaitersFit'
    BY <1>1, <1>6, LimiterAssumption DEF LimiterInv, WaitersFit, LimiterTypeOK
  <2> QED BY <2>8, <2>9, <2>10, <2>11 DEF LimiterInv
<1> QED
  <2> HIDE DEF s, n
  <2> QED BY <1>5, <1>6 DEF Turn, s, n

LEMMA AbandonKeeps ==
  ASSUME LimiterInv, NEW c \in Callers, Abandon(c)
  PROVE  LimiterInv'
<1>1. estimate' = [estimate EXCEPT ![c] = 0] /\ UNCHANGED <<window, sinceLast, granted>>
  BY DEF Abandon
<1>2. queue \in Seq(Callers) /\ Len(queue) \in Nat /\ DOMAIN queue = 1 .. Len(queue)
  BY LenProperties DEF LimiterInv, LimiterTypeOK
<1>3. WindowTrue' /\ LimitRespected'
  BY <1>1 DEF LimiterInv, WindowTrue, LimitRespected, Used, Unexpired, Expired
<1>4. CASE c = holder /\ holder' = Nobody /\ sleep' = 0 /\ UNCHANGED queue
  <2>1. LimiterTypeOK'
    BY <1>1, <1>4, LimiterAssumption DEF LimiterInv, LimiterTypeOK
  <2>2. WaitersFit'
    BY <1>1, <1>2, <1>4, LimiterAssumption DEF LimiterInv, WaitersFit, LimiterTypeOK
  <2> QED BY <1>3, <2>1, <2>2 DEF LimiterInv
<1>5. CASE /\ \E i \in 1 .. Len(queue) : queue[i] = c
           /\ queue' = Pick(queue, {i \in DOMAIN queue : queue[i] # c})
           /\ UNCHANGED <<holder, sleep>>
  <2> DEFINE I == {i \in DOMAIN queue : queue[i] # c}
             N == Cardinality(I)
  <2>1. PICK at \in [1 .. N -> I] :
          /\ queue' \in Seq(Callers) /\ Len(queue') = N
          /\ \A i, j \in 1 .. N : i < j <=> at[i] < at[j]
          /\ \A i \in 1 .. N : queue'[i] = queue[at[i]]
    <3>1. I \in SUBSET DOMAIN queue
      OBVIOUS
    <3>2. queue' = Pick(queue, I)
      BY <1>5
    <3> HIDE DEF I, N
    <3>3. \E at \in [1 .. Cardinality(I) -> I] :
            /\ Pick(queue, I) \in Seq(Callers) /\ Len(Pick(queue, I)) = Cardinality(I)
            /\ \A i, j \in 1 .. Cardinality(I) : i < j <=> at[i] < at[j]
            /\ \A i \in 1 .. Cardinality(I) : Pick(queue, I)[i] = queue[at[i]]
      BY <1>2, <3>1, PickElements, ZenonT(60)
    <3> QED BY <3>2, <3>3 DEF N
  <2>2. /\ N \in Nat
        /\ \A i \in 1 .. N : at[i] \in 1 .. Len(queue) /\ queue'[i] = queue[at[i]] /\ queue'[i] # c
    BY <1>2, <2>1, LenProperties
  <2> HIDE DEF I, N
  <2>3. \A i, j \in 1 .. N : at[i] = at[j] => i = j
    BY <2>1, <2>2
  <2>4. LimiterTypeOK'
    BY <1>1, <1>5, <2>1, LimiterAssumption DEF LimiterInv, LimiterTypeOK
  <2>5. c # holder
    BY <1>5 DEF LimiterInv, WaitersFit
  <2>6. WaitersFit'
    <3>1. \A d \in Callers : estimate'[d] <= Tokens /\ (d # c => estimate'[d] = estimate[d])
      BY <1>1, LimiterAssumption DEF LimiterInv, WaitersFit, LimiterTypeOK
    <3>2. holder' # Nobody => estimate'[holder'] # 0
      BY <1>5, <2>5, <3>1 DEF LimiterInv, WaitersFit, LimiterTypeOK
    <3>3. \A i \in 1 .. N : queue'[i] # holder' /\ estimate'[queue'[i]] # 0
      <4> SUFFICES ASSUME NEW i \in 1 .. N PROVE queue'[i] # holder' /\ estimate'[queue'[i]] # 0
        OBVIOUS
      <4>1. at[i] \in 1 .. Len(queue) /\ queue'[i] = queue[at[i]] /\ queue'[i] # c
        BY <2>2
      <4>2. queue[at[i]] \in Callers /\ queue[at[i]] # holder /\ estimate[queue[at[i]]] # 0
        BY <1>2, <4>1 DEF LimiterInv, WaitersFit
      <4> QED BY <1>5, <3>1, <4>1, <4>2
    <3>4. \A i, j \in 1 .. N : queue'[i] = queue'[j] => i = j
      BY <2>2, <2>3 DEF LimiterInv, WaitersFit
    <3> QED BY <2>1, <3>1, <3>2, <3>3, <3>4 DEF WaitersFit
  <2> QED BY <1>3, <2>4, <2>6 DEF LimiterInv
<1> QED BY <1>2, <1>4, <1>5 DEF Abandon, ToSet

LEMMA TickKeeps ==
  ASSUME LimiterInv, Tick
  PROVE  LimiterInv'
<1>1. /\ window' = Older(window) /\ granted' = Unexpired(Older(granted))
      /\ sinceLast' = IF sinceLast < Window THEN sinceLast + 1 ELSE sinceLast
      /\ sleep' = IF sleep > 0 THEN sleep - 1 ELSE 0
      /\ UNCHANGED <<queue, holder, estimate>>
  BY DEF Tick
<1>2. window \in Seq(Grants) /\ granted \in Seq(Grants) /\ granted = Unexpired(window)
  BY DEF LimiterInv, LimiterTypeOK, Grants, WindowTrue
<1>3. Older(window) \in Seq(Grants) /\ Older(granted) \in Seq(Grants)
      /\ Len(Older(granted)) = Len(granted) /\ Used(Older(granted)) = Used(granted)
  BY <1>2, OlderKeeps
<1>4. granted' \in Seq(Grants) /\ Len(granted') <= Len(granted) /\ Used(Unexpired(Older(granted))) <= Used(granted)
  BY <1>1, <1>3, UnexpiredBounds
<1>5. granted' = Unexpired(window')
  BY <1>1, <1>2, UnexpiredTwice
<1>6. WindowTrue'
  BY <1>5 DEF WindowTrue, Unexpired, Expired
<1>7. LimitRespected'
  <2>1. Len(granted) \in Nat /\ Len(granted') \in Nat /\ Len(granted) <= Requests /\ Used(granted) <= Tokens
    BY <1>2, <1>4, LenProperties DEF LimiterInv, LimitRespected
  <2>2. Used(granted) \in Nat /\ Used(granted') \in Nat
    BY <1>2, <1>4, UsedType
  <2>3. Len(granted') <= Requests /\ Used(granted') <= Tokens
    BY <1>1, <1>4, <2>1, <2>2, LimiterAssumption
  <2> QED BY <2>3 DEF LimitRespected, Used
<1>8. LimiterTypeOK'
  BY <1>1, <1>3, <1>4, LimiterAssumption DEF LimiterInv, LimiterTypeOK, Grants
<1>9. WaitersFit'
  BY <1>1 DEF LimiterInv, WaitersFit
<1> QED BY <1>6, <1>7, <1>8, <1>9 DEF LimiterInv

LEMMA LimiterStep == LimiterInv /\ [LimiterNext]_limiterVars => LimiterInv'
<1> SUFFICES ASSUME LimiterInv, [LimiterNext]_limiterVars PROVE LimiterInv'
  OBVIOUS
<1>1. CASE UNCHANGED limiterVars
  BY <1>1 DEF limiterVars, LimiterInv, LimiterTypeOK, WaitersFit, WindowTrue, LimitRespected,
     Unexpired, Expired, Used
<1> QED BY <1>1, AbandonKeeps, EnterKeeps, LockKeeps, TurnKeeps, TickKeeps DEF LimiterNext

LEMMA LimiterSafe == LimiterSpec => []LimiterInv
BY LimiterStarts, LimiterStep, PTL DEF LimiterSpec

\* The window holds estimates that were asked for, none older than the window, and no
\* caller sleeps longer than it.
THEOREM LimiterTyped == LimiterSpec => []LimiterTypeOK
<1>1. LimiterInv => LimiterTypeOK
  BY DEF LimiterInv
<1> QED BY <1>1, LimiterSafe, PTL

\* In any 60 seconds the evaluation runs are granted at most Requests requests and
\* Tokens tokens, for every budget and any callers.
THEOREM Respected == LimiterSpec => []LimitRespected
<1>1. LimiterInv => LimitRespected
  BY DEF LimiterInv
<1> QED BY <1>1, LimiterSafe, PTL

-----------------------------------------------------------------------------
(* What the worker holds                                                     *)

Distinct(s) == \A i, j \in 1 .. Len(s) : s[i] = s[j] => i = j

\* Files of one language that fit in a batch, or one file.
Light(S) ==
  /\ SumOver(Bytes, S) <= BatchBytes \/ \A f, g \in S : f = g
  /\ \A f, g \in S : Language[f] = Language[g]

\* The files of the batches in plan.
Waiting(plan) == UNION {ToSet(plan[i]) : i \in 1 .. Len(plan)}

PlanOK(plan) ==
  /\ \A i \in 1 .. Len(plan) : Distinct(plan[i]) /\ Light(ToSet(plan[i]))
  /\ \A i, j \in 1 .. Len(plan) : i # j => ToSet(plan[i]) \intersect ToSet(plan[j]) = {}

Held == busy \union ToSet(pending)

HeldOK ==
  /\ PlanOK(ahead)
  /\ Distinct(pending) /\ busy \intersect ToSet(pending) = {}
  /\ Light(Held)
  /\ Waiting(ahead) \intersect Held = {}
  /\ Cardinality(busy) <= width
  /\ width <= 1 \/ \A f \in Held : width * Bytes[f] <= MemoryBudget
  /\ current = 0 => ahead = <<>> /\ pending = <<>> /\ busy = {}

-----------------------------------------------------------------------------
(* What a file's events are                                                  *)

About(e, q, f) == e.request = q /\ e.path = f

Silent(o, q, f) == \A i \in 1 .. Len(o) : ~About(o[i], q, f)

\* The events of request q about file f in the stream o are n chunks and, at place p,
\* the file event.
Streamed(o, q, f, status, n, p) ==
  /\ p \in 1 .. Len(o) /\ n \in 0 .. p - 1
  /\ o[p].type = "file" /\ o[p].status = status
  /\ \A i \in 1 .. Len(o) : About(o[i], q, f) <=> i \in p - n .. p
  /\ \A i \in p - n .. p - 1 : o[i].type = "chunk"

\* File f has no answer a yet; or its answer is in the stream, but for the chunks in b;
\* or the caller has it, in d; or the stream was thrown away with it, once the caller
\* was idle.
FileOK(o, q, f, a, b, d, idle) ==
  \/ a = Unanswered /\ d = Unanswered /\ b = 0 /\ Silent(o, q, f)
  \/ /\ a.status # "none" /\ d = Unanswered /\ b \in 0 .. a.chunks
     /\ \E p \in 1 .. Len(o) : Streamed(o, q, f, a.status, a.chunks - b, p)
  \/ a.status # "none" /\ d = a /\ b = 0 /\ Silent(o, q, f)
  \/ a.status # "none" /\ d = Unanswered /\ idle /\ Silent(o, q, f)

StreamOK ==
  \A f \in Paths : FileOK(stdout, request, f, answers[f], buffered[f], delivered[f], client = "idle")

-----------------------------------------------------------------------------
(* Where a request is                                                        *)

Todo == Waiting(ahead) \union Held

\* Requests are read in their order.
OrderOK ==
  /\ current <= request
  /\ \A i \in 1 .. Len(stdin) : stdin[i] <= request /\ (i < Len(stdin) => stdin[i] < request)
  /\ \A i \in 1 .. Len(stdout) : stdout[i].request <= request

\* Nothing is said of a request that the worker has not read.
FreshOK ==
  request \in ToSet(stdin) =>
    /\ current # request
    /\ \A f \in Paths : answers[f] = Unanswered
    /\ \A i \in 1 .. Len(stdout) : stdout[i].request # request

\* The files without an answer are those the worker still has.
TodoOK ==
  current = request /\ current # 0 =>
    \A f \in Paths : f \in Todo <=> answers[f].status = "none"

\* Nothing of a request comes after its end, and every file has an answer then.
EndOK ==
  \A i \in 1 .. Len(stdout) :
    stdout[i].request = request /\ stdout[i].type = "complete" =>
      /\ current # request
      /\ \A j \in i + 1 .. Len(stdout) : stdout[j].request # request
      /\ \A f \in Paths : answers[f].status # "none"

DoneOK ==
  outcome = "complete" =>
    /\ client = "idle" /\ current # request /\ request \notin ToSet(stdin)
    /\ \A f \in Paths : delivered[f] = answers[f] /\ answers[f].status # "none"

WorkerInv == WorkerTypeOK /\ HeldOK /\ StreamOK /\ OrderOK /\ FreshOK /\ TodoOK /\ EndOK /\ DoneOK

-----------------------------------------------------------------------------
(* How a request is cut into batches                                         *)

LEMMA FileNumbers ==
  /\ \A f \in Paths : f \in Nat \ {0} /\ Bytes[f] \in Nat \ {0} /\ Language[f] \in Nat
  /\ IsFiniteSet(Paths)
  /\ MaxFileBytes \in Nat /\ StreamingBytes \in Nat /\ BatchBytes \in Nat
  /\ MemoryBudget \in Nat /\ Concurrency \in Nat \ {0}
BY WorkerAssumption

\* The elements of a pick are those at its places, each once.
LEMMA PickDistinct ==
  ASSUME NEW T, NEW s \in Seq(T), Distinct(s), NEW I \in SUBSET DOMAIN s, NEW p, p = Pick(s, I)
  PROVE  /\ p \in Seq(T) /\ Distinct(p) /\ ToSet(p) = {s[i] : i \in I}
         /\ Len(p) = Cardinality(I) /\ Len(p) \in Nat
<1> DEFINE N == Cardinality(I)
<1>1. DOMAIN s = 1 .. Len(s) /\ Len(s) \in Nat
  BY LenProperties
<1>2. p \in Seq(T) /\ Len(p) = N /\ IsFiniteSet(I)
  BY PickElements
<1>3. N \in Nat
  BY <1>2, FS_CardinalityType
<1>4. PICK at \in [1 .. N -> I] :
        /\ at = Ascending(I)
        /\ \A x \in I : \E n \in 1 .. N : at[n] = x
        /\ \A i, j \in 1 .. N : i < j <=> at[i] < at[j]
        /\ \A n \in 1 .. N : Pick(s, I)[n] = s[at[n]]
  BY PickElements, ZenonT(60)
<1> HIDE DEF N
<1>5. \A n \in 1 .. N : at[n] \in I /\ at[n] \in 1 .. Len(s) /\ p[n] = s[at[n]]
  BY <1>1, <1>4
<1>6. ASSUME NEW i \in 1 .. N, NEW j \in 1 .. N, p[i] = p[j] PROVE i = j
  <2>1. at[i] = at[j]
    BY <1>5, <1>6 DEF Distinct
  <2>2. ~(at[i] < at[j]) /\ ~(at[j] < at[i])
    BY <1>1, <1>5, <2>1
  <2>3. ~(i < j) /\ ~(j < i) /\ i \in Int /\ j \in Int
    BY <1>3, <1>4, <2>2
  <2> QED BY <2>3
<1>7. ToSet(p) = {s[i] : i \in I}
  <2>1. DOMAIN p = 1 .. N
    BY <1>2, LenProperties
  <2>2. \A x \in ToSet(p) : x \in {s[i] : i \in I}
    BY <1>5, <2>1 DEF ToSet
  <2>3. ASSUME NEW i \in I PROVE s[i] \in ToSet(p)
    <3>1. PICK n \in 1 .. N : at[n] = i
      BY <1>4
    <3> QED BY <1>5, <2>1, <3>1 DEF ToSet
  <2> QED BY <2>2, <2>3
<1> QED BY <1>2, <1>3, <1>6, <1>7 DEF Distinct, N

Picked(p, s, I, T) == p \in Seq(T) /\ Distinct(p) /\ ToSet(p) = {s[i] : i \in I}

LEMMA PickPicked ==
  ASSUME NEW T, NEW s \in Seq(T), Distinct(s), NEW I \in SUBSET DOMAIN s
  PROVE  Picked(Pick(s, I), s, I, T)
<1>1. PICK p : p = Pick(s, I)
  OBVIOUS
<1>2. p \in Seq(T) /\ Distinct(p) /\ ToSet(p) = {s[i] : i \in I}
  BY <1>1, PickDistinct
<1> QED BY <1>1, <1>2 DEF Picked

LEMMA BeforeOrders == Orders(Before, Paths)
<1> DEFINE a(f) == Language[f]
           b(f) == Bytes[f]
<1>1. \A f \in Paths : a(f) \in Int /\ b(f) \in Int /\ f \in Int
  BY FileNumbers
<1>2. \A f, g \in Paths : <<f, g>> \in Before <=>
        \/ a(f) < a(g)
        \/ a(f) = a(g) /\ b(f) < b(g)
        \/ a(f) = a(g) /\ b(f) = b(g) /\ f < g
  BY DEF Before
<1> HIDE DEF a, b
<1>3. ASSUME NEW x \in Paths, NEW y \in Paths, x # y PROVE <<x, y>> \in Before \/ <<y, x>> \in Before
  BY <1>1, <1>2, <1>3
<1>4. ASSUME NEW x \in Paths, NEW y \in Paths, <<x, y>> \in Before PROVE <<y, x>> \notin Before
  <2>1. a(x) \in Int /\ b(x) \in Int /\ x \in Int /\ a(y) \in Int /\ b(y) \in Int /\ y \in Int
    BY <1>1
  <2>2. a(x) < a(y) \/ (a(x) = a(y) /\ b(x) < b(y)) \/ (a(x) = a(y) /\ b(x) = b(y) /\ x < y)
    BY <1>2, <1>4
  <2>3. ~(a(y) < a(x) \/ (a(y) = a(x) /\ b(y) < b(x)) \/ (a(y) = a(x) /\ b(y) = b(x) /\ y < x))
    BY <2>1, <2>2
  <2> QED BY <1>2, <2>3
<1>5. ASSUME NEW x \in Paths, NEW y \in Paths, NEW z \in Paths, <<x, y>> \in Before, <<y, z>> \in Before
      PROVE  <<x, z>> \in Before
  <2>1. a(x) \in Int /\ b(x) \in Int /\ x \in Int /\ a(y) \in Int /\ b(y) \in Int /\ y \in Int
        /\ a(z) \in Int /\ b(z) \in Int /\ z \in Int
    BY <1>1
  <2>2. a(x) < a(y) \/ (a(x) = a(y) /\ b(x) < b(y)) \/ (a(x) = a(y) /\ b(x) = b(y) /\ x < y)
    BY <1>2, <1>5
  <2>3. a(y) < a(z) \/ (a(y) = a(z) /\ b(y) < b(z)) \/ (a(y) = a(z) /\ b(y) = b(z) /\ y < z)
    BY <1>2, <1>5
  <2>4. a(x) < a(z) \/ (a(x) = a(z) /\ b(x) < b(z)) \/ (a(x) = a(z) /\ b(x) = b(z) /\ x < z)
    BY <2>1, <2>2, <2>3
  <2> QED BY <1>2, <2>4
<1> QED BY <1>3, <1>4, <1>5 DEF Orders

\* Every file is sorted in, once.
LEMMA SortedFiles == Sorted \in Seq(Paths) /\ Distinct(Sorted) /\ ToSet(Sorted) = Paths
<1> DEFINE N == Cardinality(Paths)
<1>1. IsFiniteSet(Paths) /\ N \in Nat
  BY FileNumbers, FS_CardinalityType
<1>2. /\ Sorted \in [1 .. N -> Paths]
      /\ \A f \in Paths : Preceding(Paths, Before, f) + 1 \in 1 .. N /\ Sorted[Preceding(Paths, Before, f) + 1] = f
      /\ \A i, j \in 1 .. N : i < j <=> <<Sorted[i], Sorted[j]>> \in Before
  BY <1>1, BeforeOrders, InOrderSorts DEF Sorted
<1> HIDE DEF N
<1>3. Sorted \in Seq(Paths) /\ Len(Sorted) = N /\ DOMAIN Sorted = 1 .. N
  <2>1. \A i \in 1 .. N : Sorted[i] \in Paths
    BY <1>2
  <2>2. Sorted = [i \in 1 .. N |-> Sorted[i]]
    BY <1>2
  <2>3. [i \in 1 .. N |-> Sorted[i]] \in Seq(Paths)
    BY <1>1, <2>1, IsASeq
  <2>4. Sorted \in Seq(Paths)
    BY <2>2, <2>3
  <2> QED BY <1>1, <1>2, <2>4, LenProperties
<1>4. ASSUME NEW i \in 1 .. N, NEW j \in 1 .. N, Sorted[i] = Sorted[j] PROVE i = j
  <2>1. Sorted[i] \in Paths
    BY <1>2
  <2>2. <<Sorted[i], Sorted[j]>> \notin Before /\ <<Sorted[j], Sorted[i]>> \notin Before
    BY <1>4, <2>1, BeforeOrders DEF Orders
  <2>3. ~(i < j) /\ ~(j < i) /\ i \in Int /\ j \in Int
    BY <1>1, <1>2, <2>2
  <2> QED BY <2>3
<1>5. ToSet(Sorted) = Paths
  <2>1. \A f \in Paths : \E i \in DOMAIN Sorted : Sorted[i] = f
    BY <1>2, <1>3
  <2>2. \A i \in DOMAIN Sorted : Sorted[i] \in Paths
    BY <1>2, <1>3
  <2> QED BY <2>1, <2>2 DEF ToSet
<1> QED BY <1>3, <1>4, <1>5 DEF Distinct

\* Each file is in one of the three lists, once.
LEMMA ThreeLists ==
  /\ TooLarge \in Seq(Paths) /\ Distinct(TooLarge) /\ ToSet(TooLarge) = {f \in Paths : ~Fits(f)}
  /\ Ordinary \in Seq(Paths) /\ Distinct(Ordinary)
  /\ ToSet(Ordinary) = {f \in Paths : Fits(f) /\ Bytes[f] < StreamingBytes}
  /\ Large \in Seq(Paths) /\ Distinct(Large)
  /\ ToSet(Large) = {f \in Paths : Fits(f) /\ Bytes[f] >= StreamingBytes}
<1> DEFINE A == {i \in DOMAIN Sorted : ~Fits(Sorted[i])}
           B == {i \in DOMAIN Sorted : Fits(Sorted[i]) /\ Bytes[Sorted[i]] < StreamingBytes}
           C == {i \in DOMAIN Sorted : Fits(Sorted[i]) /\ Bytes[Sorted[i]] >= StreamingBytes}
<1>1. TooLarge = Pick(Sorted, A) /\ Ordinary = Pick(Sorted, B) /\ Large = Pick(Sorted, C)
  BY DEF TooLarge, Ordinary, Large
<1>2. /\ {Sorted[i] : i \in A} = {f \in Paths : ~Fits(f)}
      /\ {Sorted[i] : i \in B} = {f \in Paths : Fits(f) /\ Bytes[f] < StreamingBytes}
      /\ {Sorted[i] : i \in C} = {f \in Paths : Fits(f) /\ Bytes[f] >= StreamingBytes}
  <2>1. Paths = {Sorted[i] : i \in DOMAIN Sorted}
    BY SortedFiles DEF ToSet
  <2> QED BY <2>1
<1>3. A \in SUBSET DOMAIN Sorted /\ B \in SUBSET DOMAIN Sorted /\ C \in SUBSET DOMAIN Sorted
  OBVIOUS
<1> HIDE DEF A, B, C
<1>4. TooLarge \in Seq(Paths) /\ Distinct(TooLarge) /\ ToSet(TooLarge) = {Sorted[i] : i \in A}
  BY <1>1, <1>3, SortedFiles, PickDistinct
<1>5. Ordinary \in Seq(Paths) /\ Distinct(Ordinary) /\ ToSet(Ordinary) = {Sorted[i] : i \in B}
  BY <1>1, <1>3, SortedFiles, PickDistinct
<1>6. Large \in Seq(Paths) /\ Distinct(Large) /\ ToSet(Large) = {Sorted[i] : i \in C}
  BY <1>1, <1>3, SortedFiles, PickDistinct
<1> QED BY <1>2, <1>4, <1>5, <1>6

\* A batch begins where the one before it is full, or with another language.
LEMMA StartRule ==
  LET N == Len(Ordinary) IN
  /\ \A i \in 1 .. N : BatchStart[i] \in 1 .. i
  /\ \A i \in 1 .. N : BatchStart[i] # i =>
       /\ i - 1 \in 1 .. N /\ BatchStart[i] = BatchStart[i - 1]
       /\ Language[Ordinary[i]] = Language[Ordinary[i - 1]]
       /\ SumOver(Bytes, {Ordinary[j] : j \in BatchStart[i] .. i}) <= BatchBytes
<1> DEFINE N == Len(Ordinary)
           Cut(i, s) == \/ i = 1
                        \/ Language[Ordinary[i]] # Language[Ordinary[i - 1]]
                        \/ SumOver(Bytes, {Ordinary[j] : j \in s .. i}) > BatchBytes
           Is(f) == f = [i \in DOMAIN Ordinary |-> IF Cut(i, f[i - 1]) THEN i ELSE f[i - 1]]
<1>1. N \in Nat /\ DOMAIN Ordinary = 1 .. N /\ \A i \in 1 .. N : Ordinary[i] \in Paths
  BY ThreeLists, LenProperties
<1>2. BatchStart = CHOOSE f : Is(f)
  BY DEF BatchStart
<1>3. \A i \in 1 .. N : \A s : SumOver(Bytes, {Ordinary[j] : j \in s .. i} \intersect Paths) \in Nat
  <2> SUFFICES ASSUME NEW i \in 1 .. N, NEW s
               PROVE  SumOver(Bytes, {Ordinary[j] : j \in s .. i} \intersect Paths) \in Nat
    OBVIOUS
  <2>1. {Ordinary[j] : j \in s .. i} \intersect Paths \in SUBSET Paths
    OBVIOUS
  <2> QED BY <2>1, FileNumbers, SumSubset
<1> HIDE DEF N, Cut
<1>4. \E f : Is(f)
  <2> DEFINE G == [p \in (1 .. N) \X Nat |-> IF Cut(p[1], p[2]) THEN p[1] ELSE p[2]]
  <2>1. G \in [(1 .. N) \X Nat -> Nat]
    BY <1>1
  <2>2. \A n \in 1 .. N, v \in Nat : G[<<n, v>>] = IF Cut(n, v) THEN n ELSE v
    OBVIOUS
  <2> HIDE DEF G
  <2>3. PICK g \in [0 .. N -> Nat] : g[0] = 0 /\ \A n \in 1 .. N : g[n] = G[<<n, g[n - 1]>>]
    <3>1. 0 \in Nat /\ N \in Nat
      BY <1>1
    <3>2. \E g : Iteration(g, N, Nat, 0, G)
      BY <2>1, <3>1, Iterates
    <3> QED BY <3>2 DEF Iteration
  <2> DEFINE f == [i \in 1 .. N |-> g[i]]
  <2>4. ASSUME NEW i \in 1 .. N PROVE f[i] = IF Cut(i, f[i - 1]) THEN i ELSE f[i - 1]
    <3>1. g[i - 1] \in Nat /\ f[i] = g[i]
      BY <1>1, <2>3
    <3>2. g[i] = IF Cut(i, g[i - 1]) THEN i ELSE g[i - 1]
      BY <2>2, <2>3, <3>1
    <3>3. CASE i = 1
      <4>1. Cut(i, g[i - 1]) /\ Cut(i, f[i - 1])
        BY <3>3 DEF Cut
      <4> HIDE DEF f
      <4> QED BY <3>1, <3>2, <4>1
    <3>4. CASE i # 1
      <4>1. f[i - 1] = g[i - 1]
        BY <1>1, <3>4
      <4> HIDE DEF f
      <4> QED BY <3>1, <3>2, <4>1
    <3> QED BY <3>3, <3>4
  <2>5. Is(f)
    <3>1. f = [i \in 1 .. N |-> f[i]]
      OBVIOUS
    <3>2. PICK h : h = f
      OBVIOUS
    <3>3. h = [i \in 1 .. N |-> h[i]]
      BY <3>1, <3>2
    <3> HIDE DEF f
    <3>4. \A i \in 1 .. N : h[i] = IF Cut(i, h[i - 1]) THEN i ELSE h[i - 1]
      BY <2>4, <3>2
    <3>5. Is(h)
      BY <1>1, <3>3, <3>4
    <3> QED BY <3>2, <3>5
  <2> HIDE DEF Is, f
  <2> QED BY <2>5
<1>5. Is(BatchStart)
  <2> HIDE DEF Is
  <2> QED BY <1>2, <1>4
<1>6. \A i \in 1 .. N : BatchStart[i] = IF Cut(i, BatchStart[i - 1]) THEN i ELSE BatchStart[i - 1]
  BY <1>1, <1>5
<1>7. ASSUME NEW i \in 1 .. N PROVE BatchStart[i] \in 1 .. i
  <2> DEFINE Bad == {k \in 1 .. N : BatchStart[k] \notin 1 .. k}
  <2>1. SUFFICES ASSUME Bad # {} PROVE FALSE
    OBVIOUS
  <2>2. Bad \in SUBSET Nat
    OBVIOUS
  <2> HIDE DEF Bad
  <2>3. PICK k \in Bad : \A l \in Bad : k <= l
    BY <2>1, <2>2, LeastNatural
  <2>4. k \in 1 .. N /\ BatchStart[k] \notin 1 .. k
    BY <2>3 DEF Bad
  <2>5. BatchStart[k] # k
    BY <1>1, <2>4
  <2>6. ~Cut(k, BatchStart[k - 1]) /\ BatchStart[k] = BatchStart[k - 1]
    BY <1>6, <2>4, <2>5
  <2>7. k # 1
    BY <2>6 DEF Cut
  <2>8. k - 1 \in 1 .. N /\ k - 1 \notin Bad
    BY <1>1, <2>2, <2>3, <2>4, <2>7
  <2>9. BatchStart[k - 1] \in 1 .. k - 1
    BY <2>8 DEF Bad
  <2>10. 1 .. k - 1 \subseteq 1 .. k
    BY <1>1, <2>4
  <2> QED BY <2>4, <2>6, <2>9, <2>10
<1>8. ASSUME NEW i \in 1 .. N, BatchStart[i] # i
      PROVE  /\ i - 1 \in 1 .. N /\ BatchStart[i] = BatchStart[i - 1]
             /\ Language[Ordinary[i]] = Language[Ordinary[i - 1]]
             /\ SumOver(Bytes, {Ordinary[j] : j \in BatchStart[i] .. i}) <= BatchBytes
  <2>1. ~Cut(i, BatchStart[i - 1]) /\ BatchStart[i] = BatchStart[i - 1]
    BY <1>6, <1>8
  <2>2. i # 1 /\ Language[Ordinary[i]] = Language[Ordinary[i - 1]]
    BY <2>1 DEF Cut
  <2>3. ~(SumOver(Bytes, {Ordinary[j] : j \in BatchStart[i] .. i}) > BatchBytes)
    BY <2>1 DEF Cut
  <2>4. SumOver(Bytes, {Ordinary[j] : j \in BatchStart[i] .. i}) \in Nat
    <3>1. BatchStart[i] \in 1 .. i
      BY <1>7
    <3>2. \A j \in BatchStart[i] .. i : j \in 1 .. N
      BY <1>1, <3>1
    <3>3. {Ordinary[j] : j \in BatchStart[i] .. i} \intersect Paths = {Ordinary[j] : j \in BatchStart[i] .. i}
      BY <1>1, <3>2
    <3> QED BY <1>3, <3>3
  <2>5. i - 1 \in 1 .. N
    BY <1>1, <2>2
  <2> QED BY <2>1, <2>2, <2>3, <2>4, <2>5, FileNumbers
<1> QED BY <1>7, <1>8 DEF N

LEMMA GroupLight ==
  ASSUME NEW s, NEW G, G = {i \in DOMAIN Ordinary : BatchStart[i] = s}
  PROVE  Light({Ordinary[i] : i \in G})
<1> DEFINE N == Len(Ordinary)
<1>1. N \in Nat /\ DOMAIN Ordinary = 1 .. N /\ \A i \in 1 .. N : Ordinary[i] \in Paths
  BY ThreeLists, LenProperties
<1>2. \A i \in G : i \in 1 .. N /\ BatchStart[i] = s /\ s \in 1 .. i
  BY <1>1, StartRule
<1>3. \A i \in G : i # s => /\ i - 1 \in G /\ Language[Ordinary[i]] = Language[Ordinary[i - 1]]
                            /\ SumOver(Bytes, {Ordinary[j] : j \in s .. i}) <= BatchBytes
  <2> SUFFICES ASSUME NEW i \in G, i # s
               PROVE  /\ i - 1 \in G /\ Language[Ordinary[i]] = Language[Ordinary[i - 1]]
                      /\ SumOver(Bytes, {Ordinary[j] : j \in s .. i}) <= BatchBytes
    OBVIOUS
  <2>1. i \in 1 .. N /\ BatchStart[i] = s /\ BatchStart[i] # i
    BY <1>2
  <2>2. /\ i - 1 \in 1 .. N /\ BatchStart[i] = BatchStart[i - 1]
        /\ Language[Ordinary[i]] = Language[Ordinary[i - 1]]
        /\ SumOver(Bytes, {Ordinary[j] : j \in BatchStart[i] .. i}) <= BatchBytes
    BY <2>1, StartRule
  <2> QED BY <1>1, <2>1, <2>2
<1> HIDE DEF N
<1>4. ASSUME NEW k \in G PROVE Language[Ordinary[k]] = Language[Ordinary[s]]
  <2> DEFINE Bad == {i \in G : Language[Ordinary[i]] # Language[Ordinary[s]]}
  <2>1. SUFFICES ASSUME Bad # {} PROVE FALSE
    OBVIOUS
  <2>2. Bad \in SUBSET Nat
    BY <1>1, <1>2
  <2> HIDE DEF Bad
  <2>3. PICK i \in Bad : \A l \in Bad : i <= l
    BY <2>1, <2>2, LeastNatural
  <2>4. i \in G /\ Language[Ordinary[i]] # Language[Ordinary[s]] /\ i # s
    BY <2>3 DEF Bad
  <2>5. i - 1 \in G /\ Language[Ordinary[i]] = Language[Ordinary[i - 1]]
    BY <1>3, <2>4
  <2>6. i - 1 \in Bad
    BY <2>4, <2>5 DEF Bad
  <2> QED BY <2>2, <2>3, <2>6
<1> DEFINE S == {Ordinary[i] : i \in G}
<1>5. \A f, g \in S : Language[f] = Language[g]
  BY <1>4
<1>6. SumOver(Bytes, S) <= BatchBytes \/ \A f, g \in S : f = g
  <2>1. CASE G = {}
    BY <2>1
  <2>2. CASE G # {}
    <3>1. G \in SUBSET (0 .. N)
      BY <1>1, <1>2
    <3>2. PICK e \in G : \A i \in G : i <= e
      BY <1>1, <2>2, <3>1, Largest
    <3>3. CASE e = s
      <4>1. \A i \in G : i = s
        <5> SUFFICES ASSUME NEW i \in G PROVE i = s
          OBVIOUS
        <5>1. i \in Int /\ s \in 1 .. i /\ i <= s
          BY <1>1, <1>2, <3>2, <3>3
        <5> QED BY <5>1
      <4> QED BY <4>1
    <3>4. CASE e # s
      <4> DEFINE T == {Ordinary[j] : j \in s .. e}
      <4>1. SumOver(Bytes, T) <= BatchBytes
        BY <1>3, <3>4
      <4>2. T \in SUBSET Paths
        <5>1. \A j \in s .. e : j \in 1 .. N
          <6>1. e \in 1 .. N /\ s \in 1 .. e
            BY <1>2
          <6> QED BY <1>1, <6>1
        <5> QED BY <1>1, <5>1
      <4>3. S \in SUBSET T
        <5>1. \A i \in G : i \in s .. e
          <6> SUFFICES ASSUME NEW i \in G PROVE i \in s .. e
            OBVIOUS
          <6>1. i \in 1 .. N /\ s \in 1 .. i /\ i <= e /\ e \in 1 .. N
            BY <1>2, <3>2
          <6> QED BY <1>1, <6>1
        <5> QED BY <5>1
      <4> HIDE DEF S, T
      <4>4. IsFiniteSet(T) /\ SumOver(Bytes, T) \in Nat /\ \A f \in T : Bytes[f] \in Nat
        BY <4>2, FileNumbers, SumSubset
      <4>5. SumOver(Bytes, S) <= SumOver(Bytes, T) /\ SumOver(Bytes, S) \in Nat
        BY <4>3, <4>4, SumSubset
      <4> QED BY <4>1, <4>4, <4>5, FileNumbers
    <3> QED BY <3>3, <3>4
  <2> QED BY <2>1, <2>2
<1> QED BY <1>5, <1>6 DEF Light

\* The batches of a request: every file that fits, in one batch of them.
LEMMA RequestPlan ==
  /\ Batches \in Seq(Seq(Paths)) /\ PlanOK(Batches)
  /\ Waiting(Batches) = {f \in Paths : Fits(f)}
<1> DEFINE N == Len(Ordinary)
           S == {BatchStart[i] : i \in DOMAIN Ordinary}
           starts == Ascending(S)
           M == Cardinality(S)
           G(n) == {i \in DOMAIN Ordinary : BatchStart[i] = starts[n]}
           a == [n \in DOMAIN starts |-> Pick(Ordinary, G(n))]
           b == [n \in DOMAIN Large |-> <<Large[n]>>]
           L == Len(Large)
<1>1. N \in Nat /\ DOMAIN Ordinary = 1 .. N /\ L \in Nat /\ DOMAIN Large = 1 .. L
  BY ThreeLists, LenProperties
<1>2. \A i \in 1 .. N : Ordinary[i] \in Paths
  BY ThreeLists, LenProperties
<1>3. \A n \in 1 .. L : Large[n] \in Paths
  BY ThreeLists, LenProperties
<1>4. Batches = a \o b
  BY DEF Batches
<1>5. S \in SUBSET Nat /\ IsFiniteSet(S)
  <2>1. \A i \in 1 .. N : BatchStart[i] \in 1 .. i
    BY StartRule
  <2>2. \A i \in 1 .. N : BatchStart[i] \in 1 .. N
    BY <1>1, <2>1
  <2>3. S \in SUBSET (1 .. N)
    BY <1>1, <2>2
  <2>4. IsFiniteSet(1 .. N)
    BY <1>1, FS_Interval
  <2> QED BY <2>3, <2>4, FS_Subset
<1> HIDE DEF S, N, L
<1>6. /\ M \in Nat /\ starts \in [1 .. M -> S]
      /\ \A x \in S : \E n \in 1 .. M : starts[n] = x
      /\ \A i, j \in 1 .. M : i < j <=> starts[i] < starts[j]
  BY <1>5, AscendingSorts
<1> HIDE DEF starts, M
<1>7. \A m, n \in 1 .. M : m # n => starts[m] # starts[n]
  <2> SUFFICES ASSUME NEW m \in 1 .. M, NEW n \in 1 .. M, m # n PROVE starts[m] # starts[n]
    OBVIOUS
  <2>1. m < n \/ n < m
    BY <1>6
  <2>2. starts[m] \in Nat /\ starts[n] \in Nat
    BY <1>5, <1>6
  <2> QED BY <1>6, <2>1, <2>2
<1>8. ASSUME NEW n \in 1 .. M
      PROVE  /\ a[n] \in Seq(Paths) /\ Distinct(a[n]) /\ ToSet(a[n]) = {Ordinary[i] : i \in G(n)}
             /\ Light(ToSet(a[n]))
  <2>1. a[n] = Pick(Ordinary, G(n))
    BY <1>6
  <2>2. G(n) \in SUBSET DOMAIN Ordinary
    OBVIOUS
  <2>3. Light({Ordinary[i] : i \in G(n)})
    BY GroupLight
  <2> HIDE DEF G, a
  <2>4. a[n] \in Seq(Paths) /\ Distinct(a[n]) /\ ToSet(a[n]) = {Ordinary[i] : i \in G(n)}
    BY <2>1, <2>2, ThreeLists, PickDistinct
  <2> QED BY <2>3, <2>4
<1>9. a \in Seq(Seq(Paths)) /\ Len(a) = M
  <2>1. a = [n \in 1 .. M |-> a[n]]
    BY <1>6
  <2> HIDE DEF a
  <2>2. [n \in 1 .. M |-> a[n]] \in Seq(Seq(Paths))
    BY <1>6, <1>8, IsASeq
  <2>3. a \in Seq(Seq(Paths)) /\ DOMAIN a = 1 .. M
    BY <2>1, <2>2
  <2> QED BY <1>6, <2>3, LenProperties
<1>10. ASSUME NEW n \in 1 .. L
       PROVE  b[n] \in Seq(Paths) /\ Distinct(b[n]) /\ ToSet(b[n]) = {Large[n]} /\ Light(ToSet(b[n]))
  <2>1. b[n] = <<Large[n]>>
    BY <1>1
  <2>2. <<Large[n]>> \in Seq(Paths) /\ ToSet(<<Large[n]>>) = {Large[n]} /\ Len(<<Large[n]>>) = 1
    BY <1>3 DEF ToSet
  <2>3. Distinct(<<Large[n]>>)
    BY <2>2 DEF Distinct
  <2>4. Light({Large[n]})
    BY DEF Light
  <2> QED BY <2>1, <2>2, <2>3, <2>4
<1>11. b \in Seq(Seq(Paths)) /\ Len(b) = L
  <2>1. b = [n \in 1 .. L |-> b[n]]
    BY <1>1
  <2> HIDE DEF b
  <2>2. [n \in 1 .. L |-> b[n]] \in Seq(Seq(Paths))
    BY <1>1, <1>10, IsASeq
  <2>3. b \in Seq(Seq(Paths)) /\ DOMAIN b = 1 .. L
    BY <2>1, <2>2
  <2> QED BY <1>1, <2>3, LenProperties
<1>12. \A m, n \in 1 .. M : m # n => ToSet(a[m]) \intersect ToSet(a[n]) = {}
  <2> SUFFICES ASSUME NEW m \in 1 .. M, NEW n \in 1 .. M, m # n, NEW f \in ToSet(a[m]), f \in ToSet(a[n])
               PROVE  FALSE
    OBVIOUS
  <2> HIDE DEF a
  <2>1. PICK i \in G(m) : f = Ordinary[i]
    BY <1>8
  <2>2. PICK j \in G(n) : f = Ordinary[j]
    BY <1>8
  <2>3. i = j
    BY <1>1, <2>1, <2>2, ThreeLists DEF Distinct, N
  <2> QED BY <1>7, <2>1, <2>2, <2>3
<1>13. \A m, n \in 1 .. L : m # n => ToSet(b[m]) \intersect ToSet(b[n]) = {}
  <2> SUFFICES ASSUME NEW m \in 1 .. L, NEW n \in 1 .. L, m # n PROVE ToSet(b[m]) \intersect ToSet(b[n]) = {}
    OBVIOUS
  <2>1. Large[m] # Large[n]
    BY ThreeLists DEF Distinct, L
  <2>2. ToSet(b[m]) = {Large[m]} /\ ToSet(b[n]) = {Large[n]}
    BY <1>10
  <2> QED BY <2>1, <2>2
<1>14. \A m \in 1 .. M, n \in 1 .. L : ToSet(a[m]) \intersect ToSet(b[n]) = {}
  <2> SUFFICES ASSUME NEW m \in 1 .. M, NEW n \in 1 .. L, NEW f \in ToSet(a[m]), f \in ToSet(b[n])
               PROVE  FALSE
    OBVIOUS
  <2> HIDE DEF a, b
  <2>1. f \in ToSet(Ordinary)
    <3>1. PICK i \in G(m) : f = Ordinary[i]
      BY <1>8
    <3> QED BY <3>1 DEF ToSet
  <2>2. f \in ToSet(Large)
    BY <1>1, <1>10 DEF ToSet
  <2>3. \A x, y \in Nat : ~(x < y /\ x >= y)
    OBVIOUS
  <2>4. f \in Paths /\ Bytes[f] < StreamingBytes /\ Bytes[f] >= StreamingBytes
    BY <2>1, <2>2, ThreeLists
  <2> QED BY <2>3, <2>4, FileNumbers
<1> HIDE DEF a, b
<1>15. PICK c : c = a \o b
  OBVIOUS
<1>16. /\ c \in Seq(Seq(Paths)) /\ Len(c) = M + L
       /\ \A n \in 1 .. M + L : c[n] = IF n <= M THEN a[n] ELSE b[n - M]
  BY <1>9, <1>11, <1>15, ConcatProperties
<1>17. \A n \in 1 .. M + L : \/ n \in 1 .. M /\ c[n] = a[n]
                             \/ ~(n <= M) /\ n - M \in 1 .. L /\ c[n] = b[n - M]
  BY <1>1, <1>6, <1>16
<1>18. PlanOK(c)
  <2>1. \A n \in 1 .. Len(c) : Distinct(c[n]) /\ Light(ToSet(c[n]))
    BY <1>8, <1>10, <1>16, <1>17
  <2>2. ASSUME NEW m \in 1 .. Len(c), NEW n \in 1 .. Len(c), m # n
        PROVE  ToSet(c[m]) \intersect ToSet(c[n]) = {}
    <3>1. m \in 1 .. M + L /\ n \in 1 .. M + L
      BY <1>16
    <3>2. CASE m \in 1 .. M /\ n \in 1 .. M
      BY <1>12, <1>17, <2>2, <3>1, <3>2, <1>6
    <3>3. CASE m \in 1 .. M /\ ~(n \in 1 .. M)
      BY <1>14, <1>17, <3>1, <3>3, <1>6
    <3>4. CASE ~(m \in 1 .. M) /\ n \in 1 .. M
      <4>1. m - M \in 1 .. L /\ c[m] = b[m - M] /\ c[n] = a[n]
        BY <1>6, <1>17, <3>1, <3>4
      <4>2. ToSet(a[n]) \intersect ToSet(b[m - M]) = {}
        BY <1>14, <3>4, <4>1
      <4> QED BY <4>1, <4>2
    <3>5. CASE ~(m \in 1 .. M) /\ ~(n \in 1 .. M)
      <4>1. m - M \in 1 .. L /\ n - M \in 1 .. L /\ c[m] = b[m - M] /\ c[n] = b[n - M]
        BY <1>17, <3>1, <3>5
      <4>2. m - M # n - M
        BY <1>1, <1>6, <2>2, <3>1
      <4> QED BY <1>13, <4>1, <4>2
    <3> QED BY <3>2, <3>3, <3>4, <3>5
  <2> QED BY <2>1, <2>2 DEF PlanOK
<1>19. Waiting(c) = {f \in Paths : Fits(f)}
  <2>1. ASSUME NEW f \in Waiting(c) PROVE f \in Paths /\ Fits(f)
    <3>1. PICK n \in 1 .. M + L : f \in ToSet(c[n])
      BY <1>16 DEF Waiting
    <3>2. f \in ToSet(Ordinary) \/ f \in ToSet(Large)
      <4>1. CASE n \in 1 .. M /\ c[n] = a[n]
        <5>1. PICK i \in G(n) : f = Ordinary[i]
          BY <1>8, <3>1, <4>1
        <5> QED BY <5>1 DEF ToSet
      <4>2. CASE n - M \in 1 .. L /\ c[n] = b[n - M]
        <5>1. f = Large[n - M]
          BY <1>10, <3>1, <4>2
        <5> QED BY <1>1, <4>2, <5>1 DEF ToSet
      <4> QED BY <1>17, <4>1, <4>2
    <3> QED BY <3>2, ThreeLists
  <2>2. ASSUME NEW f \in Paths, Fits(f) PROVE f \in Waiting(c)
    <3>1. Bytes[f] < StreamingBytes \/ Bytes[f] >= StreamingBytes
      BY FileNumbers
    <3>2. CASE f \in ToSet(Ordinary)
      <4>1. PICK i \in 1 .. N : Ordinary[i] = f
        BY <1>1, <3>2 DEF ToSet
      <4>2. BatchStart[i] \in S
        BY <1>1, <4>1 DEF S
      <4>3. PICK n \in 1 .. M : starts[n] = BatchStart[i]
        BY <1>6, <4>2
      <4>4. i \in G(n)
        BY <1>1, <4>3
      <4>5. f \in ToSet(a[n])
        BY <1>8, <4>1, <4>4
      <4>6. n \in 1 .. M + L /\ c[n] = a[n]
        BY <1>1, <1>6, <1>16, <4>3
      <4> QED BY <1>16, <4>5, <4>6 DEF Waiting
    <3>3. CASE f \in ToSet(Large)
      <4>1. PICK n \in 1 .. L : Large[n] = f
        BY <1>1, <3>3 DEF ToSet
      <4>2. f \in ToSet(b[n])
        BY <1>10, <4>1
      <4>3. M + n \in 1 .. M + L /\ ~(M + n <= M) /\ M + n - M = n
        BY <1>1, <1>6, <4>1
      <4>4. PICK k : k = M + n
        OBVIOUS
      <4>5. k \in 1 .. M + L /\ ~(k <= M) /\ k - M = n
        BY <1>1, <1>6, <4>1, <4>4
      <4>6. c[k] = b[n]
        BY <1>16, <4>5
      <4> QED BY <1>16, <4>2, <4>5, <4>6 DEF Waiting
    <3> QED BY <2>2, <3>1, <3>2, <3>3, ThreeLists
  <2> QED BY <2>1, <2>2
<1> QED BY <1>4, <1>15, <1>16, <1>18, <1>19

-----------------------------------------------------------------------------
(* Streams                                                                   *)

LEMMA JoinedParts ==
  ASSUME NEW T, NEW o \in Seq(T), NEW u \in Seq(T), NEW c, c = o \o u
  PROVE  /\ c \in Seq(T) /\ Len(o) \in Nat /\ Len(u) \in Nat /\ Len(c) = Len(o) + Len(u)
         /\ \A i \in 1 .. Len(o) : i \in 1 .. Len(c) /\ c[i] = o[i]
         /\ \A i \in 1 .. Len(u) : Len(o) + i \in 1 .. Len(c) /\ c[Len(o) + i] = u[i]
         /\ \A i \in 1 .. Len(c) : i \in 1 .. Len(o) \/ i - Len(o) \in 1 .. Len(u)
         /\ ToSet(c) = ToSet(o) \union ToSet(u)
<1>1. Len(o) \in Nat /\ Len(u) \in Nat /\ DOMAIN o = 1 .. Len(o) /\ DOMAIN u = 1 .. Len(u)
  BY LenProperties
<1>2. /\ c \in Seq(T) /\ Len(c) = Len(o) + Len(u)
      /\ \A i \in 1 .. Len(o) + Len(u) : c[i] = IF i <= Len(o) THEN o[i] ELSE u[i - Len(o)]
  BY ConcatProperties
<1>3. \A i \in 1 .. Len(o) : i \in 1 .. Len(c) /\ c[i] = o[i]
  BY <1>1, <1>2
<1>4. ASSUME NEW i \in 1 .. Len(u) PROVE Len(o) + i \in 1 .. Len(c) /\ c[Len(o) + i] = u[i]
  <2>1. PICK k : k = Len(o) + i
    OBVIOUS
  <2>2. k \in 1 .. Len(o) + Len(u) /\ ~(k <= Len(o)) /\ k - Len(o) = i
    BY <1>1, <2>1
  <2>3. c[k] = u[i]
    BY <1>2, <2>2
  <2> QED BY <1>2, <2>1, <2>2, <2>3
<1>5. \A i \in 1 .. Len(c) : i \in 1 .. Len(o) \/ i - Len(o) \in 1 .. Len(u)
  BY <1>1, <1>2
<1>6. ToSet(c) = ToSet(o) \union ToSet(u)
  <2>1. DOMAIN c = 1 .. Len(c)
    BY <1>2, LenProperties
  <2>2. ASSUME NEW x \in ToSet(c) PROVE x \in ToSet(o) \union ToSet(u)
    <3>1. PICK i \in 1 .. Len(c) : c[i] = x
      BY <2>1 DEF ToSet
    <3>2. CASE i \in 1 .. Len(o)
      BY <1>1, <1>3, <3>1, <3>2 DEF ToSet
    <3>3. CASE i - Len(o) \in 1 .. Len(u)
      <4>1. PICK k \in 1 .. Len(u) : k = i - Len(o)
        BY <3>3
      <4>2. Len(o) + k = i
        BY <1>1, <1>2, <3>1, <4>1
      <4>3. u[k] = x
        BY <1>4, <3>1, <4>2
      <4> QED BY <1>1, <4>3 DEF ToSet
    <3> QED BY <1>5, <3>2, <3>3
  <2>3. ASSUME NEW x \in ToSet(o) PROVE x \in ToSet(c)
    <3>1. PICK i \in 1 .. Len(o) : o[i] = x
      BY <1>1 DEF ToSet
    <3> QED BY <1>3, <2>1, <3>1 DEF ToSet
  <2>4. ASSUME NEW x \in ToSet(u) PROVE x \in ToSet(c)
    <3>1. PICK i \in 1 .. Len(u) : u[i] = x
      BY <1>1 DEF ToSet
    <3>2. PICK k \in 1 .. Len(c) : k = Len(o) + i /\ c[k] = u[i]
      BY <1>4
    <3> QED BY <2>1, <3>1, <3>2 DEF ToSet
  <2> QED BY <2>2, <2>3, <2>4
<1> QED BY <1>1, <1>2, <1>3, <1>4, <1>5, <1>6

Joined(c, o, u) ==
  /\ c \in Seq(Event) /\ Len(o) \in Nat /\ Len(u) \in Nat /\ Len(c) = Len(o) + Len(u)
  /\ \A i \in 1 .. Len(o) : i \in 1 .. Len(c) /\ c[i] = o[i]
  /\ \A i \in 1 .. Len(u) : Len(o) + i \in 1 .. Len(c) /\ c[Len(o) + i] = u[i]
  /\ \A i \in 1 .. Len(c) : i \in 1 .. Len(o) \/ i - Len(o) \in 1 .. Len(u)

LEMMA JoinedEvents ==
  ASSUME NEW o \in Seq(Event), NEW u \in Seq(Event), NEW c, c = o \o u
  PROVE  Joined(c, o, u)
<1>1. c \in Seq(Event) /\ Len(o) \in Nat /\ Len(u) \in Nat /\ Len(c) = Len(o) + Len(u)
  BY JoinedParts
<1>2. \A i \in 1 .. Len(o) : i \in 1 .. Len(c) /\ c[i] = o[i]
  BY JoinedParts
<1>3. \A i \in 1 .. Len(u) : Len(o) + i \in 1 .. Len(c) /\ c[Len(o) + i] = u[i]
  BY JoinedParts
<1>4. \A i \in 1 .. Len(c) : i \in 1 .. Len(o) \/ i - Len(o) \in 1 .. Len(u)
  BY JoinedParts
<1> QED BY <1>1, <1>2, <1>3, <1>4 DEF Joined

LEMMA SilentJoined ==
  ASSUME NEW o \in Seq(Event), NEW u \in Seq(Event), NEW q, NEW f,
         Silent(o, q, f), Silent(u, q, f)
  PROVE  Silent(o \o u, q, f)
<1>1. PICK c : c = o \o u
  OBVIOUS
<1>2. ASSUME NEW i \in 1 .. Len(c) PROVE ~About(c[i], q, f)
  <2>1. CASE i \in 1 .. Len(o)
    BY <1>1, <2>1, JoinedParts DEF Silent
  <2>2. CASE i - Len(o) \in 1 .. Len(u)
    <3>1. PICK k \in 1 .. Len(u) : k = i - Len(o)
      BY <2>2
    <3>2. Len(o) \in Nat /\ Len(u) \in Nat /\ Len(c) = Len(o) + Len(u) /\ c[Len(o) + k] = u[k]
      BY <1>1, JoinedParts
    <3>3. Len(o) + k = i
      BY <3>1, <3>2
    <3> QED BY <3>2, <3>3 DEF Silent
  <2> QED BY <1>1, <2>1, <2>2, JoinedParts
<1> QED BY <1>1, <1>2 DEF Silent

LEMMA StreamedBefore ==
  ASSUME NEW o \in Seq(Event), NEW u \in Seq(Event), NEW q, NEW f, NEW s, NEW n, NEW p,
         Streamed(o, q, f, s, n, p), Silent(u, q, f)
  PROVE  Streamed(o \o u, q, f, s, n, p) /\ p \in 1 .. Len(o \o u)
<1>1. PICK c : c = o \o u
  OBVIOUS
<1>2. /\ Len(o) \in Nat /\ Len(u) \in Nat /\ Len(c) = Len(o) + Len(u)
      /\ \A i \in 1 .. Len(o) : i \in 1 .. Len(c) /\ c[i] = o[i]
      /\ \A i \in 1 .. Len(u) : c[Len(o) + i] = u[i]
      /\ \A i \in 1 .. Len(c) : i \in 1 .. Len(o) \/ i - Len(o) \in 1 .. Len(u)
  BY <1>1, JoinedParts
<1>3. /\ p \in 1 .. Len(o) /\ n \in 0 .. p - 1 /\ o[p].type = "file" /\ o[p].status = s
      /\ \A i \in 1 .. Len(o) : About(o[i], q, f) <=> i \in p - n .. p
      /\ \A i \in p - n .. p - 1 : o[i].type = "chunk"
  BY DEF Streamed
<1>4. ASSUME NEW i \in 1 .. Len(c) PROVE About(c[i], q, f) <=> i \in p - n .. p
  <2>1. CASE i \in 1 .. Len(o)
    BY <1>2, <1>3, <2>1
  <2>2. CASE i - Len(o) \in 1 .. Len(u)
    <3>1. PICK k \in 1 .. Len(u) : k = i - Len(o)
      BY <2>2
    <3>2. Len(o) + k = i /\ i \notin p - n .. p
      BY <1>2, <1>3, <3>1
    <3>3. c[i] = u[k] /\ ~About(u[k], q, f)
      BY <1>2, <3>2 DEF Silent
    <3> QED BY <3>2, <3>3
  <2> QED BY <1>2, <2>1, <2>2
<1>5. \A i \in p - n .. p - 1 : i \in 1 .. Len(o)
  BY <1>2, <1>3
<1>6. Streamed(c, q, f, s, n, p)
  BY <1>2, <1>3, <1>4, <1>5 DEF Streamed
<1> QED BY <1>1, <1>2, <1>3, <1>6

LEMMA StreamedAfter ==
  ASSUME NEW o \in Seq(Event), NEW u \in Seq(Event), NEW q, NEW f, NEW s, NEW n, NEW p,
         Silent(o, q, f), Streamed(u, q, f, s, n, p)
  PROVE  \E r \in 1 .. Len(o \o u) : Streamed(o \o u, q, f, s, n, r)
<1>1. PICK c : c = o \o u
  OBVIOUS
<1>2. /\ Len(o) \in Nat /\ Len(u) \in Nat /\ Len(c) = Len(o) + Len(u)
      /\ \A i \in 1 .. Len(o) : i \in 1 .. Len(c) /\ c[i] = o[i]
      /\ \A i \in 1 .. Len(u) : Len(o) + i \in 1 .. Len(c) /\ c[Len(o) + i] = u[i]
      /\ \A i \in 1 .. Len(c) : i \in 1 .. Len(o) \/ i - Len(o) \in 1 .. Len(u)
  BY <1>1, JoinedParts
<1>3. /\ p \in 1 .. Len(u) /\ n \in 0 .. p - 1 /\ u[p].type = "file" /\ u[p].status = s
      /\ \A i \in 1 .. Len(u) : About(u[i], q, f) <=> i \in p - n .. p
      /\ \A i \in p - n .. p - 1 : u[i].type = "chunk"
  BY DEF Streamed
<1>4. PICK r : r = Len(o) + p
  OBVIOUS
<1>5. r \in 1 .. Len(c) /\ n \in 0 .. r - 1 /\ c[r] = u[p]
  BY <1>2, <1>3, <1>4
<1>6. ASSUME NEW i \in 1 .. Len(c) PROVE About(c[i], q, f) <=> i \in r - n .. r
  <2>1. CASE i \in 1 .. Len(o)
    <3>1. i \notin r - n .. r
      BY <1>2, <1>3, <1>4, <2>1
    <3>2. c[i] = o[i] /\ ~About(o[i], q, f)
      BY <1>2, <2>1 DEF Silent
    <3> QED BY <3>1, <3>2
  <2>2. CASE i - Len(o) \in 1 .. Len(u)
    <3>1. PICK k \in 1 .. Len(u) : k = i - Len(o)
      BY <2>2
    <3>2. Len(o) + k = i /\ (i \in r - n .. r <=> k \in p - n .. p)
      BY <1>2, <1>3, <1>4, <3>1
    <3>3. c[i] = u[k]
      BY <1>2, <3>2
    <3> QED BY <1>3, <3>2, <3>3
  <2> QED BY <1>2, <2>1, <2>2
<1>7. ASSUME NEW i \in r - n .. r - 1 PROVE c[i].type = "chunk"
  <2>1. PICK k : k = i - Len(o)
    OBVIOUS
  <2>2. k \in p - n .. p - 1 /\ k \in 1 .. Len(u) /\ Len(o) + k = i
    BY <1>2, <1>3, <1>4, <2>1
  <2> QED BY <1>2, <1>3, <2>2
<1>8. Streamed(c, q, f, s, n, r)
  BY <1>3, <1>5, <1>6, <1>7 DEF Streamed
<1> QED BY <1>1, <1>5, <1>8

\* Events about other files, or of other requests, change nothing for a file.
LEMMA FileJoined ==
  ASSUME NEW o \in Seq(Event), NEW u \in Seq(Event), NEW q, NEW f, NEW a, NEW b, NEW d, NEW idle,
         FileOK(o, q, f, a, b, d, idle), Silent(u, q, f)
  PROVE  FileOK(o \o u, q, f, a, b, d, idle)
<1>1. Silent(o, q, f) => Silent(o \o u, q, f)
  BY SilentJoined
<1>2. ASSUME NEW p \in 1 .. Len(o), Streamed(o, q, f, a.status, a.chunks - b, p)
      PROVE  \E r \in 1 .. Len(o \o u) : Streamed(o \o u, q, f, a.status, a.chunks - b, r)
  BY <1>2, StreamedBefore
<1> QED BY <1>1, <1>2 DEF FileOK

LEMMA FileAnswered ==
  ASSUME NEW o \in Seq(Event), NEW u \in Seq(Event), NEW q, NEW f, NEW a, NEW b, NEW d, NEW idle,
         FileOK(o, q, f, a, b, d, idle), a.status = "none",
         NEW e \in Answer, e.status # "none", NEW p, Streamed(u, q, f, e.status, e.chunks, p)
  PROVE  FileOK(o \o u, q, f, e, b, d, idle)
<1>1. d = Unanswered /\ b = 0 /\ Silent(o, q, f)
  BY DEF FileOK
<1>2. \E r \in 1 .. Len(o \o u) : Streamed(o \o u, q, f, e.status, e.chunks, r)
  BY <1>1, StreamedAfter
<1>3. e.chunks \in Nat
  BY WorkerAssumption DEF Answer
<1>4. e.chunks - b = e.chunks /\ b \in 0 .. e.chunks
  BY <1>1, <1>3
<1> QED BY <1>1, <1>2, <1>4 DEF FileOK

LEMMA TailParts ==
  ASSUME NEW T, NEW o \in Seq(T), o # <<>>, NEW t, t = Tail(o)
  PROVE  /\ t \in Seq(T) /\ Len(o) \in Nat /\ Len(t) = Len(o) - 1 /\ Len(t) \in Nat
         /\ \A i \in 1 .. Len(t) : i + 1 \in 1 .. Len(o) /\ t[i] = o[i + 1]
         /\ Head(o) = o[1] /\ 1 \in 1 .. Len(o) /\ Head(o) \in T
         /\ \A x \in ToSet(t) : x \in ToSet(o)
         /\ \A x \in ToSet(o) : x = Head(o) \/ x \in ToSet(t)
<1>1. /\ t \in Seq(T) /\ Len(t) = Len(o) - 1 /\ \A i \in 1 .. Len(t) : t[i] = o[i + 1]
      /\ Head(o) = o[1] /\ Head(o) \in T
  BY HeadTailProperties
<1>2. Len(o) \in Nat /\ Len(t) \in Nat /\ DOMAIN o = 1 .. Len(o) /\ DOMAIN t = 1 .. Len(t)
  BY <1>1, LenProperties
<1>3. 1 \in 1 .. Len(o) /\ \A i \in 1 .. Len(t) : i + 1 \in 1 .. Len(o)
  BY <1>1, <1>2
<1>4. \A x \in ToSet(t) : x \in ToSet(o)
  BY <1>1, <1>2, <1>3 DEF ToSet
<1>5. ASSUME NEW x \in ToSet(o), x # Head(o) PROVE x \in ToSet(t)
  <2>1. PICK i \in 1 .. Len(o) : o[i] = x
    BY <1>2 DEF ToSet
  <2>2. PICK k : k = i - 1
    OBVIOUS
  <2>3. k \in 1 .. Len(t) /\ k + 1 = i
    BY <1>1, <1>2, <1>5, <2>1, <2>2
  <2>4. t[k] = x
    BY <1>1, <2>1, <2>3
  <2> QED BY <1>2, <2>3, <2>4 DEF ToSet
<1> QED BY <1>1, <1>2, <1>3, <1>4, <1>5

TailOf(t, o, T) ==
  /\ t \in Seq(T) /\ Len(o) \in Nat /\ Len(t) = Len(o) - 1 /\ Len(t) \in Nat
  /\ \A i \in 1 .. Len(t) : i + 1 \in 1 .. Len(o) /\ t[i] = o[i + 1]
  /\ Head(o) = o[1] /\ 1 \in 1 .. Len(o) /\ Head(o) \in T
  /\ \A x \in ToSet(t) : x \in ToSet(o)
  /\ Head(o) \in ToSet(o)

LEMMA TailElements ==
  ASSUME NEW T, NEW o \in Seq(T), o # <<>>
  PROVE  TailOf(Tail(o), o, T)
<1>1. PICK t : t = Tail(o)
  OBVIOUS
<1>2. /\ t \in Seq(T) /\ Len(o) \in Nat /\ Len(t) = Len(o) - 1 /\ Len(t) \in Nat
      /\ \A i \in 1 .. Len(t) : i + 1 \in 1 .. Len(o) /\ t[i] = o[i + 1]
      /\ Head(o) = o[1] /\ 1 \in 1 .. Len(o) /\ Head(o) \in T
  BY <1>1, TailParts
<1>3. \A x \in ToSet(t) : x \in ToSet(o)
  BY <1>1, TailParts
<1>4. Head(o) \in ToSet(o)
  BY <1>2, LenProperties DEF ToSet
<1> QED BY <1>1, <1>2, <1>3, <1>4 DEF TailOf

LEMMA TailStreamed ==
  ASSUME NEW o \in Seq(Event), o # <<>>, NEW q, NEW f, NEW s, NEW n, NEW p,
         Streamed(o, q, f, s, n, p)
  PROVE  LET t == Tail(o) IN
         /\ ~About(Head(o), q, f) => p - 1 \in 1 .. Len(t) /\ Streamed(t, q, f, s, n, p - 1)
         /\ About(Head(o), q, f) /\ Head(o).type = "chunk" =>
              n > 0 /\ p - 1 \in 1 .. Len(t) /\ Streamed(t, q, f, s, n - 1, p - 1)
         /\ About(Head(o), q, f) /\ Head(o).type = "file" => n = 0 /\ Head(o).status = s /\ Silent(t, q, f)
<1>1. PICK t : t = Tail(o)
  OBVIOUS
<1>2. /\ Len(o) \in Nat /\ Len(t) = Len(o) - 1 /\ Len(t) \in Nat
      /\ \A i \in 1 .. Len(t) : i + 1 \in 1 .. Len(o) /\ t[i] = o[i + 1]
      /\ Head(o) = o[1] /\ 1 \in 1 .. Len(o)
  BY <1>1, TailParts
<1>3. /\ p \in 1 .. Len(o) /\ n \in 0 .. p - 1 /\ o[p].type = "file" /\ o[p].status = s
      /\ \A i \in 1 .. Len(o) : About(o[i], q, f) <=> i \in p - n .. p
      /\ \A i \in p - n .. p - 1 : o[i].type = "chunk"
  BY DEF Streamed
<1>4. \A i \in 1 .. Len(t) : About(t[i], q, f) <=> i + 1 \in p - n .. p
  BY <1>2, <1>3
<1>5. ASSUME ~About(Head(o), q, f) PROVE p - 1 \in 1 .. Len(t) /\ Streamed(t, q, f, s, n, p - 1)
  <2>1. 1 \notin p - n .. p
    BY <1>2, <1>3, <1>5
  <2>2. PICK r : r = p - 1
    OBVIOUS
  <2>3. r \in 1 .. Len(t) /\ n \in 0 .. r - 1 /\ r + 1 = p
    BY <1>2, <1>3, <2>1, <2>2
  <2>4. t[r] = o[p]
    BY <1>2, <2>3
  <2>5. \A i \in 1 .. Len(t) : i + 1 \in p - n .. p <=> i \in r - n .. r
    BY <1>2, <1>3, <2>2
  <2>6. ASSUME NEW i \in r - n .. r - 1 PROVE t[i].type = "chunk"
    <3>1. i \in 1 .. Len(t) /\ i + 1 \in p - n .. p - 1
      BY <1>2, <1>3, <2>1, <2>2, <2>3
    <3> QED BY <1>2, <1>3, <3>1
  <2>7. Streamed(t, q, f, s, n, r)
    BY <1>3, <1>4, <2>3, <2>4, <2>5, <2>6 DEF Streamed
  <2> QED BY <2>2, <2>3, <2>7
<1>6. ASSUME About(Head(o), q, f), Head(o).type = "chunk"
      PROVE  n > 0 /\ p - 1 \in 1 .. Len(t) /\ Streamed(t, q, f, s, n - 1, p - 1)
  <2>1. 1 \in p - n .. p /\ p # 1
    <3>1. 1 \in p - n .. p
      BY <1>2, <1>3, <1>6
    <3>2. p # 1
      BY <1>2, <1>3, <1>6
    <3> QED BY <3>1, <3>2
  <2>2. PICK r, m : r = p - 1 /\ m = n - 1
    OBVIOUS
  <2>3. r \in 1 .. Len(t) /\ r + 1 = p /\ n = r /\ m \in 0 .. r - 1 /\ n > 0
    BY <1>2, <1>3, <2>1, <2>2
  <2>4. t[r] = o[p]
    BY <1>2, <2>3
  <2>5. \A i \in 1 .. Len(t) : i + 1 \in p - n .. p <=> i \in r - m .. r
    BY <1>2, <1>3, <2>2, <2>3
  <2>6. ASSUME NEW i \in r - m .. r - 1 PROVE t[i].type = "chunk"
    <3>1. i \in 1 .. Len(t) /\ i + 1 \in p - n .. p - 1
      BY <1>2, <1>3, <2>1, <2>2, <2>3
    <3> QED BY <1>2, <1>3, <3>1
  <2>7. Streamed(t, q, f, s, m, r)
    BY <1>3, <1>4, <2>3, <2>4, <2>5, <2>6 DEF Streamed
  <2> QED BY <2>2, <2>3, <2>7
<1>7. ASSUME About(Head(o), q, f), Head(o).type = "file"
      PROVE  n = 0 /\ Head(o).status = s /\ Silent(t, q, f)
  <2>1. 1 \in p - n .. p
    BY <1>2, <1>3, <1>7
  <2>2. p = 1
    <3>1. ~(1 \in p - n .. p - 1)
      BY <1>2, <1>3, <1>7
    <3> QED BY <1>2, <1>3, <2>1, <3>1
  <2>3. n = 0 /\ \A i \in 1 .. Len(t) : i + 1 \notin p - n .. p
    BY <1>2, <1>3, <2>2
  <2> QED BY <1>2, <1>3, <1>4, <2>2, <2>3 DEF Silent
<1> QED BY <1>1, <1>5, <1>6, <1>7

LEMMA TailSilent ==
  ASSUME NEW o \in Seq(Event), o # <<>>, NEW q, NEW f, Silent(o, q, f)
  PROVE  Silent(Tail(o), q, f) /\ ~About(Head(o), q, f)
<1>1. PICK t : t = Tail(o)
  OBVIOUS
<1> QED BY <1>1, TailParts DEF Silent

\* Reading an event that is not about file f leaves it as it is.
LEMMA FileUnread ==
  ASSUME NEW o \in Seq(Event), o # <<>>, NEW q, NEW f, NEW a, NEW b, NEW d, NEW idle,
         FileOK(o, q, f, a, b, d, idle), ~About(Head(o), q, f)
  PROVE  FileOK(Tail(o), q, f, a, b, d, idle)
<1>1. Silent(o, q, f) => Silent(Tail(o), q, f)
  BY TailSilent
<1>2. ASSUME NEW p \in 1 .. Len(o), Streamed(o, q, f, a.status, a.chunks - b, p)
      PROVE  \E r \in 1 .. Len(Tail(o)) : Streamed(Tail(o), q, f, a.status, a.chunks - b, r)
  <2>1. p - 1 \in 1 .. Len(Tail(o)) /\ Streamed(Tail(o), q, f, a.status, a.chunks - b, p - 1)
    BY <1>2, TailStreamed
  <2> QED BY <2>1
<1> QED BY <1>1, <1>2 DEF FileOK

\* Reading a chunk of file f leaves one chunk less to come.
LEMMA FileChunkRead ==
  ASSUME NEW o \in Seq(Event), o # <<>>, NEW q, NEW f, NEW a \in Answer, NEW b, NEW d, NEW idle,
         FileOK(o, q, f, a, b, d, idle), About(Head(o), q, f), Head(o).type = "chunk"
  PROVE  FileOK(Tail(o), q, f, a, b + 1, d, idle) /\ b \in Nat
<1>1. /\ a.status # "none" /\ d = Unanswered /\ b \in 0 .. a.chunks
      /\ \E p \in 1 .. Len(o) : Streamed(o, q, f, a.status, a.chunks - b, p)
  BY TailSilent DEF FileOK
<1>2. PICK p \in 1 .. Len(o) : Streamed(o, q, f, a.status, a.chunks - b, p)
  BY <1>1
<1>3. a.chunks \in Nat
  BY WorkerAssumption DEF Answer
<1>4. /\ a.chunks - b > 0 /\ p - 1 \in 1 .. Len(Tail(o))
      /\ Streamed(Tail(o), q, f, a.status, a.chunks - b - 1, p - 1)
  BY <1>2, TailStreamed
<1>5. b + 1 \in 0 .. a.chunks /\ a.chunks - b - 1 = a.chunks - (b + 1) /\ b \in Nat
  BY <1>1, <1>3, <1>4
<1>6. Streamed(Tail(o), q, f, a.status, a.chunks - (b + 1), p - 1)
  BY <1>4, <1>5
<1> QED BY <1>1, <1>4, <1>5, <1>6 DEF FileOK

\* Reading the file event completes the answer.
LEMMA FileRead ==
  ASSUME NEW o \in Seq(Event), o # <<>>, NEW q, NEW f, NEW a \in Answer, NEW b, NEW d, NEW idle,
         FileOK(o, q, f, a, b, d, idle), About(Head(o), q, f), Head(o).type = "file"
  PROVE  /\ a = [status |-> Head(o).status, chunks |-> b]
         /\ FileOK(Tail(o), q, f, a, 0, a, idle)
<1>1. /\ a.status # "none" /\ b \in 0 .. a.chunks
      /\ \E p \in 1 .. Len(o) : Streamed(o, q, f, a.status, a.chunks - b, p)
  BY TailSilent DEF FileOK
<1>2. PICK p \in 1 .. Len(o) : Streamed(o, q, f, a.status, a.chunks - b, p)
  BY <1>1
<1>3. a.chunks \in Nat
  BY WorkerAssumption DEF Answer
<1>4. a.chunks - b = 0 /\ Head(o).status = a.status /\ Silent(Tail(o), q, f)
  BY <1>2, TailStreamed
<1>5. a.chunks = b
  BY <1>1, <1>3, <1>4
<1>6. a = [status |-> a.status, chunks |-> a.chunks]
  BY DEF Answer
<1> QED BY <1>1, <1>4, <1>5, <1>6 DEF FileOK

\* A stream that is thrown away leaves what the caller has got.
LEMMA FileThrown ==
  ASSUME NEW o, NEW q, NEW f, NEW a, NEW b, NEW d, NEW idle, FileOK(o, q, f, a, b, d, idle)
  PROVE  FileOK(<<>>, q, f, a, b, d, TRUE) /\ FileOK(o, q, f, a, b, d, TRUE)
<1>1. Silent(<<>>, q, f)
  <2>1. Len(<<>>) = 0 /\ \A i \in 1 .. 0 : FALSE
    OBVIOUS
  <2> QED BY <2>1 DEF Silent
<1> QED BY <1>1 DEF FileOK

-----------------------------------------------------------------------------
(* What the worker writes                                                    *)

Statuses == {"succeeded", "skipped", "failed"}

\* u is what the worker writes in request q: the answers e to the files A.
Answering(u, q, A, e) ==
  /\ u \in Seq(Event)
  /\ \A i \in 1 .. Len(u) : u[i].request = q /\ u[i].type # "complete"
  /\ \A f \in A : e[f].status # "none" /\ \E p : Streamed(u, q, f, e[f].status, e[f].chunks, p)
  /\ \A f \in Paths \ A : Silent(u, q, f)

LEMMA AnswerStreamed ==
  ASSUME NEW q \in 1 .. MaxRequests, NEW f \in Paths, NEW s \in Statuses, NEW n \in Nat,
         NEW u, u = ChunkEvents(q, f, n) \o <<FileEvent(q, f, s)>>,
         NEW a, a[f] = [status |-> s, chunks |-> n]
  PROVE  /\ Answering(u, q, {f}, a)
         /\ ChunkEvents(q, f, n) \in Seq(Event) /\ <<FileEvent(q, f, s)>> \in Seq(Event)
<1> DEFINE e == [request |-> q, type |-> "chunk", path |-> f, status |-> "none"]
           g == FileEvent(q, f, s)
           c == ChunkEvents(q, f, n)
<1>1. e \in Event /\ e.request = q /\ e.path = f /\ e.type = "chunk"
  BY DEF Event
<1>2. g \in Event /\ g.request = q /\ g.path = f /\ g.type = "file" /\ g.status = s
  BY DEF Event, FileEvent, Statuses
<1>3. c = [i \in 1 .. n |-> e]
  BY DEF ChunkEvents
<1> HIDE DEF c, e, g
<1>4. c \in Seq(Event) /\ Len(c) = n /\ \A i \in 1 .. n : c[i] = e
  <2>1. c \in Seq(Event)
    BY <1>1, <1>3, IsASeq
  <2> QED BY <1>3, <2>1, LenProperties
<1>5. <<g>> \in Seq(Event) /\ Len(<<g>>) = 1 /\ <<g>>[1] = g
  BY <1>2
<1>6. PICK d : d = <<g>>
  OBVIOUS
<1>7. u = c \o d /\ d \in Seq(Event) /\ Len(d) = 1 /\ d[1] = g
  BY <1>5, <1>6 DEF c, g
<1>8. /\ u \in Seq(Event) /\ Len(u) = n + 1
      /\ \A i \in 1 .. n : u[i] = e
      /\ u[n + 1] = g
  <2>1. /\ u \in Seq(Event) /\ Len(u) = n + 1
        /\ \A i \in 1 .. n : u[i] = c[i]
        /\ \A i \in 1 .. 1 : u[n + i] = d[i]
    <3>1. /\ u \in Seq(Event) /\ Len(u) = Len(c) + Len(d)
          /\ \A i \in 1 .. Len(c) : u[i] = c[i]
          /\ \A i \in 1 .. Len(d) : u[Len(c) + i] = d[i]
      <4>1. Joined(u, c, d)
        BY <1>4, <1>7, JoinedEvents
      <4> QED BY <4>1 DEF Joined
    <3> QED BY <1>4, <1>7, <3>1
  <2>2. u[n + 1] = g
    BY <1>7, <2>1
  <2> QED BY <1>4, <2>1, <2>2
<1>9. \A i \in 1 .. Len(u) : i \in 1 .. n \/ i = n + 1
  BY <1>8
<1>10. \A i \in 1 .. Len(u) : u[i].request = q /\ u[i].path = f /\ u[i].type # "complete"
  BY <1>1, <1>2, <1>8, <1>9
<1>11. Streamed(u, q, f, s, n, n + 1)
  <2>1. PICK p : p = n + 1
    OBVIOUS
  <2>2. p \in 1 .. Len(u) /\ n \in 0 .. p - 1 /\ u[p] = g
    BY <1>8, <2>1
  <2>3. \A i \in 1 .. Len(u) : About(u[i], q, f) /\ i \in p - n .. p
    BY <1>8, <1>10, <2>1 DEF About
  <2>4. \A i \in p - n .. p - 1 : u[i].type = "chunk"
    <3>1. \A i \in p - n .. p - 1 : i \in 1 .. n
      BY <2>1
    <3> QED BY <1>1, <1>8, <3>1
  <2>5. Streamed(u, q, f, s, n, p)
    BY <1>2, <2>2, <2>3, <2>4 DEF Streamed
  <2> QED BY <2>1, <2>5
<1>12. Answering(u, q, {f}, a)
  <2>1. \A h \in Paths \ {f} : Silent(u, q, h)
    BY <1>10 DEF Silent, About
  <2>2. a[f].status = s /\ a[f].chunks = n /\ s # "none"
    BY DEF Statuses
  <2> QED BY <1>8, <1>10, <1>11, <2>1, <2>2 DEF Answering
<1> QED BY <1>4, <1>5, <1>12 DEF c, g

LEMMA SkippedStreamed ==
  ASSUME NEW q \in 1 .. MaxRequests, NEW s \in Seq(Paths), Distinct(s),
         NEW u, u = [i \in DOMAIN s |-> FileEvent(q, s[i], "skipped")],
         NEW e, \A f \in Paths : e[f] = [status |-> "skipped", chunks |-> 0]
  PROVE  Answering(u, q, ToSet(s), e)
<1>1. Len(s) \in Nat /\ DOMAIN s = 1 .. Len(s) /\ \A i \in 1 .. Len(s) : s[i] \in Paths
  BY LenProperties
<1>2. ASSUME NEW f \in Paths
      PROVE  LET g == FileEvent(q, f, "skipped") IN
             g \in Event /\ g.request = q /\ g.type = "file" /\ g.path = f /\ g.status = "skipped"
  BY DEF FileEvent, Event
<1>3. u \in Seq(Event) /\ Len(u) = Len(s) /\ \A i \in 1 .. Len(s) : u[i] = FileEvent(q, s[i], "skipped")
  <2>1. \A i \in 1 .. Len(s) : FileEvent(q, s[i], "skipped") \in Event
    BY <1>1, <1>2
  <2>2. [i \in 1 .. Len(s) |-> FileEvent(q, s[i], "skipped")] \in Seq(Event)
    BY <1>1, <2>1, IsASeq
  <2>3. u \in Seq(Event) /\ DOMAIN u = 1 .. Len(s)
    BY <1>1, <2>2
  <2> QED BY <1>1, <2>3, LenProperties
<1>4. \A i \in 1 .. Len(s) : /\ u[i].request = q /\ u[i].type = "file" /\ u[i].path = s[i]
                             /\ u[i].status = "skipped"
  BY <1>1, <1>2, <1>3
<1>5. ASSUME NEW f \in ToSet(s) PROVE \E p : Streamed(u, q, f, "skipped", 0, p)
  <2>1. PICK p \in 1 .. Len(s) : s[p] = f
    BY <1>1 DEF ToSet
  <2>2. \A i \in 1 .. Len(u) : About(u[i], q, f) <=> i = p
    <3>1. \A i \in 1 .. Len(u) : About(u[i], q, f) <=> s[i] = f
      BY <1>3, <1>4 DEF About
    <3>2. \A i \in 1 .. Len(s) : s[i] = f <=> i = p
      BY <2>1 DEF Distinct
    <3> QED BY <1>3, <3>1, <3>2
  <2>3. \A i \in 1 .. Len(u) : i = p <=> i \in p - 0 .. p
    BY <1>1, <1>3
  <2>4. p \in 1 .. Len(u) /\ 0 \in 0 .. p - 1 /\ \A i \in p - 0 .. p - 1 : FALSE
    BY <1>1, <1>3
  <2> QED BY <1>4, <2>1, <2>2, <2>3, <2>4 DEF Streamed
<1>6. ASSUME NEW f \in Paths \ ToSet(s) PROVE Silent(u, q, f)
  BY <1>1, <1>3, <1>4 DEF Silent, About, ToSet
<1>7. \A f \in ToSet(s) : f \in Paths /\ e[f].status = "skipped" /\ e[f].chunks = 0
  BY <1>1 DEF ToSet
<1> QED BY <1>3, <1>4, <1>5, <1>6, <1>7 DEF Answering

\* What a write leaves of the invariant.
Written ==
  /\ stdout' \in Seq(Event) /\ answers' \in [Paths -> Answer]
  /\ StreamOK' /\ FreshOK' /\ EndOK' /\ DoneOK'
  /\ current' <= request' /\ \A i \in 1 .. Len(stdout') : (stdout'[i]).request <= request'

\* Whatever the worker writes about the files A of the request q that it works on.
LEMMA Emitted ==
  ASSUME WorkerInv,
         NEW q \in 1 .. MaxRequests, NEW u, NEW A \in SUBSET Paths, NEW e \in [Paths -> Answer],
         Answering(u, q, A, e), q <= request,
         q = request =>
           /\ \A f \in A : answers[f].status = "none"
           /\ \A i \in 1 .. Len(stdout) : ~(stdout[i].request = q /\ stdout[i].type = "complete")
           /\ request \notin ToSet(stdin') /\ outcome # "complete",
         \A x \in ToSet(stdin') : x \in ToSet(stdin),
         current' = q, stdout' = stdout \o u,
         answers' = [f \in Paths |-> IF q = request /\ f \in A THEN e[f] ELSE answers[f]],
         UNCHANGED callerVars
  PROVE  Written
<1>0. /\ WorkerTypeOK /\ StreamOK /\ OrderOK /\ FreshOK /\ EndOK /\ DoneOK
      /\ u \in Seq(Event)
      /\ \A i \in 1 .. Len(u) : u[i].request = q /\ u[i].type # "complete"
      /\ \A f \in A : e[f].status # "none" /\ \E p : Streamed(u, q, f, e[f].status, e[f].chunks, p)
      /\ \A f \in Paths \ A : Silent(u, q, f)
  BY DEF WorkerInv, Answering
<1> USE <1>0
<1>1. /\ stdout \in Seq(Event) /\ answers \in [Paths -> Answer] /\ request \in Nat
  BY WorkerAssumption DEF WorkerTypeOK
<1>2. UNCHANGED <<client, request, buffered, delivered, outcome>>
  BY DEF callerVars
<1>3. PICK c : c = stdout'
  OBVIOUS
<1>4. /\ c \in Seq(Event) /\ Len(stdout) \in Nat /\ Len(u) \in Nat /\ Len(c) = Len(stdout) + Len(u)
      /\ \A i \in 1 .. Len(stdout) : i \in 1 .. Len(c) /\ c[i] = stdout[i]
      /\ \A i \in 1 .. Len(u) : Len(stdout) + i \in 1 .. Len(c) /\ c[Len(stdout) + i] = u[i]
      /\ \A i \in 1 .. Len(c) : i \in 1 .. Len(stdout) \/ i - Len(stdout) \in 1 .. Len(u)
  BY <1>1, <1>3, JoinedParts
<1>5. \A i \in 1 .. Len(c) : \/ i \in 1 .. Len(stdout) /\ c[i] = stdout[i]
                             \/ /\ i > Len(stdout) /\ c[i].request = q /\ c[i].type # "complete"
  <2> SUFFICES ASSUME NEW i \in 1 .. Len(c), i \notin 1 .. Len(stdout)
               PROVE  i > Len(stdout) /\ c[i].request = q /\ c[i].type # "complete"
    BY <1>4
  <2>1. PICK k \in 1 .. Len(u) : k = i - Len(stdout)
    BY <1>4
  <2>2. Len(stdout) + k = i /\ i > Len(stdout)
    BY <1>4, <2>1
  <2>3. c[i] = u[k]
    BY <1>4, <2>2
  <2> QED BY <2>2, <2>3
<1>6. answers' \in [Paths -> Answer] /\ (q # request => answers' = answers)
  BY <1>1
<1>7. StreamOK'
  <2> SUFFICES ASSUME NEW f \in Paths
               PROVE  FileOK(c, request, f, answers'[f], buffered[f], delivered[f], client = "idle")
    BY <1>2, <1>3 DEF StreamOK
  <2>1. FileOK(stdout, request, f, answers[f], buffered[f], delivered[f], client = "idle")
    BY DEF StreamOK
  <2>2. CASE q = request /\ f \in A
    <3>1. answers'[f] = e[f] /\ answers[f].status = "none"
      BY <2>2
    <3>2. PICK p : Streamed(u, request, f, e[f].status, e[f].chunks, p)
      BY <2>2
    <3>3. e[f].status # "none" /\ e[f] \in Answer
      BY <2>2
    <3>4. FileOK(stdout \o u, request, f, e[f], buffered[f], delivered[f], client = "idle")
      BY <1>1, <2>1, <3>1, <3>2, <3>3, FileAnswered
    <3> QED BY <1>3, <3>1, <3>4
  <2>3. CASE ~(q = request /\ f \in A)
    <3>1. answers'[f] = answers[f]
      BY <2>3
    <3>2. Silent(u, request, f)
      <4>1. CASE q = request
        BY <2>3, <4>1
      <4>2. CASE q # request
        BY <4>2 DEF Silent, About
      <4> QED BY <4>1, <4>2
    <3>3. FileOK(stdout \o u, request, f, answers[f], buffered[f], delivered[f], client = "idle")
      BY <1>1, <2>1, <3>2, FileJoined
    <3> QED BY <1>3, <3>1, <3>3
  <2> QED BY <2>2, <2>3
<1>8. FreshOK'
  <2> SUFFICES ASSUME request \in ToSet(stdin')
               PROVE  /\ q # request /\ \A f \in Paths : answers'[f] = Unanswered
                      /\ \A i \in 1 .. Len(c) : c[i].request # request
    BY <1>2, <1>3 DEF FreshOK
  <2>1. q # request /\ request \in ToSet(stdin)
    OBVIOUS
  <2> QED BY <1>5, <1>6, <2>1 DEF FreshOK
<1>9. EndOK'
  <2> SUFFICES ASSUME NEW i \in 1 .. Len(c), c[i].request = request, c[i].type = "complete"
               PROVE  /\ q # request
                      /\ \A j \in i + 1 .. Len(c) : c[j].request # request
                      /\ \A f \in Paths : answers'[f].status # "none"
    BY <1>2, <1>3 DEF EndOK
  <2>1. i \in 1 .. Len(stdout) /\ stdout[i].request = request /\ stdout[i].type = "complete"
    BY <1>5
  <2>2. q # request
    BY <2>1
  <2>3. /\ \A j \in i + 1 .. Len(stdout) : stdout[j].request # request
        /\ \A f \in Paths : answers[f].status # "none"
    BY <2>1 DEF EndOK
  <2>4. ASSUME NEW j \in i + 1 .. Len(c) PROVE c[j].request # request
    <3>1. j \in 1 .. Len(c)
      BY <1>4, <2>1
    <3>2. CASE j \in 1 .. Len(stdout) /\ c[j] = stdout[j]
      <4>1. j \in i + 1 .. Len(stdout)
        BY <1>4, <2>1, <3>2
      <4> QED BY <2>3, <3>2, <4>1
    <3>3. CASE c[j].request = q
      BY <2>2, <3>3
    <3> QED BY <1>5, <3>1, <3>2, <3>3
  <2> QED BY <1>6, <2>2, <2>3, <2>4
<1>10. DoneOK'
  <2> SUFFICES ASSUME outcome = "complete"
               PROVE  /\ client = "idle" /\ q # request /\ request \notin ToSet(stdin')
                      /\ \A f \in Paths : delivered[f] = answers'[f] /\ answers'[f].status # "none"
    BY <1>2 DEF DoneOK
  <2>1. q # request
    OBVIOUS
  <2> QED BY <1>6, <2>1 DEF DoneOK
<1>11. \A i \in 1 .. Len(c) : c[i].request <= request
  BY <1>5 DEF OrderOK
<1> QED BY <1>2, <1>3, <1>4, <1>6, <1>7, <1>8, <1>9, <1>10, <1>11 DEF Written

\* The end of a request is about no file.
LEMMA Ended ==
  ASSUME WorkerTypeOK, StreamOK, OrderOK, FreshOK, EndOK, DoneOK,
         NEW type \in {"complete", "fatal"}, current # 0,
         type = "complete" /\ current = request => \A f \in Paths : answers[f].status # "none",
         current' = 0, stdout' = stdout \o EndEvent(current, type),
         UNCHANGED <<stdin, callerVars, answers>>
  PROVE  stdout' \in Seq(Event) /\ StreamOK' /\ OrderOK' /\ FreshOK' /\ TodoOK' /\ EndOK' /\ DoneOK'
<1> DEFINE e == [request |-> current, type |-> type, path |-> 0, status |-> "none"]
<1>1. /\ stdout \in Seq(Event) /\ request \in Nat /\ current \in 1 .. MaxRequests
      /\ MaxRequests \in Nat
  BY WorkerAssumption DEF WorkerTypeOK
<1>2. UNCHANGED <<client, request, buffered, delivered, outcome, answers, stdin>>
  BY DEF callerVars
<1>3. e \in Event /\ e.request = current /\ e.type = type /\ e.path = 0
  BY <1>1 DEF Event
<1>4. EndEvent(current, type) = <<e>>
  BY DEF EndEvent
<1> HIDE DEF e
<1>5. PICK u : u = <<e>>
  OBVIOUS
<1>6. u \in Seq(Event) /\ Len(u) = 1 /\ \A i \in 1 .. Len(u) : u[i] = e
  BY <1>3, <1>5
<1>7. PICK c : c = stdout'
  OBVIOUS
<1>8. c = stdout \o u
  BY <1>4, <1>5, <1>7
<1>9. /\ c \in Seq(Event) /\ Len(stdout) \in Nat /\ Len(c) = Len(stdout) + 1
      /\ \A i \in 1 .. Len(c) : \/ i \in 1 .. Len(stdout) /\ c[i] = stdout[i]
                                \/ i = Len(stdout) + 1 /\ c[i] = e
  <2>1. /\ c \in Seq(Event) /\ Len(stdout) \in Nat /\ Len(c) = Len(stdout) + Len(u)
        /\ \A i \in 1 .. Len(stdout) : c[i] = stdout[i]
        /\ \A i \in 1 .. Len(u) : c[Len(stdout) + i] = u[i]
    <3>1. Joined(c, stdout, u)
      BY <1>1, <1>6, <1>8, JoinedEvents
    <3> QED BY <3>1 DEF Joined
  <2>2. c[Len(stdout) + 1] = e
    BY <1>6, <2>1
  <2>3. \A n \in Nat : \A i \in 1 .. n + 1 : i \in 1 .. n \/ i = n + 1
    OBVIOUS
  <2> QED BY ONLY <1>6, <2>1, <2>2, <2>3
<1>10. \A f \in Paths : Silent(u, request, f)
  BY <1>3, <1>6, FileNumbers DEF Silent, About
<1>11. StreamOK'
  <2> SUFFICES ASSUME NEW f \in Paths
               PROVE  FileOK(c, request, f, answers[f], buffered[f], delivered[f], client = "idle")
    BY <1>2, <1>7 DEF StreamOK
  <2>1. FileOK(stdout, request, f, answers[f], buffered[f], delivered[f], client = "idle")
    BY DEF StreamOK
  <2> QED BY <1>1, <1>6, <1>8, <1>10, <2>1, FileJoined
<1>12. request # 0
  BY <1>1 DEF OrderOK
<1>13. FreshOK'
  BY <1>2, <1>3, <1>7, <1>9, <1>12 DEF FreshOK
<1>14. OrderOK'
  <2>1. \A i \in 1 .. Len(c) : c[i].request <= request
    BY <1>3, <1>9 DEF OrderOK
  <2> QED BY <1>1, <1>2, <1>7, <2>1 DEF OrderOK
<1>15. TodoOK'
  BY DEF TodoOK
<1>16. EndOK'
  <2> SUFFICES ASSUME NEW i \in 1 .. Len(c), c[i].request = request, c[i].type = "complete"
               PROVE  /\ \A j \in i + 1 .. Len(c) : c[j].request # request
                      /\ \A f \in Paths : answers[f].status # "none"
    BY <1>2, <1>7, <1>12 DEF EndOK
  <2>1. CASE i \in 1 .. Len(stdout) /\ c[i] = stdout[i]
    <3>1. /\ current # request
          /\ \A j \in i + 1 .. Len(stdout) : stdout[j].request # request
          /\ \A f \in Paths : answers[f].status # "none"
      BY <2>1 DEF EndOK
    <3>2. ASSUME NEW j \in i + 1 .. Len(c) PROVE c[j].request # request
      <4>1. j \in 1 .. Len(c)
        BY <1>9, <2>1
      <4>2. CASE j \in 1 .. Len(stdout) /\ c[j] = stdout[j]
        <5>1. j \in i + 1 .. Len(stdout)
          BY <1>9, <2>1, <4>2
        <5> QED BY <3>1, <4>2, <5>1
      <4>3. CASE c[j] = e
        BY <1>3, <3>1, <4>3
      <4> QED BY <1>9, <4>1, <4>2, <4>3
    <3> QED BY <3>1, <3>2
  <2>2. CASE i = Len(stdout) + 1 /\ c[i] = e
    <3>1. \A f \in Paths : answers[f].status # "none"
      BY <1>3, <2>2
    <3>2. \A j \in i + 1 .. Len(c) : FALSE
      BY <1>9, <2>2
    <3> QED BY <3>1, <3>2
  <2> QED BY <1>9, <2>1, <2>2
<1>17. DoneOK'
  BY <1>2, <1>12 DEF DoneOK
<1> QED BY <1>7, <1>9, <1>11, <1>13, <1>14, <1>15, <1>16, <1>17

-----------------------------------------------------------------------------
(* The worker's steps                                                        *)

LEMMA SubsetLight ==
  ASSUME NEW S \in SUBSET Paths, Light(S), NEW R \in SUBSET S
  PROVE  Light(R)
<1>1. IsFiniteSet(S) /\ \A f \in S : Bytes[f] \in Nat
  BY FileNumbers, FS_Subset
<1>2. SumOver(Bytes, R) <= SumOver(Bytes, S) /\ SumOver(Bytes, R) \in Nat /\ SumOver(Bytes, S) \in Nat
  BY <1>1, SumSubset
<1> QED BY <1>2, FileNumbers DEF Light

LEMMA NothingHeld ==
  /\ PlanOK(<<>>) /\ Waiting(<<>>) = {} /\ ToSet(<<>>) = {} /\ Distinct(<<>>) /\ Light({})
  /\ Len(<<>>) = 0
<1>1. Len(<<>>) = 0 /\ \A i \in 1 .. 0 : FALSE
  OBVIOUS
<1>2. ToSet(<<>>) = {}
  BY DEF ToSet
<1> QED BY <1>1, <1>2 DEF PlanOK, Waiting, Distinct, Light

\* What is true of a worker that works on nothing.
LEMMA ClearedHeld ==
  ASSUME ahead = <<>>, pending = <<>>, busy = {}, width \in Nat
  PROVE  HeldOK
<1>1. Held = {}
  BY NothingHeld DEF Held
<1>2. Cardinality({}) = 0
  BY FS_EmptySet
<1> QED BY <1>1, <1>2, NothingHeld DEF HeldOK

LEMMA PlanTail ==
  ASSUME NEW plan \in Seq(Seq(Paths)), plan # <<>>, PlanOK(plan)
  PROVE  /\ Head(plan) \in Seq(Paths) /\ Tail(plan) \in Seq(Seq(Paths)) /\ PlanOK(Tail(plan))
         /\ Distinct(Head(plan)) /\ Light(ToSet(Head(plan)))
         /\ ToSet(Head(plan)) \in SUBSET Paths
         /\ ToSet(Head(plan)) \intersect Waiting(Tail(plan)) = {}
         /\ Waiting(plan) = ToSet(Head(plan)) \union Waiting(Tail(plan))
<1>1. PICK t, h : t = Tail(plan) /\ h = Head(plan)
  OBVIOUS
<1>2. /\ t \in Seq(Seq(Paths)) /\ Len(plan) \in Nat /\ Len(t) = Len(plan) - 1 /\ Len(t) \in Nat
      /\ \A i \in 1 .. Len(t) : i + 1 \in 1 .. Len(plan) /\ t[i] = plan[i + 1]
      /\ h = plan[1] /\ 1 \in 1 .. Len(plan) /\ h \in Seq(Paths)
  BY <1>1, TailParts
<1>3. ToSet(h) \in SUBSET Paths
  BY <1>2, LenProperties DEF ToSet
<1>4. Distinct(h) /\ Light(ToSet(h))
  BY <1>2 DEF PlanOK
<1>5. PlanOK(t)
  <2>1. \A i \in 1 .. Len(t) : Distinct(t[i]) /\ Light(ToSet(t[i]))
    BY <1>2 DEF PlanOK
  <2>2. ASSUME NEW i \in 1 .. Len(t), NEW j \in 1 .. Len(t), i # j
        PROVE  ToSet(t[i]) \intersect ToSet(t[j]) = {}
    <3>1. i + 1 \in 1 .. Len(plan) /\ j + 1 \in 1 .. Len(plan) /\ i + 1 # j + 1
      BY <1>2, <2>2
    <3> QED BY <1>2, <3>1 DEF PlanOK
  <2> QED BY <2>1, <2>2 DEF PlanOK
<1>6. \A i \in 1 .. Len(t) : ToSet(h) \intersect ToSet(t[i]) = {}
  <2> SUFFICES ASSUME NEW i \in 1 .. Len(t) PROVE ToSet(h) \intersect ToSet(t[i]) = {}
    OBVIOUS
  <2>1. i + 1 \in 1 .. Len(plan) /\ 1 # i + 1 /\ t[i] = plan[i + 1]
    BY <1>2
  <2> QED BY <1>2, <2>1 DEF PlanOK
<1>7. ToSet(h) \intersect Waiting(t) = {}
  BY <1>6 DEF Waiting
<1>8. Waiting(plan) = ToSet(h) \union Waiting(t)
  <2>1. ASSUME NEW f \in Waiting(plan) PROVE f \in ToSet(h) \union Waiting(t)
    <3>1. PICK i \in 1 .. Len(plan) : f \in ToSet(plan[i])
      BY DEF Waiting
    <3>2. CASE i = 1
      BY <1>2, <3>1, <3>2
    <3>3. CASE i # 1
      <4>1. PICK k : k = i - 1
        OBVIOUS
      <4>2. k \in 1 .. Len(t) /\ k + 1 = i
        BY <1>2, <3>1, <3>3, <4>1
      <4> QED BY <1>2, <3>1, <4>2 DEF Waiting
    <3> QED BY <3>2, <3>3
  <2>2. ToSet(h) \subseteq Waiting(plan)
    BY <1>2 DEF Waiting
  <2>3. Waiting(t) \subseteq Waiting(plan)
    BY <1>2 DEF Waiting
  <2> QED BY <2>1, <2>2, <2>3
<1> QED BY <1>1, <1>2, <1>3, <1>4, <1>5, <1>7, <1>8

\* The largest of some files.
LEMMA LargestFile ==
  ASSUME NEW S \in SUBSET Paths, S # {}
  PROVE  /\ Max({Bytes[f] : f \in S}) \in {Bytes[f] : f \in S}
         /\ \A f \in S : Bytes[f] <= Max({Bytes[g] : g \in S})
<1> DEFINE N == SumOver(Bytes, Paths)
           B == {Bytes[f] : f \in S}
<1>1. N \in Nat
  BY FileNumbers, SumSubset
<1>2. ASSUME NEW f \in S PROVE Bytes[f] \in 0 .. N
  <2>1. SumOver(Bytes, {} \union {f}) = SumOver(Bytes, {}) + Bytes[f]
    BY FileNumbers, FS_EmptySet, SumAdd
  <2>2. SumOver(Bytes, {}) = 0 /\ {} \union {f} = {f}
    BY SumEmpty
  <2>3. SumOver(Bytes, {f}) <= N
    <3>1. {f} \in SUBSET Paths
      OBVIOUS
    <3> QED BY <3>1, FileNumbers, SumSubset
  <2>4. SumOver(Bytes, {f}) = Bytes[f]
    BY <2>1, <2>2, FileNumbers
  <2> HIDE DEF N
  <2> QED BY <1>1, <2>3, <2>4, FileNumbers
<1> HIDE DEF N
<1>3. B \in SUBSET (0 .. N) /\ B # {}
  BY <1>2
<1>4. Max(B) \in B /\ \A k \in B : k <= Max(B)
  BY <1>1, <1>3, Largest
<1> QED BY <1>4

\* As many files as fit the memory budget, and one at least.
LEMMA WidthFits ==
  ASSUME NEW s \in Seq(Paths), s # <<>>
  PROVE  /\ Width(s) \in Nat \ {0}
         /\ Width(s) <= 1 \/ \A f \in ToSet(s) : Width(s) * Bytes[f] <= MemoryBudget
<1> DEFINE S == ToSet(s)
           largest == Max({Bytes[f] : f \in S})
           wanted == Min({Concurrency, Len(s), MemoryBudget \div largest})
<1>1. Len(s) \in Nat /\ DOMAIN s = 1 .. Len(s) /\ \A i \in 1 .. Len(s) : s[i] \in Paths
  BY LenProperties
<1>2. Len(s) # 0
  BY EmptySeq
<1>3. S \in SUBSET Paths /\ S # {}
  <2>1. 1 \in 1 .. Len(s)
    BY <1>1, <1>2
  <2> QED BY <1>1, <2>1 DEF ToSet
<1>4. Width(s) = IF wanted > 1 THEN wanted ELSE 1
  BY DEF Width
<1> HIDE DEF S
<1>5. largest \in {Bytes[f] : f \in S} /\ \A f \in S : Bytes[f] <= largest
  BY <1>3, LargestFile
<1>6. largest \in Nat \ {0}
  BY <1>3, <1>5, FileNumbers
<1> HIDE DEF largest
<1>7. MemoryBudget \div largest \in Nat /\ (MemoryBudget \div largest) * largest <= MemoryBudget
  <2>1. \A a \in Nat, b \in Nat \ {0} : a \div b \in Nat /\ (a \div b) * b <= a
    OBVIOUS
  <2> QED BY <1>6, <2>1, FileNumbers
<1>8. wanted \in Nat /\ wanted <= MemoryBudget \div largest
  <2>1. {Concurrency, Len(s), MemoryBudget \div largest} \in SUBSET Nat
    BY <1>1, <1>7, FileNumbers
  <2> QED BY <2>1, Smallest
<1> HIDE DEF wanted
<1>9. ASSUME NEW f \in S PROVE wanted * Bytes[f] <= MemoryBudget
  <2>1. \A a, b, c, d, m \in Nat : a <= c /\ b <= d /\ c * d <= m => a * b <= m
    <3> SUFFICES ASSUME NEW a \in Nat, NEW b \in Nat, NEW c \in Nat, NEW d \in Nat, a <= c, b <= d
                 PROVE  a * b <= c * d
      OBVIOUS
    <3>1. a * b <= c * b
      OBVIOUS
    <3>2. c * b <= c * d
      OBVIOUS
    <3> QED BY <3>1, <3>2
  <2>2. Bytes[f] \in Nat
    BY <1>3, FileNumbers
  <2> QED BY <1>5, <1>6, <1>7, <1>8, <2>1, <2>2, FileNumbers
<1> QED BY <1>4, <1>8, <1>9 DEF S

LEMMA WorkerStarts == WorkerInit => WorkerInv
<1> SUFFICES ASSUME WorkerInit PROVE WorkerInv
  OBVIOUS
<1> USE DEF WorkerInit
<1>1. Len(<<>>) = 0 /\ \A i \in 1 .. 0 : FALSE
  OBVIOUS
<1>2. Unanswered \in Answer
  BY WorkerAssumption DEF Unanswered, Answer
<1>3. WorkerTypeOK
  <2>1. answers \in [Paths -> Answer] /\ delivered \in [Paths -> Answer]
    BY <1>2
  <2>2. stdin \in Seq(1 .. MaxRequests) /\ stdout \in Seq(Event) /\ ahead \in Seq(Seq(Paths)) /\ pending \in Seq(Paths)
    OBVIOUS
  <2>3. 0 \in 0 .. MaxRequests /\ 0 \in 0 .. MaxDeaths
    BY WorkerAssumption
  <2> QED BY <2>1, <2>2, <2>3 DEF WorkerTypeOK
<1>4. HeldOK
  BY ClearedHeld
<1>5. StreamOK
  BY <1>1 DEF StreamOK, FileOK, Silent
<1>6. OrderOK
  BY <1>1 DEF OrderOK
<1>7. FreshOK
  BY NothingHeld DEF FreshOK
<1>8. TodoOK /\ EndOK /\ DoneOK
  BY <1>1 DEF TodoOK, EndOK, DoneOK
<1> QED BY <1>3, <1>4, <1>5, <1>6, <1>7, <1>8 DEF WorkerInv

\* The numbers that are compared.
LEMMA RequestNumbers ==
  ASSUME WorkerTypeOK
  PROVE  /\ request \in Nat /\ current \in Nat /\ width \in Nat /\ MaxRequests \in Nat /\ deaths \in Nat
         /\ MaxChunks \in Nat
BY WorkerAssumption DEF WorkerTypeOK

\* The caller's request, while the worker works on it.
LEMMA Serving ==
  ASSUME WorkerInv, current # 0
  PROVE  /\ current \in 1 .. MaxRequests /\ current <= request
         /\ current = request =>
              /\ request \notin ToSet(stdin) /\ outcome # "complete"
              /\ \A i \in 1 .. Len(stdout) : ~(stdout[i].request = current /\ stdout[i].type = "complete")
              /\ \A f \in Paths : f \in Todo <=> answers[f].status = "none"
<1>1. current \in 1 .. MaxRequests
  BY RequestNumbers DEF WorkerInv, WorkerTypeOK
<1> QED BY <1>1 DEF WorkerInv, OrderOK, FreshOK, EndOK, DoneOK, TodoOK

LEMMA Skipped ==
  ASSUME NEW f \in Paths
  PROVE  LET e == [g \in Paths |-> [status |-> "skipped", chunks |-> 0]] IN
         e \in [Paths -> Answer] /\ e[f].status = "skipped" /\ e[f].chunks = 0
BY WorkerAssumption DEF Answer

LEMMA TakeRequestKeeps == ASSUME WorkerInv, TakeRequest PROVE WorkerInv'
<1> USE DEF TakeRequest
<1>1. PICK q : q = Head(stdin)
  OBVIOUS
<1>2. /\ stdin \in Seq(1 .. MaxRequests) /\ stdin # <<>> /\ request \in Nat
      /\ answers \in [Paths -> Answer] /\ MaxRequests \in Nat
  BY RequestNumbers DEF WorkerInv, WorkerTypeOK
<1>3. PICK t : t = stdin'
  OBVIOUS
<1>4. /\ t \in Seq(1 .. MaxRequests) /\ Len(stdin) \in Nat /\ Len(t) = Len(stdin) - 1 /\ Len(t) \in Nat
      /\ \A i \in 1 .. Len(t) : i + 1 \in 1 .. Len(stdin) /\ t[i] = stdin[i + 1]
      /\ q = stdin[1] /\ 1 \in 1 .. Len(stdin) /\ q \in 1 .. MaxRequests
      /\ \A x \in ToSet(t) : x \in ToSet(stdin)
      /\ q \in ToSet(stdin)
  <2>1. TailOf(Tail(stdin), stdin, 1 .. MaxRequests)
    BY <1>2, TailElements
  <2> QED BY <1>1, <1>3, <2>1 DEF TailOf
<1>5. q <= request /\ \A i \in 1 .. Len(stdin) : i < Len(stdin) => stdin[i] < request
  BY <1>4 DEF WorkerInv, OrderOK
<1>6. q = request => request \notin ToSet(t)
  <2> SUFFICES ASSUME q = request PROVE request \notin ToSet(t)
    OBVIOUS
  <2>1. Len(stdin) = 1
    <3>1. ~(1 < Len(stdin))
      <4>1. q \in Nat /\ ~(q < request)
        BY <1>2, <1>4
      <4> QED BY <1>4, <1>5, <4>1
    <3> QED BY <1>4, <3>1
  <2>2. DOMAIN t = 1 .. 0
    BY <1>4, <2>1, LenProperties
  <2> QED BY <2>2 DEF ToSet
<1>8. q = request => /\ \A f \in Paths : answers[f] = Unanswered
                     /\ \A i \in 1 .. Len(stdout) : ~(stdout[i].request = q /\ stdout[i].type = "complete")
                     /\ outcome # "complete"
  BY <1>4 DEF WorkerInv, FreshOK, DoneOK
<1> DEFINE A == ToSet(TooLarge)
           e == [f \in Paths |-> [status |-> "skipped", chunks |-> 0]]
<1>9. A \in SUBSET Paths /\ A = {f \in Paths : ~Fits(f)} /\ TooLarge \in Seq(Paths) /\ Distinct(TooLarge)
  BY ThreeLists
<1>10. e \in [Paths -> Answer] /\ \A f \in Paths : e[f].status = "skipped" /\ e[f].chunks = 0
  BY WorkerAssumption DEF Answer
<1>11. PICK u : u = [i \in DOMAIN TooLarge |-> FileEvent(q, TooLarge[i], "skipped")]
  OBVIOUS
<1>12. Answering(u, q, A, e)
  BY <1>4, <1>9, <1>11, SkippedStreamed
<1>13. stdout' = stdout \o u
  BY <1>1, <1>11 DEF EmitSkipped
<1>14. answers' = [f \in Paths |-> IF q = request /\ f \in A THEN e[f] ELSE answers[f]]
  <2>1. \A f \in Paths : e[f] = [status |-> "skipped", chunks |-> 0]
    OBVIOUS
  <2> QED BY <1>1, <2>1 DEF EmitSkipped
<1> HIDE DEF A, e
<1>16. q = request => \A f \in A : answers[f].status = "none"
  BY <1>8, <1>9 DEF Unanswered
<1>17. current' = q /\ UNCHANGED callerVars
  BY <1>1
<1>18. /\ stdout' \in Seq(Event) /\ answers' \in [Paths -> Answer]
       /\ StreamOK' /\ FreshOK' /\ EndOK' /\ DoneOK'
       /\ current' <= request' /\ \A i \in 1 .. Len(stdout') : (stdout'[i]).request <= request'
  <2>1. /\ q \in 1 .. MaxRequests /\ A \in SUBSET Paths /\ e \in [Paths -> Answer] /\ q <= request
        /\ \A x \in ToSet(stdin') : x \in ToSet(stdin)
    BY <1>3, <1>4, <1>5, <1>9, <1>10
  <2>2. q = request =>
          /\ \A f \in A : answers[f].status = "none"
          /\ \A i \in 1 .. Len(stdout) : ~(stdout[i].request = q /\ stdout[i].type = "complete")
          /\ request \notin ToSet(stdin') /\ outcome # "complete"
    BY <1>3, <1>6, <1>8, <1>16
  <2>3. Written
    BY <1>12, <1>13, <1>14, <1>17, <2>1, <2>2, Emitted
  <2> QED BY <2>3 DEF Written
<1>19. request' = request /\ client' = client /\ buffered' = buffered /\ delivered' = delivered /\ outcome' = outcome
  BY DEF callerVars
<1>20. OrderOK'
  <2>1. \A i \in 1 .. Len(t) : t[i] <= request /\ (i < Len(t) => t[i] < request)
    <3> SUFFICES ASSUME NEW i \in 1 .. Len(t) PROVE t[i] <= request /\ (i < Len(t) => t[i] < request)
      OBVIOUS
    <3>1. PICK k : k = i + 1
      OBVIOUS
    <3>2. k \in 1 .. Len(stdin) /\ t[i] = stdin[k] /\ (i < Len(t) => k < Len(stdin))
      BY <1>4, <3>1
    <3> QED BY <3>2 DEF WorkerInv, OrderOK
  <2> QED BY <1>3, <1>18, <1>19, <2>1 DEF OrderOK
<1>21. pending = <<>> /\ busy = {} /\ pending' = <<>> /\ busy' = {} /\ Held' = {} /\ width' = width
  BY NothingHeld DEF WorkerInv, HeldOK, Held
<1>22. ahead' \in Seq(Seq(Paths)) /\ PlanOK(ahead') /\ Waiting(ahead') = {f \in Paths : Fits(f)}
  BY RequestPlan
<1>23. HeldOK'
  <2>1. Cardinality(busy') <= width'
    BY <1>21, FS_EmptySet, RequestNumbers DEF WorkerInv
  <2>2. current' # 0
    BY <1>4, <1>17
  <2> QED BY <1>21, <1>22, <2>1, <2>2, NothingHeld DEF HeldOK
<1>24. TodoOK'
  <2> SUFFICES ASSUME q = request, NEW f \in Paths
               PROVE  f \in Todo' <=> answers'[f].status = "none"
    BY <1>17, <1>19 DEF TodoOK
  <2>1. f \in Todo' <=> Fits(f)
    BY <1>21, <1>22 DEF Todo
  <2>2. answers'[f] = IF f \in A THEN e[f] ELSE answers[f]
    BY <1>14
  <2>3. answers[f].status = "none" /\ e[f].status # "none"
    BY <1>8, <1>10 DEF Unanswered
  <2> QED BY <1>9, <2>1, <2>2, <2>3
<1>25. WorkerTypeOK'
  BY <1>3, <1>4, <1>17, <1>18, <1>19, <1>21, <1>22 DEF WorkerInv, WorkerTypeOK
<1> QED BY <1>18, <1>20, <1>23, <1>24, <1>25 DEF WorkerInv

LEMMA LoadBatchKeeps == ASSUME WorkerInv, LoadBatch PROVE WorkerInv'
<1> USE DEF LoadBatch
<1>1. /\ ahead # <<>> /\ ahead \in Seq(Seq(Paths)) /\ answers \in [Paths -> Answer]
      /\ stdin \in Seq(1 .. MaxRequests)
  BY DEF WorkerInv, WorkerTypeOK
<1>2. PICK batch : batch = Head(ahead)
  OBVIOUS
<1>3. PICK left \in SUBSET ToSet(batch) :
        LET loaded == Pick(batch, {i \in DOMAIN batch : batch[i] \notin left}) IN
        /\ pending' = loaded
        /\ width' = IF loaded = <<>> THEN 0 ELSE Width(loaded)
        /\ EmitSkipped(current, Pick(batch, {i \in DOMAIN batch : batch[i] \in left}))
  BY <1>2
<1>4. /\ batch \in Seq(Paths) /\ ahead' \in Seq(Seq(Paths)) /\ PlanOK(ahead')
      /\ Distinct(batch) /\ Light(ToSet(batch)) /\ ToSet(batch) \in SUBSET Paths
      /\ ToSet(batch) \intersect Waiting(ahead') = {}
      /\ Waiting(ahead) = ToSet(batch) \union Waiting(ahead')
  BY <1>1, <1>2, PlanTail DEF WorkerInv, HeldOK
<1>5. PICK loaded, skipped : /\ loaded = Pick(batch, {i \in DOMAIN batch : batch[i] \notin left})
                             /\ skipped = Pick(batch, {i \in DOMAIN batch : batch[i] \in left})
  OBVIOUS
<1>6. DOMAIN batch = 1 .. Len(batch)
  BY <1>4, LenProperties
<1>7. /\ loaded \in Seq(Paths) /\ Distinct(loaded)
      /\ ToSet(loaded) = {batch[i] : i \in {j \in DOMAIN batch : batch[j] \notin left}}
  <2> DEFINE I == {j \in DOMAIN batch : batch[j] \notin left}
  <2>1. I \in SUBSET DOMAIN batch /\ loaded = Pick(batch, I)
    BY <1>5
  <2> HIDE DEF I
  <2>2. Picked(loaded, batch, I, Paths)
    BY <1>4, <2>1, PickPicked
  <2> QED BY <2>2 DEF I, Picked
<1>8. /\ skipped \in Seq(Paths) /\ Distinct(skipped)
      /\ ToSet(skipped) = {batch[i] : i \in {j \in DOMAIN batch : batch[j] \in left}}
  <2> DEFINE I == {j \in DOMAIN batch : batch[j] \in left}
  <2>1. I \in SUBSET DOMAIN batch /\ skipped = Pick(batch, I)
    BY <1>5
  <2> HIDE DEF I
  <2>2. Picked(skipped, batch, I, Paths)
    BY <1>4, <2>1, PickPicked
  <2> QED BY <2>2 DEF I, Picked
<1>9. ToSet(skipped) = left /\ ToSet(loaded) = ToSet(batch) \ left
  <2>1. \A f \in ToSet(batch) : \E i \in DOMAIN batch : batch[i] = f
    BY DEF ToSet
  <2>2. \A i \in DOMAIN batch : batch[i] \in ToSet(batch)
    BY DEF ToSet
  <2> QED BY <1>7, <1>8, <2>1, <2>2
<1>10. pending' = loaded /\ width' = (IF loaded = <<>> THEN 0 ELSE Width(loaded))
  BY <1>3, <1>5
<1>11. current # 0
  BY <1>1 DEF WorkerInv, HeldOK
<1>12. PICK q : q = current
  OBVIOUS
<1>13. /\ q \in 1 .. MaxRequests /\ q <= request
       /\ q = request =>
            /\ request \notin ToSet(stdin) /\ outcome # "complete"
            /\ \A i \in 1 .. Len(stdout) : ~(stdout[i].request = q /\ stdout[i].type = "complete")
            /\ \A f \in Paths : f \in Todo <=> answers[f].status = "none"
  BY <1>11, <1>12, Serving
<1> DEFINE e == [f \in Paths |-> [status |-> "skipped", chunks |-> 0]]
<1>14. e \in [Paths -> Answer] /\ \A f \in Paths : e[f] = [status |-> "skipped", chunks |-> 0]
  BY WorkerAssumption DEF Answer
<1>15. PICK u : u = [i \in DOMAIN skipped |-> FileEvent(q, skipped[i], "skipped")]
  OBVIOUS
<1>16. stdout' = stdout \o u
  BY <1>3, <1>5, <1>12, <1>15 DEF EmitSkipped
<1>17. answers' = [f \in Paths |-> IF q = request /\ f \in left THEN e[f] ELSE answers[f]]
  BY <1>3, <1>5, <1>9, <1>12, <1>14 DEF EmitSkipped
<1> HIDE DEF e
<1>18. Answering(u, q, left, e)
  <2>1. Answering(u, q, ToSet(skipped), e)
    BY <1>8, <1>13, <1>14, <1>15, SkippedStreamed
  <2> QED BY <1>9, <2>1
<1>19. busy = {} /\ pending = <<>> /\ busy' = {} /\ Held' = ToSet(loaded) /\ Held = {}
  BY <1>10, NothingHeld DEF Held
<1>20. Written
  <2>1. left \in SUBSET Paths /\ UNCHANGED callerVars /\ current' = q /\ \A x \in ToSet(stdin') : x \in ToSet(stdin)
    BY <1>4, <1>12
  <2>2. ASSUME q = request
        PROVE  /\ \A f \in left : answers[f].status = "none"
               /\ \A i \in 1 .. Len(stdout) : ~(stdout[i].request = q /\ stdout[i].type = "complete")
               /\ request \notin ToSet(stdin') /\ outcome # "complete"
    <3>1. \A f \in left : f \in Todo
      BY <1>4 DEF Todo
    <3> QED BY <1>13, <2>1, <2>2, <3>1
  <2> QED BY <1>13, <1>14, <1>16, <1>17, <1>18, <2>1, <2>2, Emitted
<1>21. /\ stdout' \in Seq(Event) /\ answers' \in [Paths -> Answer]
       /\ StreamOK' /\ FreshOK' /\ EndOK' /\ DoneOK'
       /\ current' <= request' /\ \A i \in 1 .. Len(stdout') : (stdout'[i]).request <= request'
  BY <1>20 DEF Written
<1>22. /\ request' = request /\ client' = client /\ buffered' = buffered /\ delivered' = delivered
       /\ outcome' = outcome /\ stdin' = stdin /\ current' = current
  BY DEF callerVars
<1>23. OrderOK'
  BY <1>21, <1>22 DEF WorkerInv, OrderOK
<1>24. width' \in Nat /\ (width' <= 1 \/ \A f \in ToSet(loaded) : width' * Bytes[f] <= MemoryBudget)
  <2>1. CASE loaded = <<>>
    BY <1>10, <2>1
  <2>2. CASE loaded # <<>>
    <3>1. /\ Width(loaded) \in Nat \ {0}
          /\ Width(loaded) <= 1 \/ \A f \in ToSet(loaded) : Width(loaded) * Bytes[f] <= MemoryBudget
      BY <1>7, <2>2, WidthFits
    <3> QED BY <1>10, <2>2, <3>1
  <2> QED BY <2>1, <2>2
<1>25. HeldOK'
  <2>1. Light(ToSet(loaded))
    BY <1>4, <1>9, SubsetLight
  <2>2. Cardinality(busy') <= width'
    BY <1>19, <1>24, FS_EmptySet
  <2>3. Waiting(ahead') \intersect Held' = {}
    BY <1>4, <1>9, <1>19
  <2> QED BY <1>4, <1>7, <1>10, <1>11, <1>19, <1>22, <1>24, <2>1, <2>2, <2>3 DEF HeldOK
<1>26. TodoOK'
  <2> SUFFICES ASSUME q = request, NEW f \in Paths
               PROVE  f \in Todo' <=> answers'[f].status = "none"
    BY <1>12, <1>22 DEF TodoOK
  <2>1. f \in Todo' <=> f \in Todo /\ f \notin left
    BY <1>4, <1>9, <1>19 DEF Todo
  <2>2. answers'[f] = IF f \in left THEN e[f] ELSE answers[f]
    BY <1>17
  <2>3. e[f].status # "none"
    BY <1>14
  <2> QED BY <1>13, <2>1, <2>2, <2>3
<1>27. WorkerTypeOK'
  BY <1>4, <1>7, <1>10, <1>19, <1>21, <1>22, <1>24 DEF WorkerInv, WorkerTypeOK
<1> QED BY <1>21, <1>23, <1>25, <1>26, <1>27 DEF WorkerInv

\* Nothing else changes for the caller when a file changes hands.
LEMMA TakeFileKeeps == ASSUME WorkerInv, TakeFile PROVE WorkerInv'
<1> USE DEF TakeFile
<1>1. /\ pending \in Seq(Paths) /\ pending # <<>> /\ busy \in SUBSET Paths /\ width \in Nat
      /\ Distinct(pending) /\ busy \intersect ToSet(pending) = {}
  BY DEF WorkerInv, WorkerTypeOK, HeldOK
<1>2. PICK t, f : t = Tail(pending) /\ f = Head(pending)
  OBVIOUS
<1>3. /\ t \in Seq(Paths) /\ Len(pending) \in Nat /\ Len(t) = Len(pending) - 1 /\ Len(t) \in Nat
      /\ \A i \in 1 .. Len(t) : i + 1 \in 1 .. Len(pending) /\ t[i] = pending[i + 1]
      /\ f = pending[1] /\ 1 \in 1 .. Len(pending) /\ f \in Paths
      /\ \A x \in ToSet(t) : x \in ToSet(pending)
      /\ f \in ToSet(pending)
  <2>1. TailOf(Tail(pending), pending, Paths)
    BY <1>1, TailElements
  <2> QED BY <1>2, <2>1 DEF TailOf
<1>4. \A x \in ToSet(pending) : x = f \/ x \in ToSet(t)
  <2>1. \A x \in ToSet(pending) : x = Head(pending) \/ x \in ToSet(t)
    BY <1>1, <1>2, TailParts
  <2> QED BY <1>2, <2>1
<1>5. Distinct(t) /\ f \notin ToSet(t)
  <2>1. ASSUME NEW i \in 1 .. Len(t), NEW j \in 1 .. Len(t), t[i] = t[j] PROVE i = j
    <3>1. i + 1 \in 1 .. Len(pending) /\ j + 1 \in 1 .. Len(pending) /\ pending[i + 1] = pending[j + 1]
      BY <1>3, <2>1
    <3>2. i + 1 = j + 1
      BY <1>1, <3>1 DEF Distinct
    <3> QED BY <3>2
  <2>2. ASSUME f \in ToSet(t) PROVE FALSE
    <3>1. PICK i \in 1 .. Len(t) : t[i] = f
      BY <1>3, <2>2, LenProperties DEF ToSet
    <3>2. i + 1 \in 1 .. Len(pending) /\ pending[i + 1] = pending[1]
      BY <1>3, <3>1
    <3>3. i + 1 = 1
      BY <1>1, <1>3, <3>2 DEF Distinct
    <3> QED BY <1>3, <3>1, <3>3
  <2> QED BY <2>1, <2>2 DEF Distinct
<1>6. pending' = t /\ busy' = busy \union {f} /\ Held' = Held
  BY <1>2, <1>3, <1>4 DEF Held
<1>7. Cardinality(busy') <= width'
  <2>1. IsFiniteSet(busy) /\ f \notin busy
    BY <1>1, <1>3, FileNumbers, FS_Subset
  <2>2. Cardinality(busy') = Cardinality(busy) + 1 /\ Cardinality(busy) \in Nat
    BY <1>6, <2>1, FS_AddElement, FS_CardinalityType
  <2> QED BY <1>1, <2>2
<1>8. UNCHANGED <<client, request, buffered, delivered, outcome>>
  BY DEF callerVars
<1>9. current # 0
  BY <1>1 DEF WorkerInv, HeldOK
<1>10. HeldOK'
  <2>1. /\ PlanOK(ahead) /\ Light(Held) /\ Waiting(ahead) \intersect Held = {}
        /\ width <= 1 \/ \A g \in Held : width * Bytes[g] <= MemoryBudget
    BY DEF WorkerInv, HeldOK
  <2>2. busy' \intersect ToSet(pending') = {} /\ Distinct(pending')
    BY <1>1, <1>3, <1>5, <1>6
  <2> QED BY <1>6, <1>7, <1>9, <2>1, <2>2 DEF HeldOK
<1>11. TodoOK'
  BY <1>6, <1>8 DEF WorkerInv, TodoOK, Todo
<1>12. StreamOK' /\ OrderOK' /\ FreshOK' /\ EndOK' /\ DoneOK'
  BY <1>8 DEF WorkerInv, StreamOK, OrderOK, FreshOK, EndOK, DoneOK
<1>13. WorkerTypeOK'
  BY <1>3, <1>1, <1>6, <1>8 DEF WorkerInv, WorkerTypeOK
<1> QED BY <1>10, <1>11, <1>12, <1>13 DEF WorkerInv

\* The answer to one file.
LEMMA FileAnswerKeeps ==
  ASSUME WorkerInv, NEW f \in busy, NEW answer \in Answer, answer.status \in Statuses,
         Emit(current, f, answer), busy' = busy \ {f},
         UNCHANGED <<child, stdin, backlog, current, ahead, pending, width, callerVars, deaths>>
  PROVE  WorkerInv'
<1>1. /\ stdout \in Seq(Event) /\ answers \in [Paths -> Answer] /\ busy \in SUBSET Paths /\ f \in Paths
      /\ width \in Nat /\ answer.chunks \in Nat /\ answer.status # "none"
  <2>1. stdout \in Seq(Event) /\ answers \in [Paths -> Answer] /\ busy \in SUBSET Paths /\ width \in Nat
    BY DEF WorkerInv, WorkerTypeOK
  <2>2. answer.chunks \in Nat /\ answer.status # "none"
    BY WorkerAssumption DEF Answer, Statuses
  <2> QED BY <2>1, <2>2
<1>2. current # 0
  BY DEF WorkerInv, HeldOK
<1>3. PICK q : q = current
  OBVIOUS
<1>4. /\ q \in 1 .. MaxRequests /\ q <= request
      /\ q = request =>
           /\ request \notin ToSet(stdin) /\ outcome # "complete"
           /\ \A i \in 1 .. Len(stdout) : ~(stdout[i].request = q /\ stdout[i].type = "complete")
           /\ \A g \in Paths : g \in Todo <=> answers[g].status = "none"
  BY <1>2, <1>3, Serving
<1>5. PICK u : u = ChunkEvents(q, f, answer.chunks) \o <<FileEvent(q, f, answer.status)>>
  OBVIOUS
<1> DEFINE e == [g \in Paths |-> answer]
<1>8. e \in [Paths -> Answer] /\ \A g \in Paths : e[g] = answer
  OBVIOUS
<1>6. /\ Answering(u, q, {f}, e)
      /\ ChunkEvents(q, f, answer.chunks) \in Seq(Event) /\ <<FileEvent(q, f, answer.status)>> \in Seq(Event)
  <2>1. PICK s, n : s = answer.status /\ n = answer.chunks
    OBVIOUS
  <2>2. e[f] = [status |-> s, chunks |-> n] /\ s \in Statuses /\ n \in Nat
    BY <1>1, <1>8, <2>1 DEF Answer
  <2> HIDE DEF e
  <2>3. /\ Answering(u, q, {f}, e)
        /\ ChunkEvents(q, f, n) \in Seq(Event) /\ <<FileEvent(q, f, s)>> \in Seq(Event)
    BY <1>1, <1>4, <1>5, <2>1, <2>2, AnswerStreamed
  <2> QED BY <2>1, <2>3
<1>7. stdout' = stdout \o u
  <2>1. PICK c, g : c = ChunkEvents(q, f, answer.chunks) /\ g = <<FileEvent(q, f, answer.status)>>
    OBVIOUS
  <2>2. stdout' = (stdout \o c) \o g
    BY <1>3, <2>1 DEF Emit
  <2>3. (stdout \o c) \o g = stdout \o (c \o g)
    BY <1>1, <1>6, <2>1, ConcatAssociative
  <2> QED BY <1>5, <2>1, <2>2, <2>3
<1>9. answers' = [g \in Paths |-> IF q = request /\ g \in {f} THEN e[g] ELSE answers[g]]
  BY <1>1, <1>3, <1>8 DEF Emit
<1> HIDE DEF e
<1>11. f \in Todo
  BY DEF Todo, Held
<1>12. Written
  <2>1. {f} \in SUBSET Paths /\ UNCHANGED callerVars /\ current' = q /\ \A x \in ToSet(stdin') : x \in ToSet(stdin)
    BY <1>1, <1>3
  <2>2. q = request =>
               /\ \A g \in {f} : answers[g].status = "none"
               /\ \A i \in 1 .. Len(stdout) : ~(stdout[i].request = q /\ stdout[i].type = "complete")
               /\ request \notin ToSet(stdin') /\ outcome # "complete"
    BY <1>1, <1>4, <1>11, <2>1
  <2> QED BY <1>4, <1>6, <1>7, <1>8, <1>9, <2>1, <2>2, Emitted
<1>13. /\ stdout' \in Seq(Event) /\ answers' \in [Paths -> Answer]
       /\ StreamOK' /\ FreshOK' /\ EndOK' /\ DoneOK'
       /\ current' <= request' /\ \A i \in 1 .. Len(stdout') : (stdout'[i]).request <= request'
  BY <1>12 DEF Written
<1>14. /\ request' = request /\ client' = client /\ buffered' = buffered /\ delivered' = delivered
       /\ outcome' = outcome
  BY DEF callerVars
<1>15. OrderOK'
  BY <1>13, <1>14 DEF WorkerInv, OrderOK
<1>16. Held \in SUBSET Paths /\ f \notin ToSet(pending) /\ Held' = Held \ {f}
  <2>1. pending \in Seq(Paths)
    BY DEF WorkerInv, WorkerTypeOK
  <2>2. ToSet(pending) \in SUBSET Paths
    BY <2>1, LenProperties DEF ToSet
  <2>3. f \notin ToSet(pending)
    BY DEF WorkerInv, HeldOK
  <2> QED BY <1>1, <2>2, <2>3 DEF Held
<1>17. HeldOK'
  <2>1. Light(Held')
    BY <1>16, SubsetLight DEF WorkerInv, HeldOK
  <2>2. Cardinality(busy') <= width'
    <3>1. IsFiniteSet(busy)
      BY <1>1, FileNumbers, FS_Subset
    <3>2. Cardinality(busy') = Cardinality(busy) - 1 /\ Cardinality(busy) \in Nat
      BY <3>1, FS_RemoveElement, FS_CardinalityType
    <3> QED BY <1>1, <3>2 DEF WorkerInv, HeldOK
  <2> QED BY <1>2, <1>16, <2>1, <2>2 DEF WorkerInv, HeldOK
<1>18. TodoOK'
  <2> SUFFICES ASSUME q = request, NEW g \in Paths
               PROVE  g \in Todo' <=> answers'[g].status = "none"
    BY <1>3, <1>14 DEF TodoOK
  <2>1. g \in Todo' <=> g \in Todo /\ g # f
    <3>1. f \notin Waiting(ahead)
      BY DEF WorkerInv, HeldOK, Held
    <3> QED BY <1>16, <3>1 DEF Todo
  <2>2. answers'[g] = IF g = f THEN e[g] ELSE answers[g]
    BY <1>9
  <2> QED BY <1>1, <1>4, <1>8, <2>1, <2>2
<1>19. WorkerTypeOK'
  BY <1>1, <1>13, <1>14 DEF WorkerInv, WorkerTypeOK
<1> QED BY <1>13, <1>15, <1>17, <1>18, <1>19 DEF WorkerInv

LEMMA FileDoneKeeps == ASSUME WorkerInv, NEW f \in Paths, FileDone(f) PROVE WorkerInv'
<1> USE DEF FileDone
<1>1. ASSUME NEW n \in 1 .. MaxChunks, Emit(current, f, [status |-> "succeeded", chunks |-> n])
      PROVE  WorkerInv'
  <2>1. PICK answer : answer = [status |-> "succeeded", chunks |-> n]
    OBVIOUS
  <2>2. answer \in Answer /\ answer.status \in Statuses
    BY <2>1, WorkerAssumption DEF Answer, Statuses
  <2> QED BY <1>1, <2>1, <2>2, FileAnswerKeeps
<1>2. ASSUME Emit(current, f, [status |-> "failed", chunks |-> 0])
      PROVE  WorkerInv'
  <2>1. PICK answer : answer = [status |-> "failed", chunks |-> 0]
    OBVIOUS
  <2>2. answer \in Answer /\ answer.status \in Statuses
    BY <2>1, WorkerAssumption DEF Answer, Statuses
  <2> QED BY <1>2, <2>1, <2>2, FileAnswerKeeps
<1> QED BY <1>1, <1>2

LEMMA CompleteKeeps == ASSUME WorkerInv, Complete PROVE WorkerInv'
<1> USE DEF Complete
<1>1. Todo = {}
  BY NothingHeld DEF Todo, Held
<1>2. current = request => \A f \in Paths : answers[f].status # "none"
  BY <1>1, Serving
<1>3. UNCHANGED <<client, request, buffered, delivered, outcome>>
  BY DEF callerVars
<1>4. stdout' \in Seq(Event) /\ StreamOK' /\ OrderOK' /\ FreshOK' /\ TodoOK' /\ EndOK' /\ DoneOK'
  <2>1. UNCHANGED <<stdin, callerVars, answers>>
    OBVIOUS
  <2> QED BY <1>2, <2>1, Ended DEF WorkerInv
<1>5. HeldOK'
  <2>1. width' \in Nat
    BY RequestNumbers DEF WorkerInv
  <2>2. ahead' = <<>> /\ pending' = <<>> /\ busy' = {}
    OBVIOUS
  <2> QED BY <2>1, <2>2, ClearedHeld, NothingHeld, FS_EmptySet DEF HeldOK, Held
<1>6. WorkerTypeOK'
  BY <1>3, <1>4, RequestNumbers DEF WorkerInv, WorkerTypeOK
<1> QED BY <1>4, <1>5, <1>6 DEF WorkerInv

\* A worker with nothing to do, after the step.
LEMMA ClearedNext ==
  ASSUME ahead' = <<>>, pending' = <<>>, busy' = {}, width' = 0
  PROVE  HeldOK'
<1>1. Held' = {}
  BY NothingHeld DEF Held
<1>2. Cardinality({}) = 0
  BY FS_EmptySet
<1> QED BY <1>1, <1>2, NothingHeld DEF HeldOK

LEMMA FatalKeeps == ASSUME WorkerInv, Fatal PROVE WorkerInv'
<1> USE DEF Fatal
<1>1. UNCHANGED <<client, request, buffered, delivered, outcome>>
  BY DEF callerVars
<1>2. stdout' \in Seq(Event) /\ StreamOK' /\ OrderOK' /\ FreshOK' /\ TodoOK' /\ EndOK' /\ DoneOK'
  <2>1. UNCHANGED <<stdin, callerVars, answers>>
    OBVIOUS
  <2> QED BY <2>1, Ended DEF WorkerInv
<1>3. HeldOK'
  BY ClearedNext
<1>4. WorkerTypeOK'
  BY <1>1, <1>2, RequestNumbers DEF WorkerInv, WorkerTypeOK
<1> QED BY <1>2, <1>3, <1>4 DEF WorkerInv

\* The request of an event about the caller's request is not 0; nor is one that completed.
LEMMA RequestStarted ==
  ASSUME WorkerInv, outcome = "complete" \/ \E i \in 1 .. Len(stdout) : stdout[i].request = request
  PROVE  request # 0
<1>1. CASE outcome = "complete"
  BY <1>1, RequestNumbers DEF WorkerInv, DoneOK, OrderOK
<1>2. ASSUME NEW i \in 1 .. Len(stdout), stdout[i].request = request PROVE request # 0
  <2>1. stdout[i] \in Event
    BY LenProperties DEF WorkerInv, WorkerTypeOK
  <2> QED BY <1>2, <2>1, RequestNumbers DEF Event, WorkerInv
<1> QED BY <1>1, <1>2

LEMMA DieKeeps == ASSUME WorkerInv, Die PROVE WorkerInv'
<1> USE DEF Die
<1>1. UNCHANGED <<client, request, buffered, delivered, outcome, stdout, answers>>
  BY DEF callerVars
<1>2. ToSet(<<>>) = {} /\ Len(<<>>) = 0 /\ \A i \in 1 .. 0 : FALSE
  BY NothingHeld
<1>3. HeldOK'
  BY ClearedNext
<1>4. StreamOK'
  BY <1>1 DEF WorkerInv, StreamOK
<1>5. OrderOK'
  BY <1>1, <1>2, RequestNumbers DEF WorkerInv, OrderOK
<1>6. FreshOK' /\ TodoOK'
  BY <1>2 DEF FreshOK, TodoOK
<1>7. EndOK'
  BY <1>1, RequestStarted DEF WorkerInv, EndOK
<1>8. DoneOK'
  BY <1>1, <1>2, RequestStarted DEF WorkerInv, DoneOK
<1>9. WorkerTypeOK'
  <2>1. deaths' \in 0 .. MaxDeaths
    BY WorkerAssumption DEF WorkerInv, WorkerTypeOK
  <2>2. stdin' \in Seq(1 .. MaxRequests) /\ ahead' \in Seq(Seq(Paths)) /\ pending' \in Seq(Paths)
    OBVIOUS
  <2>3. /\ WorkerTypeOK /\ MaxRequests \in Nat
        /\ child' = "broken" /\ backlog' = FALSE /\ current' = 0 /\ busy' = {} /\ width' = 0
    BY RequestNumbers DEF WorkerInv
  <2>4. /\ child' \in {"none", "alive", "broken", "exited"}
        /\ current' \in 0 .. MaxRequests /\ busy' \subseteq Paths /\ width' \in Nat
    BY ONLY <2>3
  <2>6. backlog' \in BOOLEAN
    BY ONLY <2>3
  <2>5. /\ client' \in {"idle", "writing", "reading"} /\ stdout' \in Seq(Event)
        /\ outcome' \in {"none", "complete", "error", "left"}
        /\ request' \in 0 .. MaxRequests /\ buffered' \in [Paths -> Nat]
        /\ delivered' \in [Paths -> Answer] /\ answers' \in [Paths -> Answer]
    BY ONLY <1>1, <2>3 DEF WorkerTypeOK
  <2> QED BY ONLY <2>1, <2>2, <2>4, <2>5, <2>6 DEF WorkerTypeOK
<1> QED BY <1>3, <1>4, <1>5, <1>6, <1>7, <1>8, <1>9 DEF WorkerInv

LEMMA NoticeExitKeeps == ASSUME WorkerInv, NoticeExit PROVE WorkerInv'
<1> USE DEF NoticeExit
<1>1. UNCHANGED <<client, request, buffered, delivered, outcome>>
  BY DEF callerVars
<1>2. HeldOK' /\ TodoOK'
  BY <1>1 DEF WorkerInv, HeldOK, Held, TodoOK, Todo
<1>3. StreamOK' /\ OrderOK' /\ FreshOK' /\ EndOK' /\ DoneOK'
  BY <1>1 DEF WorkerInv, StreamOK, OrderOK, FreshOK, EndOK, DoneOK
<1>4. WorkerTypeOK'
  BY <1>1 DEF WorkerInv, WorkerTypeOK
<1> QED BY <1>2, <1>3, <1>4 DEF WorkerInv

LEMMA ReadStdinKeeps == ASSUME WorkerInv, ReadStdin PROVE WorkerInv'
<1> USE DEF ReadStdin
<1>1. UNCHANGED <<client, request, buffered, delivered, outcome>>
  BY DEF callerVars
<1>2. HeldOK' /\ TodoOK'
  BY <1>1 DEF WorkerInv, HeldOK, Held, TodoOK, Todo
<1>3. StreamOK' /\ OrderOK' /\ FreshOK' /\ EndOK' /\ DoneOK'
  BY <1>1 DEF WorkerInv, StreamOK, OrderOK, FreshOK, EndOK, DoneOK
<1>4. WorkerTypeOK'
  BY <1>1 DEF WorkerInv, WorkerTypeOK
<1> QED BY <1>2, <1>3, <1>4 DEF WorkerInv

LEMMA RequestChunksKeeps == ASSUME WorkerInv, RequestChunks PROVE WorkerInv'
<1> USE DEF RequestChunks
<1>1. /\ request \in Nat /\ current \in Nat /\ MaxRequests \in Nat /\ request' = request + 1
      /\ request' \in 1 .. MaxRequests /\ stdin \in Seq(1 .. MaxRequests) /\ stdout \in Seq(Event)
  BY RequestNumbers DEF WorkerInv, WorkerTypeOK
<1>2. /\ UNCHANGED <<current, ahead, pending, busy, width, deaths>>
      /\ child' \in {"none", "alive", "broken", "exited"} /\ client' \in {"idle", "writing", "reading"}
      /\ outcome' \in {"none", "error"} /\ backlog' \in BOOLEAN
      /\ stdout' = stdout \/ stdout' = <<>>
      /\ stdin' = stdin \/ stdin' = Append(stdin, request + 1)
  BY DEF childVars, WorkerInv, WorkerTypeOK
<1>3. Len(<<>>) = 0 /\ (\A i \in 1 .. 0 : FALSE) /\ <<>> \in Seq(Event)
  OBVIOUS
<1>4. /\ stdout' \in Seq(Event)
      /\ \A i \in 1 .. Len(stdout') : (stdout'[i]).request <= request /\ (stdout'[i]).request # request'
  <2>1. \A i \in 1 .. Len(stdout) : stdout[i].request <= request /\ stdout[i].request # request'
    <3> SUFFICES ASSUME NEW i \in 1 .. Len(stdout) PROVE stdout[i].request <= request /\ stdout[i].request # request'
      OBVIOUS
    <3>1. stdout[i] \in Event
      BY <1>1, LenProperties
    <3>2. stdout[i].request \in Nat
      BY <1>1, <3>1 DEF Event
    <3>3. stdout[i].request <= request
      BY DEF WorkerInv, OrderOK
    <3> QED BY <1>1, <3>2, <3>3
  <2> QED BY <1>1, <1>2, <1>3, <2>1
<1>5. /\ stdin' \in Seq(1 .. MaxRequests)
      /\ \A i \in 1 .. Len(stdin') : stdin'[i] <= request' /\ (i < Len(stdin') => stdin'[i] < request')
  <2>1. \A i \in 1 .. Len(stdin) : stdin[i] \in Nat /\ stdin[i] <= request
    BY <1>1, LenProperties DEF WorkerInv, OrderOK
  <2>2. CASE stdin' = stdin
    BY <1>1, <2>1, <2>2
  <2>3. CASE stdin' = Append(stdin, request + 1)
    <3>1. PICK s : s = stdin'
      OBVIOUS
    <3>2. /\ s \in Seq(1 .. MaxRequests) /\ Len(s) = Len(stdin) + 1 /\ Len(stdin) \in Nat
          /\ \A i \in 1 .. Len(stdin) : s[i] = stdin[i]
          /\ s[Len(stdin) + 1] = request + 1
      BY <1>1, <2>3, <3>1, AppendProperties, LenProperties
    <3>3. ASSUME NEW i \in 1 .. Len(s) PROVE s[i] <= request' /\ (i < Len(s) => s[i] < request')
      <4>1. CASE i \in 1 .. Len(stdin)
        <5>1. s[i] = stdin[i] /\ stdin[i] \in Nat /\ stdin[i] <= request
          BY <2>1, <3>2, <4>1
        <5> QED BY <1>1, <5>1
      <4>2. CASE i = Len(stdin) + 1
        BY <1>1, <3>2, <4>2
      <4> QED BY <3>2, <4>1, <4>2
    <3> QED BY <3>1, <3>2, <3>3
  <2> QED BY <1>2, <2>2, <2>3
<1>6. current' <= request /\ current' # request'
  BY <1>1, <1>2 DEF WorkerInv, OrderOK
<1>7. \A f \in Paths : answers'[f] = Unanswered /\ delivered'[f] = Unanswered /\ buffered'[f] = 0
  OBVIOUS
<1>8. StreamOK'
  BY <1>4, <1>7 DEF StreamOK, FileOK, Silent, About
<1>9. OrderOK'
  <2>1. \A i \in 1 .. Len(stdout') : (stdout'[i]).request <= request'
    <3> SUFFICES ASSUME NEW i \in 1 .. Len(stdout') PROVE (stdout'[i]).request <= request'
      OBVIOUS
    <3>1. stdout'[i] \in Event
      BY <1>4, LenProperties
    <3>2. (stdout'[i]).request \in Nat
      BY <1>1, <3>1 DEF Event
    <3> QED BY <1>1, <1>4, <3>2
  <2>2. current' <= request'
    BY <1>1, <1>2, <1>6
  <2> QED BY <1>5, <2>1, <2>2 DEF OrderOK
<1>10. FreshOK'
  BY <1>4, <1>6, <1>7 DEF FreshOK
<1>11. TodoOK' /\ EndOK' /\ DoneOK'
  BY <1>2, <1>4, <1>6 DEF TodoOK, EndOK, DoneOK
<1>12. HeldOK'
  BY <1>2 DEF WorkerInv, HeldOK, Held
<1>13. WorkerTypeOK'
  <2>1. Unanswered \in Answer
    BY WorkerAssumption DEF Unanswered, Answer
  <2>2. answers' \in [Paths -> Answer] /\ delivered' \in [Paths -> Answer] /\ buffered' \in [Paths -> Nat]
    BY <2>1
  <2> QED BY <1>1, <1>2, <1>4, <1>5, <2>2 DEF WorkerInv, WorkerTypeOK
<1> QED BY <1>8, <1>9, <1>10, <1>11, <1>12, <1>13 DEF WorkerInv

\* What is left when the process is thrown away while no caller reads.
LEMMA Discarded ==
  ASSUME WorkerInv, Discard, client' = "idle",
         outcome' = outcome \/ outcome' \in {"error", "left"},
         UNCHANGED <<request, buffered, delivered, answers, deaths>>
  PROVE  WorkerInv'
<1> USE DEF Discard
<1>1. ToSet(<<>>) = {} /\ Len(<<>>) = 0 /\ \A i \in 1 .. 0 : FALSE
  BY NothingHeld
<1>2. HeldOK'
  BY ClearedNext
<1>3. StreamOK'
  <2> SUFFICES ASSUME NEW f \in Paths
               PROVE  FileOK(<<>>, request, f, answers[f], buffered[f], delivered[f], TRUE)
    BY DEF StreamOK
  <2>1. FileOK(stdout, request, f, answers[f], buffered[f], delivered[f], client = "idle")
    BY DEF WorkerInv, StreamOK
  <2> QED BY <2>1, FileThrown
<1>4. OrderOK'
  BY <1>1, RequestNumbers DEF WorkerInv, OrderOK
<1>5. FreshOK' /\ TodoOK' /\ EndOK'
  BY <1>1 DEF FreshOK, TodoOK, EndOK
<1>6. DoneOK'
  BY <1>1, RequestStarted DEF WorkerInv, DoneOK
<1>7. WorkerTypeOK'
  <2>1. /\ stdin' \in Seq(1 .. MaxRequests) /\ stdout' \in Seq(Event)
        /\ ahead' \in Seq(Seq(Paths)) /\ pending' \in Seq(Paths)
    OBVIOUS
  <2>2. /\ WorkerTypeOK /\ MaxRequests \in Nat
        /\ child' = "none" /\ backlog' = FALSE /\ current' = 0 /\ busy' = {} /\ width' = 0
        /\ client' = "idle" /\ (outcome' = outcome \/ outcome' \in {"error", "left"})
        /\ UNCHANGED <<request, buffered, delivered, answers, deaths>>
    BY RequestNumbers DEF WorkerInv
  <2>3. /\ child' \in {"none", "alive", "broken", "exited"}
        /\ current' \in 0 .. MaxRequests /\ busy' \subseteq Paths /\ width' \in Nat
        /\ client' \in {"idle", "writing", "reading"}
        /\ outcome' \in {"none", "complete", "error", "left"}
    BY ONLY <2>2 DEF WorkerTypeOK
  <2>5. backlog' \in BOOLEAN
    BY ONLY <2>2
  <2>4. /\ request' \in 0 .. MaxRequests /\ buffered' \in [Paths -> Nat]
        /\ delivered' \in [Paths -> Answer] /\ answers' \in [Paths -> Answer] /\ deaths' \in 0 .. MaxDeaths
    BY ONLY <2>2 DEF WorkerTypeOK
  <2> QED BY ONLY <2>1, <2>3, <2>4, <2>5 DEF WorkerTypeOK
<1> QED BY <1>2, <1>3, <1>4, <1>5, <1>6, <1>7 DEF WorkerInv

\* The caller reads a chunk or a file event of its request about file e.path.
LEMMA ChunkReadKeeps ==
  ASSUME WorkerInv, stdout # <<>>, NEW e, e = Head(stdout), e.request = request, e.type = "chunk",
         buffered' = [buffered EXCEPT ![e.path] = @ + 1], Consume,
         UNCHANGED <<client, delivered, outcome, request, answers, deaths>>
  PROVE  StreamOK' /\ buffered' \in [Paths -> Nat]
<1>1. stdout \in Seq(Event) /\ answers \in [Paths -> Answer] /\ buffered \in [Paths -> Nat]
  BY DEF WorkerInv, WorkerTypeOK
<1>2. stdout' = Tail(stdout)
  BY DEF Consume
<1>3. StreamOK'
  <2> SUFFICES ASSUME NEW f \in Paths
               PROVE  FileOK(Tail(stdout), request, f, answers[f], buffered'[f], delivered[f], client = "idle")
    BY <1>2 DEF StreamOK
  <2>1. FileOK(stdout, request, f, answers[f], buffered[f], delivered[f], client = "idle")
    BY DEF WorkerInv, StreamOK
  <2>2. CASE e.path = f
    <3>1. About(Head(stdout), request, f) /\ Head(stdout).type = "chunk"
      BY <2>2 DEF About
    <3>2. FileOK(Tail(stdout), request, f, answers[f], buffered[f] + 1, delivered[f], client = "idle")
      BY <1>1, <2>1, <3>1, FileChunkRead
    <3>3. buffered'[f] = buffered[f] + 1
      BY <1>1, <2>2
    <3> QED BY <3>2, <3>3
  <2>3. CASE e.path # f
    <3>1. ~About(Head(stdout), request, f)
      BY <2>3 DEF About
    <3>2. buffered'[f] = buffered[f]
      BY <1>1, <2>3
    <3> QED BY <1>1, <2>1, <3>1, <3>2, FileUnread
  <2> QED BY <2>2, <2>3
<1>4. buffered' \in [Paths -> Nat]
  <2>1. ASSUME NEW f \in Paths PROVE buffered'[f] \in Nat
    <3>1. buffered'[f] = IF f = e.path THEN buffered[f] + 1 ELSE buffered[f]
      BY <1>1
    <3> QED BY <1>1, <3>1
  <2>2. DOMAIN buffered' = Paths /\ buffered' = [f \in Paths |-> buffered'[f]]
    BY <1>1
  <2> QED BY <2>1, <2>2
<1> QED BY <1>3, <1>4

LEMMA FileReadKeeps ==
  ASSUME WorkerInv, stdout # <<>>, NEW e, e = Head(stdout), e.request = request, e.type = "file",
         buffered' = [buffered EXCEPT ![e.path] = 0],
         delivered' = [delivered EXCEPT ![e.path] = [status |-> e.status, chunks |-> buffered[e.path]]],
         Consume, UNCHANGED <<client, outcome, request, answers, deaths>>
  PROVE  /\ StreamOK' /\ buffered' \in [Paths -> Nat] /\ delivered' \in [Paths -> Answer]
<1>1. /\ stdout \in Seq(Event) /\ answers \in [Paths -> Answer] /\ buffered \in [Paths -> Nat]
      /\ delivered \in [Paths -> Answer]
  BY DEF WorkerInv, WorkerTypeOK
<1>2. stdout' = Tail(stdout)
  BY DEF Consume
<1>3. ASSUME NEW f \in Paths
      PROVE  /\ FileOK(Tail(stdout), request, f, answers[f], buffered'[f], delivered'[f], client = "idle")
             /\ delivered'[f] \in Answer
  <2>1. FileOK(stdout, request, f, answers[f], buffered[f], delivered[f], client = "idle")
    BY DEF WorkerInv, StreamOK
  <2>2. CASE e.path = f
    <3>1. About(Head(stdout), request, f) /\ Head(stdout).type = "file"
      BY <2>2 DEF About
    <3>2. /\ answers[f] = [status |-> Head(stdout).status, chunks |-> buffered[f]]
          /\ FileOK(Tail(stdout), request, f, answers[f], 0, answers[f], client = "idle")
      BY <1>1, <2>1, <3>1, FileRead
    <3>3. buffered'[f] = 0 /\ delivered'[f] = answers[f]
      BY <1>1, <2>2, <3>2
    <3> QED BY <1>1, <3>2, <3>3
  <2>3. CASE e.path # f
    <3>1. ~About(Head(stdout), request, f)
      BY <2>3 DEF About
    <3>2. buffered'[f] = buffered[f] /\ delivered'[f] = delivered[f]
      BY <1>1, <2>3
    <3>3. FileOK(Tail(stdout), request, f, answers[f], buffered[f], delivered[f], client = "idle")
      BY <1>1, <2>1, <3>1, FileUnread
    <3> QED BY <1>1, <3>2, <3>3
  <2> QED BY <2>2, <2>3
<1>4. StreamOK'
  BY <1>2, <1>3 DEF StreamOK
<1>5. buffered' \in [Paths -> Nat]
  BY <1>1
<1>6. delivered' \in [Paths -> Answer]
  <2>1. DOMAIN delivered' = Paths /\ delivered' = [f \in Paths |-> delivered'[f]]
    BY <1>1
  <2> QED BY <1>3, <2>1
<1> QED BY <1>4, <1>5, <1>6

\* What reading an event, whatever it is, leaves as it was.
LEMMA ConsumeKeeps ==
  ASSUME WorkerInv, stdout # <<>>, Consume, UNCHANGED <<request, answers, deaths>>
  PROVE  /\ stdout' \in Seq(Event) /\ HeldOK' /\ OrderOK' /\ FreshOK' /\ TodoOK' /\ EndOK'
<1> USE DEF Consume
<1>1. stdout \in Seq(Event) /\ TailOf(Tail(stdout), stdout, Event)
  <2>1. stdout \in Seq(Event)
    BY DEF WorkerInv, WorkerTypeOK
  <2> QED BY <2>1, TailElements
<1>2. PICK t : t = stdout'
  OBVIOUS
<1>3. /\ t \in Seq(Event) /\ Len(stdout) \in Nat /\ Len(t) = Len(stdout) - 1 /\ Len(t) \in Nat
      /\ \A i \in 1 .. Len(t) : i + 1 \in 1 .. Len(stdout) /\ t[i] = stdout[i + 1]
  BY <1>1, <1>2 DEF TailOf
<1>4. HeldOK' /\ TodoOK'
  BY DEF WorkerInv, HeldOK, Held, TodoOK, Todo
<1>5. \A i \in 1 .. Len(t) : t[i].request <= request
  BY <1>3 DEF WorkerInv, OrderOK
<1>6. OrderOK'
  BY <1>2, <1>5 DEF WorkerInv, OrderOK
<1>7. FreshOK'
  BY <1>2, <1>3 DEF WorkerInv, FreshOK
<1>8. EndOK'
  <2> SUFFICES ASSUME NEW i \in 1 .. Len(t), t[i].request = request, t[i].type = "complete"
               PROVE  /\ current # request
                      /\ \A j \in i + 1 .. Len(t) : t[j].request # request
                      /\ \A f \in Paths : answers[f].status # "none"
    BY <1>2 DEF EndOK
  <2>1. PICK k : k = i + 1
    OBVIOUS
  <2>2. k \in 1 .. Len(stdout) /\ stdout[k] = t[i]
    BY <1>3, <2>1
  <2>3. /\ current # request
        /\ \A j \in k + 1 .. Len(stdout) : stdout[j].request # request
        /\ \A f \in Paths : answers[f].status # "none"
    BY <2>2 DEF WorkerInv, EndOK
  <2>4. ASSUME NEW j \in i + 1 .. Len(t) PROVE t[j].request # request
    <3>1. PICK h : h = j + 1
      OBVIOUS
    <3>2. j \in 1 .. Len(t) /\ h \in k + 1 .. Len(stdout)
      BY <1>3, <2>1, <2>2, <3>1
    <3>3. t[j] = stdout[h]
      BY <1>3, <3>1, <3>2
    <3> QED BY <2>3, <3>2, <3>3
  <2> QED BY <2>3, <2>4
<1> QED BY <1>2, <1>3, <1>4, <1>6, <1>7, <1>8

LEMMA ReadKeeps ==
  ASSUME WorkerInv, stdout # <<>>, client = "reading", Consume, UNCHANGED <<request, answers, deaths>>,
         StreamOK', buffered' \in [Paths -> Nat], delivered' \in [Paths -> Answer],
         client' \in {"idle", "reading"}, outcome' \in {"none", "complete", "error", "left"}, DoneOK'
  PROVE  WorkerInv'
<1>1. stdout' \in Seq(Event) /\ HeldOK' /\ OrderOK' /\ FreshOK' /\ TodoOK' /\ EndOK'
  BY ConsumeKeeps
<1>2. WorkerTypeOK'
  BY <1>1 DEF Consume, WorkerInv, WorkerTypeOK
<1> QED BY <1>1, <1>2 DEF WorkerInv

LEMMA ReadEventKeeps == ASSUME WorkerInv, ReadEvent PROVE WorkerInv'
<1>1. PICK e : e = Head(stdout)
  OBVIOUS
<1>2. /\ client = "reading" /\ stdout # <<>> /\ UNCHANGED <<request, answers, deaths>>
      /\ \/ Raise
         \/ /\ e.request = request /\ e.type = "complete"
            /\ \/ Raise
               \/ /\ ~\E f \in Paths : buffered[f] > 0
                  /\ client' = "idle" /\ outcome' = "complete"
                  /\ Consume /\ UNCHANGED <<buffered, delivered>>
         \/ /\ e.request = request /\ e.type = "chunk"
            /\ buffered' = [buffered EXCEPT ![e.path] = @ + 1]
            /\ Consume /\ UNCHANGED <<client, delivered, outcome>>
         \/ /\ e.request = request /\ e.type = "file"
            /\ \/ Raise
               \/ /\ buffered' = [buffered EXCEPT ![e.path] = 0]
                  /\ delivered' = [delivered EXCEPT ![e.path] =
                       [status |-> e.status, chunks |-> buffered[e.path]]]
                  /\ Consume /\ UNCHANGED <<client, outcome>>
  BY <1>1 DEF ReadEvent, Stale
<1>3. /\ outcome # "complete" /\ stdout \in Seq(Event) /\ e = stdout[1] /\ 1 \in 1 .. Len(stdout)
      /\ Len(stdout) \in Nat /\ delivered \in [Paths -> Answer] /\ buffered \in [Paths -> Nat]
  <2>1. outcome # "complete"
    BY <1>2 DEF WorkerInv, DoneOK
  <2>2. /\ stdout \in Seq(Event) /\ delivered \in [Paths -> Answer] /\ buffered \in [Paths -> Nat]
    BY DEF WorkerInv, WorkerTypeOK
  <2>3. TailOf(Tail(stdout), stdout, Event)
    BY <1>2, <2>2, TailElements
  <2> QED BY <1>1, <2>1, <2>2, <2>3 DEF TailOf
<1>4. CASE Raise
  BY <1>2, <1>4, Discarded DEF Raise
<1>5. CASE /\ e.request = request /\ e.type = "complete"
           /\ ~\E f \in Paths : buffered[f] > 0
           /\ client' = "idle" /\ outcome' = "complete"
           /\ Consume /\ UNCHANGED <<buffered, delivered>>
  <2>1. /\ current # request
        /\ \A j \in 2 .. Len(stdout) : stdout[j].request # request
        /\ \A f \in Paths : answers[f].status # "none"
    <3>1. /\ current # request
          /\ \A j \in 1 + 1 .. Len(stdout) : stdout[j].request # request
          /\ \A f \in Paths : answers[f].status # "none"
      BY <1>3, <1>5 DEF WorkerInv, EndOK
    <3> QED BY <3>1
  <2>2. request \notin ToSet(stdin)
    BY <1>3, <1>5 DEF WorkerInv, FreshOK
  <2>3. ASSUME NEW f \in Paths
        PROVE  delivered[f] = answers[f] /\ FileOK(Tail(stdout), request, f, answers[f], buffered[f], delivered[f], client = "idle")
    <3>1. FileOK(stdout, request, f, answers[f], buffered[f], delivered[f], client = "idle")
      BY DEF WorkerInv, StreamOK
    <3>2. ASSUME NEW p \in 1 .. Len(stdout), NEW n, NEW s, Streamed(stdout, request, f, s, n, p)
          PROVE  FALSE
      <4>1. stdout[p].request = request /\ stdout[p].type = "file"
        BY <1>3, <3>2 DEF Streamed, About
      <4>2. p = 1 \/ p \in 2 .. Len(stdout)
        BY <1>3
      <4> QED BY <1>3, <1>5, <2>1, <4>1, <4>2
    <3>3. delivered[f] = answers[f]
      BY <1>2, <2>1, <3>1, <3>2 DEF FileOK, Unanswered
    <3>4. ~About(Head(stdout), request, f)
      <4>1. ~Silent(stdout, request, f) => \E p \in 1 .. Len(stdout) : \E n, s : Streamed(stdout, request, f, s, n, p)
        BY <3>1 DEF FileOK
      <4>2. Silent(stdout, request, f)
        BY <3>2, <4>1
      <4> QED BY <1>1, <1>3, <4>2 DEF Silent
    <3> QED BY <1>2, <1>3, <3>1, <3>3, <3>4, FileUnread
  <2>4. StreamOK'
    <3> SUFFICES ASSUME NEW f \in Paths
                 PROVE  FileOK(Tail(stdout), request, f, answers[f], buffered[f], delivered[f], TRUE)
      BY <1>2, <1>5 DEF StreamOK, Consume
    <3> QED BY <2>3, FileThrown
  <2>5. DoneOK'
    BY <1>2, <1>5, <2>1, <2>2, <2>3 DEF DoneOK, Consume
  <2> QED BY <1>2, <1>3, <1>5, <2>4, <2>5, ReadKeeps
<1>6. CASE /\ e.request = request /\ e.type = "chunk"
           /\ buffered' = [buffered EXCEPT ![e.path] = @ + 1]
           /\ Consume /\ UNCHANGED <<client, delivered, outcome>>
  <2>1. StreamOK' /\ buffered' \in [Paths -> Nat]
    BY <1>1, <1>2, <1>6, ChunkReadKeeps
  <2>2. DoneOK'
    BY <1>3, <1>6 DEF DoneOK
  <2>3. outcome' \in {"none", "complete", "error", "left"} /\ client' = "reading"
    BY <1>2, <1>6 DEF WorkerInv, WorkerTypeOK
  <2> QED BY <1>2, <1>3, <1>6, <2>1, <2>2, <2>3, ReadKeeps
<1>7. CASE /\ e.request = request /\ e.type = "file"
           /\ buffered' = [buffered EXCEPT ![e.path] = 0]
           /\ delivered' = [delivered EXCEPT ![e.path] =
                [status |-> e.status, chunks |-> buffered[e.path]]]
           /\ Consume /\ UNCHANGED <<client, outcome>>
  <2>1. StreamOK' /\ buffered' \in [Paths -> Nat] /\ delivered' \in [Paths -> Answer]
    BY <1>1, <1>2, <1>7, FileReadKeeps
  <2>2. DoneOK'
    BY <1>3, <1>7 DEF DoneOK
  <2>3. outcome' \in {"none", "complete", "error", "left"} /\ client' = "reading"
    BY <1>2, <1>7 DEF WorkerInv, WorkerTypeOK
  <2> QED BY <1>2, <1>3, <1>7, <2>1, <2>2, <2>3, ReadKeeps
<1> QED BY <1>2, <1>4, <1>5, <1>6, <1>7

LEMMA ReadEndKeeps == ASSUME WorkerInv, ReadEnd PROVE WorkerInv'
BY Discarded DEF ReadEnd, Raise

LEMMA DrainedKeeps == ASSUME WorkerInv, Drained PROVE WorkerInv'
<1> USE DEF Drained
<1>1. UNCHANGED <<child, stdin, backlog, stdout, current, ahead, pending, busy, width>>
  BY DEF childVars
<1>2. outcome # "complete"
  BY DEF WorkerInv, DoneOK
<1>3. HeldOK' /\ TodoOK'
  BY <1>1 DEF WorkerInv, HeldOK, Held, TodoOK, Todo
<1>4. StreamOK' /\ OrderOK' /\ FreshOK' /\ EndOK' /\ DoneOK'
  BY <1>1, <1>2 DEF WorkerInv, StreamOK, OrderOK, FreshOK, EndOK, DoneOK
<1>5. WorkerTypeOK'
  BY <1>1 DEF WorkerInv, WorkerTypeOK
<1> QED BY <1>3, <1>4, <1>5 DEF WorkerInv

\* The caller is gone and the process stays as it is.
LEMMA CallerLeavesKeeps == ASSUME WorkerInv, CallerLeaves \/ DrainFails PROVE WorkerInv'
<1>0. /\ client' = "idle" /\ outcome' \in {"left", "error"}
      /\ UNCHANGED <<childVars, request, buffered, delivered, answers, deaths>>
  BY DEF CallerLeaves, DrainFails
<1> USE <1>0
<1>1. UNCHANGED <<child, stdin, backlog, stdout, current, ahead, pending, busy, width>>
  BY DEF childVars
<1>2. HeldOK' /\ TodoOK'
  BY <1>1 DEF WorkerInv, HeldOK, Held, TodoOK, Todo
<1>3. OrderOK' /\ FreshOK' /\ EndOK' /\ DoneOK'
  BY <1>1 DEF WorkerInv, OrderOK, FreshOK, EndOK, DoneOK
<1>4. StreamOK'
  <2> SUFFICES ASSUME NEW f \in Paths
               PROVE  FileOK(stdout, request, f, answers[f], buffered[f], delivered[f], TRUE)
    BY <1>1 DEF StreamOK
  <2>1. FileOK(stdout, request, f, answers[f], buffered[f], delivered[f], client = "idle")
    BY DEF WorkerInv, StreamOK
  <2> QED BY <2>1, FileThrown
<1>5. WorkerTypeOK'
  BY <1>1 DEF WorkerInv, WorkerTypeOK
<1> QED BY <1>2, <1>3, <1>4, <1>5 DEF WorkerInv

LEMMA StopWorkerKeeps == ASSUME WorkerInv, StopWorker PROVE WorkerInv'
<1>1. /\ Discard /\ client' = "idle" /\ outcome' = outcome
      /\ UNCHANGED <<request, buffered, delivered, answers, deaths>>
  BY DEF StopWorker, callerVars
<1> QED BY <1>1, Discarded

LEMMA WorkerStep == ASSUME WorkerInv, [WorkerNext]_workerVars PROVE WorkerInv'
<1>1. CASE UNCHANGED workerVars
  <2>1. UNCHANGED <<child, stdin, backlog, stdout, current, ahead, pending, busy, width, client, request,
                    buffered, delivered, outcome, answers, deaths>>
    BY <1>1 DEF workerVars, childVars, callerVars
  <2>2. HeldOK' /\ TodoOK' /\ StreamOK'
    BY <2>1 DEF WorkerInv, HeldOK, Held, TodoOK, Todo, StreamOK
  <2>3. OrderOK' /\ FreshOK' /\ EndOK' /\ DoneOK'
    BY <2>1 DEF WorkerInv, OrderOK, FreshOK, EndOK, DoneOK
  <2>4. WorkerTypeOK'
    BY <2>1 DEF WorkerInv, WorkerTypeOK
  <2> QED BY <2>2, <2>3, <2>4 DEF WorkerInv
<1> QED BY <1>1, TakeRequestKeeps, LoadBatchKeeps, TakeFileKeeps, FileDoneKeeps, CompleteKeeps, FatalKeeps,
           DieKeeps, NoticeExitKeeps, ReadStdinKeeps, RequestChunksKeeps, DrainedKeeps, ReadEventKeeps,
           ReadEndKeeps, CallerLeavesKeeps, StopWorkerKeeps DEF WorkerNext, ServeStep, ReadStep

\* WorkerInv is an inductive invariant of the worker and its client.
LEMMA WorkerSafe == WorkerSpec => []WorkerInv
BY WorkerStarts, WorkerStep, PTL DEF WorkerSpec

\* The worker's queues and batches and the client's records keep their types, whatever
\* the callers and the process do.
THEOREM WorkerTyped == WorkerSpec => []WorkerTypeOK
<1>1. WorkerInv => WorkerTypeOK
  BY DEF WorkerInv
<1> QED BY <1>1, WorkerSafe, PTL

\* What a caller has got about a file (ChunkingWorkerClient.chunk) is what the worker
\* answered to this request about it, with the chunks that it made for it.
THEOREM Delivered == WorkerSpec => []DeliveredIsAnswered
<1>1. WorkerInv => DeliveredIsAnswered
  BY DEF WorkerInv, StreamOK, FileOK, DeliveredIsAnswered, Unanswered
<1> QED BY <1>1, WorkerSafe, PTL

\* A request whose complete event reaches its caller has told it about every file, with
\* the answer the worker gave (processRequest, ChunkingWorkerClient.chunk).
THEOREM Completed == WorkerSpec => []CompleteMeansAll
<1>1. ASSUME WorkerInv PROVE CompleteMeansAll
  <2> SUFFICES ASSUME outcome = "complete"
               PROVE  delivered = answers /\ \A f \in Paths : delivered[f].status # "none"
    BY DEF CompleteMeansAll
  <2>1. \A f \in Paths : delivered[f] = answers[f] /\ answers[f].status # "none"
    BY <1>1 DEF WorkerInv, DoneOK
  <2>2. delivered \in [Paths -> Answer] /\ answers \in [Paths -> Answer]
    BY <1>1 DEF WorkerInv, WorkerTypeOK
  <2> QED BY <2>1, <2>2
<1> QED BY <1>1, WorkerSafe, PTL

\* The worker holds a batch or one file, and chunks no more at once than its memory
\* budget has room for, or one file (processRequest, processBatch).
THEOREM Bounded == WorkerSpec => []WorkerMemory
<1>1. ASSUME WorkerInv PROVE WorkerMemory
  <2>1. /\ Light(Held) /\ Cardinality(busy) <= width
        /\ width <= 1 \/ \A f \in Held : width * Bytes[f] <= MemoryBudget
        /\ busy \in SUBSET Paths /\ pending \in Seq(Paths) /\ width \in Nat
    BY <1>1 DEF WorkerInv, HeldOK, WorkerTypeOK
  <2>2. Held \in SUBSET Paths
    BY <2>1, LenProperties DEF Held, ToSet
  <2>3. IsFiniteSet(Held) /\ IsFiniteSet(busy) /\ Cardinality(busy) \in Nat
    BY <2>1, <2>2, FileNumbers, FS_Subset, FS_CardinalityType
  <2>4. ASSUME Cardinality(Held) > 1 PROVE SumOver(Bytes, Held) <= BatchBytes
    <3>1. ASSUME \A f, g \in Held : f = g PROVE FALSE
      <4>1. CASE Held = {}
        BY <2>4, <4>1, FS_EmptySet
      <4>2. CASE Held # {}
        <5>1. PICK f \in Held : TRUE
          BY <4>2
        <5>2. Held = {f}
          BY <3>1
        <5>3. Cardinality({f}) = 1
          BY FS_Singleton
        <5> QED BY <2>4, <5>2, <5>3
      <4> QED BY <4>1, <4>2
    <3> QED BY <2>1, <3>1 DEF Light
  <2>5. ASSUME Cardinality(busy) > 1
        PROVE  Cardinality(busy) * Max({Bytes[f] : f \in busy}) <= MemoryBudget
    <3>1. busy # {}
      BY <2>5, FS_EmptySet
    <3>2. PICK f \in busy : Bytes[f] = Max({Bytes[g] : g \in busy})
      <4>1. Max({Bytes[g] : g \in busy}) \in {Bytes[g] : g \in busy}
        BY <2>1, <3>1, LargestFile
      <4> QED BY <4>1
    <3>3. width * Bytes[f] <= MemoryBudget
      BY <2>1, <2>3, <2>5 DEF Held
    <3>4. Bytes[f] \in Nat
      BY <2>1, FileNumbers
    <3>5. Cardinality(busy) * Bytes[f] <= width * Bytes[f]
      <4>1. \A a, b, c \in Nat : a <= b => a * c <= b * c
        OBVIOUS
      <4> QED BY <2>1, <2>3, <3>4, <4>1
    <3>6. Cardinality(busy) * Bytes[f] \in Nat /\ width * Bytes[f] \in Nat
      BY <2>1, <2>3, <3>4
    <3>7. Cardinality(busy) * Bytes[f] <= MemoryBudget
      BY <3>3, <3>5, <3>6, FileNumbers
    <3> QED BY <3>2, <3>7
  <2> QED BY <2>1, <2>4, <2>5 DEF WorkerMemory, Held, Light
<1> QED BY <1>1, WorkerSafe, PTL
=============================================================================
