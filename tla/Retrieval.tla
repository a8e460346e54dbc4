------------------------------ MODULE Retrieval ------------------------------
(***************************************************************************)
(* What a question retrieves (services/chat.py; the evaluation shares it,  *)
(* evaluation/retrieval.py): two searches side by side, the fusion of      *)
(* their lists, a cross-encoder with retries and a fallback, the relevance *)
(* gate, and the sources that fit in the prompt.  Scores are ranks of      *)
(* relevance, small integers; fused scores are compared as exact fractions.*)
(***************************************************************************)
EXTENDS Integers, Sequences, FiniteSets, SequencesExt, FiniteSetsExt, Lists

CONSTANTS
  Chunks,         \* ids, as numbers in the order of the strings
  Quality,        \* Quality[c]: quality_score
  TextChars,      \* TextChars[c]: length of its raw_text
  SearchScores,   \* scores of the two stores
  RerankScores,   \* normalized scores of the cross-encoder, in hundredths
  K, DenseWeight, KeywordWeight, \* chat_rrf_k and the channel weights
  CandidateLimit, \* chat_retrieval_candidate_limit
  RerankLimit,    \* chat_rerank_candidate_limit
  FinalLimit,     \* chat_retrieval_limit
  Threshold,      \* chat_relevance_threshold, in hundredths
  Relative,       \* chat_relative_relevance_threshold, in percent
  Rerankers,      \* the model and its fallback: 2, or 1 when they are the same
  RerankRetries,  \* reranker_max_retries
  HeaderChars,    \* length of a source's header
  Rooms           \* characters the rules, the question and the history leave

ASSUME RetrievalAssumption ==
  /\ Chunks \subseteq Nat /\ IsFiniteSet(Chunks)
  /\ Quality \in [Chunks -> Nat] /\ TextChars \in [Chunks -> Nat \ {0}]
  /\ SearchScores \subseteq Nat /\ RerankScores \subseteq 0 .. 100
  /\ K \in Nat \ {0} /\ DenseWeight \in Nat \ {0} /\ KeywordWeight \in Nat \ {0}
  /\ FinalLimit \in Nat \ {0}
  /\ CandidateLimit \in Nat /\ CandidateLimit >= FinalLimit
  /\ RerankLimit \in Nat /\ RerankLimit >= FinalLimit
  /\ Threshold \in 0 .. 100 /\ Relative \in 0 .. 100
  /\ Rerankers \in {1, 2} /\ RerankRetries \in Nat /\ HeaderChars \in Nat
  /\ Rooms \subseteq Int

VARIABLES
  stage,      \* "idle", "searching", "reranking", "answered" or "failed"
  searched,   \* the searches that have answered
  found,      \* found[s]: the records of search s
  candidates, \* what is sent to the reranker
  reranker,   \* the model that is asked
  tries,      \* attempts it has failed
  relevance,  \* relevance[c]: the score the candidates were given
  ranked,     \* the sources, in the order of their numbers
  included    \* the sources that are in the prompt

retrievalVars == <<stage, searched, found, candidates, reranker, tries, relevance, ranked, included>>

Searches == {"dense", "keyword"}
NoRecords == [s \in Searches |-> <<>>]
Irrelevant == [c \in Chunks |-> 0]

\* The stores answer with distinct chunks in the order of their scores.
Answers ==
  {s \in UNION {[1 .. n -> Chunks \X SearchScores] : n \in 0 .. CandidateLimit} :
     \A i, j \in DOMAIN s : i < j => s[i][1] # s[j][1] /\ s[i][2] >= s[j][2]}

RetrievalTypeOK ==
  /\ stage \in {"idle", "searching", "reranking", "answered", "failed"}
  /\ searched \subseteq Searches
  /\ found \in [Searches -> Seq(Chunks \X SearchScores)]
  /\ candidates \in Seq(Chunks) /\ Len(candidates) <= RerankLimit
  /\ reranker \in 1 .. Rerankers
  /\ tries \in 0 .. RerankRetries
  /\ relevance \in [Chunks -> RerankScores \union {0}]
  /\ ranked \in Seq(Chunks)
  /\ included \in Seq(Chunks)

RetrievalInit ==
  /\ stage = "idle"
  /\ searched = {} /\ found = NoRecords
  /\ candidates = <<>> /\ reranker = 1 /\ tries = 0 /\ relevance = Irrelevant
  /\ ranked = <<>> /\ included = <<>>

-----------------------------------------------------------------------------
(* Ranking                                                                 *)

RankIn(s, c) == CHOOSE i \in DOMAIN s : s[i] = c

Prefix(s, n) == SubSeq(s, 1, IF n < Len(s) THEN n ELSE Len(s))

\* rank_retrieved_chunks: by score, then quality, then place in the list.
Higher(s) ==
  {p \in (DOMAIN s) \X (DOMAIN s) :
     LET a == s[p[1]]
         b == s[p[2]]
     IN  \/ a[2] > b[2]
         \/ a[2] = b[2] /\ Quality[a[1]] > Quality[b[1]]
         \/ a[2] = b[2] /\ Quality[a[1]] = Quality[b[1]] /\ p[1] < p[2]}

Rank(s) ==
  LET order == InOrder(DOMAIN s, Higher(s))
  IN  [i \in DOMAIN s |-> s[order[i]][1]]

\* 1 / (K + rank), as a multiple of 1 / Scale.
Product[n \in 0 .. CandidateLimit] == IF n = 0 THEN 1 ELSE Product[n - 1] * (K + n)

Scale == Product[CandidateLimit]

\* The contribution of one ranked list to the score of chunk c.
Share(list, weight, c) ==
  IF c \in ToSet(list) THEN weight * (Scale \div (K + RankIn(list, c))) ELSE 0

\* Mutant of FusedScore: the second list's share replaces the first one's.
FusedScoreLast(dense, keyword, c) ==
  IF c \in ToSet(keyword) THEN Share(keyword, KeywordWeight, c)
  ELSE Share(dense, DenseWeight, c)

FusedScore(dense, keyword, c) ==
  Share(dense, DenseWeight, c) + Share(keyword, KeywordWeight, c)

BestRank(dense, keyword, c) ==
  Min({RankIn(list, c) : list \in {l \in {dense, keyword} : c \in ToSet(l)}})

\* The chunks of two ranked lists, and which comes before which: by score, then
\* quality, then best rank, then id.
Fused(dense, keyword) == ToSet(dense) \union ToSet(keyword)

Ahead(dense, keyword) ==
  LET score(c) == FusedScore(dense, keyword, c)
      best(c)  == BestRank(dense, keyword, c)
  IN  {p \in Fused(dense, keyword) \X Fused(dense, keyword) :
         LET c == p[1]
             d == p[2]
         IN  \/ score(c) > score(d)
             \/ score(c) = score(d) /\ Quality[c] > Quality[d]
             \/ score(c) = score(d) /\ Quality[c] = Quality[d] /\ best(c) < best(d)
             \/ score(c) = score(d) /\ Quality[c] = Quality[d] /\ best(c) = best(d) /\ c < d}

\* reciprocal_rank_fusion, as configured_retrieval_candidates calls it.
Fuse(dense, keyword) ==
  Prefix(InOrder(Fused(dense, keyword), Ahead(dense, keyword)), RerankLimit)

\* The floor of apply_reranker_scores: absolute, and relative to the best candidate.
Passes(s, scores, c) ==
  /\ scores[c] >= Threshold
  /\ 100 * scores[c] >= Relative * Max({scores[d] : d \in ToSet(s)})

\* Mutant of Gate: only the first candidates are looked at.
GateFirst(s, scores) ==
  LET first   == Prefix(s, FinalLimit)
      passing == Pick(first, {i \in DOMAIN first : Passes(s, scores, first[i])})
  IN  Rank([i \in DOMAIN passing |-> <<passing[i], scores[passing[i]]>>])

\* apply_reranker_scores: the gate before the order, the order before the limit.
Gate(s, scores) ==
  LET passing == Pick(s, {i \in DOMAIN s : Passes(s, scores, s[i])})
  IN  Prefix(Rank([i \in DOMAIN passing |-> <<passing[i], scores[passing[i]]>>]), FinalLimit)

\* build_messages: sources while a character of their text fits; the one that has to
\* be cut is the last.
PromptSources(s, room) ==
  LET left[i \in 1 .. Len(s) + 1] ==
        IF i = 1 THEN room ELSE left[i - 1] - HeaderChars - TextChars[s[i - 1]]
  IN  Prefix(s, Max({0} \union {n \in DOMAIN s : \A i \in 1 .. n : left[i] > HeaderChars}))

-----------------------------------------------------------------------------
\* prepare_repository_chat has found a job with completed embeddings.
StartSearch ==
  /\ stage = "idle"
  /\ stage' = "searching"
  /\ UNCHANGED <<searched, found, candidates, reranker, tries, relevance, ranked, included>>

Search(s) ==
  /\ stage = "searching" /\ s \notin searched
  /\ \E records \in Answers : found' = [found EXCEPT ![s] = records]
  /\ searched' = searched \union {s}
  /\ UNCHANGED <<stage, candidates, reranker, tries, relevance, ranked, included>>

\* The task group cancels the other search.
SearchFails(s) ==
  /\ stage = "searching" /\ s \notin searched
  /\ stage' = "failed"
  /\ searched' = {} /\ found' = NoRecords
  /\ UNCHANGED <<candidates, reranker, tries, relevance, ranked, included>>

\* Nothing to rerank is an empty answer.
Candidates ==
  LET Top(s) == Prefix(Rank(found[s]), CandidateLimit)
      fused  == Fuse(Top("dense"), Top("keyword"))
  IN
  /\ stage = "searching" /\ searched = Searches
  /\ candidates' = fused
  /\ stage' = IF fused = <<>> THEN "answered" ELSE "reranking"
  /\ searched' = {}
  /\ UNCHANGED <<found, reranker, tries, relevance, ranked, included>>

\* The records of the searches are not looked at again.
Rerank ==
  /\ stage = "reranking"
  /\ found' = NoRecords
  /\ \E scores \in [ToSet(candidates) -> RerankScores], room \in Rooms :
       LET all     == [c \in Chunks |-> IF c \in DOMAIN scores THEN scores[c] ELSE 0]
           sources == Gate(candidates, all)
       IN
       /\ relevance' = all
       /\ ranked' = sources
       /\ included' = PromptSources(sources, room)
  /\ stage' = "answered"
  /\ UNCHANGED <<searched, candidates, reranker, tries>>

\* RerankerProviderError: again, then the fallback, then the error; any other error
\* is raised at once.
RerankFails ==
  /\ stage = "reranking"
  /\ found' = NoRecords
  /\ \/ /\ tries < RerankRetries
        /\ tries' = tries + 1
        /\ UNCHANGED <<stage, reranker>>
     \/ /\ reranker < Rerankers
        /\ reranker' = reranker + 1 /\ tries' = 0
        /\ UNCHANGED stage
     \/ /\ stage' = "failed"
        /\ UNCHANGED <<reranker, tries>>
  /\ UNCHANGED <<searched, candidates, relevance, ranked, included>>

RetrievalNext ==
  \/ StartSearch \/ Candidates \/ Rerank \/ RerankFails
  \/ \E s \in Searches : Search(s) \/ SearchFails(s)

RetrievalSpec == RetrievalInit /\ [][RetrievalNext]_retrievalVars

-----------------------------------------------------------------------------
\* How many records of list s come before chunk c; all, when it is not there.
Place(s, c) ==
  LET at == CHOOSE i \in DOMAIN s : s[i][1] = c
      Better(i) == \/ s[i][2] > s[at][2]
                   \/ s[i][2] = s[at][2] /\ Quality[s[i][1]] > Quality[c]
                   \/ s[i][2] = s[at][2] /\ Quality[s[i][1]] = Quality[c] /\ i < at
  IN  IF \E i \in DOMAIN s : s[i][1] = c
      THEN Cardinality({i \in DOMAIN s : Better(i)}) ELSE CandidateLimit

\* Fusion agrees with both searches where they agree: a chunk that no search puts
\* behind another one, and one puts before it, is not left out for it, is sent to
\* the reranker before it, and only once.
FusionOrder ==
  stage = "reranking" /\ found # NoRecords =>
    /\ IsInjective(candidates)
    /\ \A c \in Chunks, d \in ToSet(candidates) :
         LET ahead == {s \in Searches : Place(found[s], c) < Place(found[s], d)}
             level == {s \in Searches : Place(found[s], c) = Place(found[s], d)}
         IN  ahead # {} /\ ahead \union level = Searches =>
               /\ c \in ToSet(candidates)
               /\ RankIn(candidates, c) < RankIn(candidates, d)

\* "Filtering happens across the fused candidate pool before selecting", "weak
\* matches never fill unused slots" (docs/architecture/repository-chat.md:61-63):
\* the sources are the most relevant candidates that pass both thresholds, as many as
\* there are up to the limit, in the order of their relevance; those in the prompt
\* are the first of them.
SourcesRelevant ==
  stage = "answered" =>
    LET passing == {c \in ToSet(candidates) : Passes(candidates, relevance, c)} IN
    /\ IsInjective(ranked) /\ ToSet(ranked) \subseteq passing
    /\ Len(ranked) = Min({FinalLimit, Cardinality(passing)})
    /\ \A i \in DOMAIN ranked, c \in passing :
         relevance[c] > relevance[ranked[i]] => c \in ToSet(Prefix(ranked, i - 1))
    /\ IsPrefix(included, ranked)
=============================================================================
