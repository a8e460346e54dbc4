\* Each service by itself, with the bounds of its part.
SPECIFICATION ServicesSpec
CONSTANTS
  Parts = {"recoveries", "cancellation", "restarts", "corpus", "limiter", "cache", "worker",
           "retrieval", "chat"}
  LineLengths <- FilesByLine
  TargetChars = 11
  e1 = e1
  e2 = e2
  Examples = {e1, e2}
  MaxRetries = 2
  MaxRuns = 2
  MaxFresh = 1
  MaxWriters = 2
  MaxReaders = 2
  MaxStops = 1
  Callers = {c1, c2}
  Window = 4
  Requests = 2
  Tokens = 3
  Estimates = {1, 2, 3}
  Nobody = nobody
  ka = ka
  kb = kb
  x1 = x1
  x2 = x2
  x3 = x3
  Retrievals = {x1, x2, x3}
  Corpora = {ka, kb}
  CorpusOf <- CorpusKey
  Size <- ChunksIn
  InputChars <- InputLengths
  MaxChars = 3
  MaxBatch = 2
  RetrievalSlots = 2
  EmbeddingSlots = 2
  MaxCalls = 1
  Unowned = unowned
  Paths = {1, 2, 3, 4, 5}
  Language <- Languages
  Bytes <- FileBytes
  MaxFileBytes = 4
  StreamingBytes = 3
  BatchBytes = 4
  MemoryBudget = 4
  Concurrency = 3
  PipeEvents = 1
  MaxChunks = 1
  MaxRequests = 2
  MaxDeaths = 1
  Chunks = {1, 2, 3, 4}
  Quality <- Qualities
  TextChars <- TextLengths
  SearchScores = {1, 2}
  RerankScores = {1, 2, 4}
  K = 2
  DenseWeight = 1
  KeywordWeight = 1
  CandidateLimit = 2
  RerankLimit = 3
  FinalLimit = 2
  Threshold = 2
  Relative = 60
  Rerankers = 2
  RerankRetries = 1
  HeaderChars = 2
  Rooms <- PromptRooms
  MaxTurns = 3
  QuestionChars = {1}
  MaxPieces = 2
  RecentMessages = 3
  MaxContent = 1
  HistoryMessages = 2
  HistoryChars = 3
INVARIANTS CorpusCovered SlotsConserved FirstPassFirst OutcomeTrue SettledIsSaved LimitRespected EmbeddedOnce CacheSound CompleteMeansAll DeliveredIsAnswered WorkerMemory FusionOrder SourcesRelevant HistoryTurns AnswersUnmixed
PROPERTIES ScoresKept RunsEnd EveryoneServed RetrievalEnds RequestEnds
CHECK_DEADLOCK FALSE
