\* What chat can find when a second snapshot keeps a chunk of the first.
SPECIFICATION Spec
CONSTANTS
  k1 = k1
  k2 = k2
  m1 = m1
  m2 = m2
  auto = auto
  Runners = {r1, r2}
  Snapshots = {1, 2}
  Chunks = {k1, k2}
  ChunksOf <- SharedChunk
  Models = {m1, m2}
  Selections = {auto}
  CandidatesOf <- CatalogOrder
  None = none
  BatchSize = 1
  MaxAttempts = 2
  LeaseOutlivesWork = TRUE
  MaxJobs = 2
  MaxPruned = 1
  MaxCrashes = 1
  MaxExpiries = 1
  MaxOutages = 0
INVARIANTS DenseComplete
CHECK_DEADLOCK FALSE
