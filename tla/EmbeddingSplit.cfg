\* One job whose lease can run out under its runner, and two models.
SPECIFICATION Spec
CONSTANTS
  k1 = k1
  k2 = k2
  m1 = m1
  m2 = m2
  auto = auto
  Runners = {r1, r2}
  Snapshots = {2}
  Chunks = {k1, k2}
  ChunksOf <- SharedChunk
  Models = {m1, m2}
  Selections = {auto}
  CandidatesOf <- CatalogOrder
  None = none
  BatchSize = 1
  MaxAttempts = 2
  LeaseOutlivesWork = FALSE
  MaxJobs = 1
  MaxPruned = 0
  MaxCrashes = 1
  MaxExpiries = 1
  MaxOutages = 0
INVARIANTS EmbeddedIsStored
CHECK_DEADLOCK FALSE
