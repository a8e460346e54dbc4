\* Two runners, one of whose leases can run out under its work: zombies.
SPECIFICATION Spec
CONSTANTS
  p1 = p1
  p2 = p2
  c1 = c1
  c2 = c2
  c3 = c3
  Runners = {r1, r2}
  Repos = {p1}
  Commits = {c1, c2}
  RepoOf <- OneRepository
  Selections = {auto}
  Automatic = auto
  None = none
  MaxAttempts = 3
  Retention = 1
  LeaseOutlivesWork = FALSE
  ChunkingRuns = TRUE
  MaxJobs = 2
  MaxCrashes = 0
  MaxExpiries = 1
  MaxOutages = 0
SYMMETRY Symmetry
INVARIANTS OneActivePerRepository StagesFollowSnapshot ChunkedIsEmbedded AttemptsBounded
CHECK_DEADLOCK FALSE
