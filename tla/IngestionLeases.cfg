\* Two runners whose leases outlive their work, two repositories, a crash.
SPECIFICATION Spec
CONSTANTS
  p1 = p1
  p2 = p2
  c1 = c1
  c2 = c2
  c3 = c3
  Runners = {r1, r2}
  Repos = {p1, p2}
  Commits = {c1, c2, c3}
  RepoOf <- TwoRepositories
  Selections = {auto}
  Automatic = auto
  None = none
  MaxAttempts = 2
  Retention = 1
  LeaseOutlivesWork = TRUE
  ChunkingRuns = FALSE
  MaxJobs = 3
  MaxCrashes = 1
  MaxExpiries = 1
  MaxOutages = 0
SYMMETRY Symmetry
INVARIANT IInv
PROPERTY QueueSpec
CHECK_DEADLOCK FALSE
