\* Two requests for one commit with different embedding models.
SPECIFICATION Spec
CONSTANTS
  p1 = p1
  p2 = p2
  c1 = c1
  c2 = c2
  c3 = c3
  Runners = {r1}
  Repos = {p1}
  Commits = {c1}
  RepoOf <- OneRepository
  Selections = {auto, m1}
  Automatic = auto
  None = none
  MaxAttempts = 2
  Retention = 1
  LeaseOutlivesWork = TRUE
  ChunkingRuns = TRUE
  MaxJobs = 2
  MaxCrashes = 0
  MaxExpiries = 0
  MaxOutages = 0
INVARIANTS SelectionIsEmbedded
CHECK_DEADLOCK FALSE
