\* One job, no crash, and a database that fails once while a failure is recorded.
SPECIFICATION FairSpec
CONSTANTS
  p1 = p1
  p2 = p2
  c1 = c1
  c2 = c2
  c3 = c3
  Runners = {r1}
  Repos = {p1}
  Commits = {c1, c2, c3}
  RepoOf <- OneRepository
  Selections = {auto}
  Automatic = auto
  None = none
  MaxAttempts = 2
  Retention = 1
  LeaseOutlivesWork = TRUE
  ChunkingRuns = FALSE
  MaxJobs = 1
  MaxCrashes = 0
  MaxExpiries = 1
  MaxOutages = 1

PROPERTIES JobsFinish
CHECK_DEADLOCK FALSE
