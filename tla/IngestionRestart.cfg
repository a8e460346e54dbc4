\* One runner of one repository, crashes and restarts, retention of one.
SPECIFICATION FairSpec
CONSTANTS
  p1 = p1
  p2 = p2
  c1 = c1
  c2 = c2
  c3 = c3
  Runners = {r1}
  Repos = {p1}
  Commits = {c1, c2, c3}
  RepoOf <- OneRepository
  Selections = {auto}
  Automatic = auto
  None = none
  MaxAttempts = 2
  Retention = 1
  LeaseOutlivesWork = TRUE
  ChunkingRuns = FALSE
  MaxJobs = 3
  MaxCrashes = 1
  MaxExpiries = 1
  MaxOutages = 0
PROPERTIES RetentionKeeps JobsFinish
CHECK_DEADLOCK FALSE
