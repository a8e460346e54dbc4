\* Two runners whose leases outlive their work; retention, a retry, a crash.
SPECIFICATION MCSpec
CONSTANTS
  Parts = {"stage", "splitting"}
  Sources <- SourceFiles
  MinSize = 4
  Sizes = {4, 5, 7}
  f1 = f1
  f2 = f2
  f3 = f3
  Runners = {r1, r2}
  MaxSnapshots = 2
  Files = {f1, f2, f3}
  Manifest <- Manifests
  ByName = {f3}
  Answers <- WorkerAnswersOf
  None = none
  MaxAttempts = 2
  LeaseOutlivesWork = TRUE
  MaxRows = 2
  MaxReingests = 1
  MaxPruned = 1
  MaxCrashes = 1
  MaxExpiries = 1
SYMMETRY Symmetry
INVARIANTS CInv ListedIsStored PublishedComplete RangesRebuild
PROPERTIES PublishedGrows QueueSpec
CHECK_DEADLOCK FALSE
