SPECIFICATION Spec
CONSTANTS
  w1 = w1  w2 = w2  d1 = d1  d2 = d2  aapl = aapl  msft = msft
  None = None
  Jobs <- OneJob
  Tasks = {1, 2}
  JobOf <- JobOfOne
  WindowOf <- OwnWindow
  Symbols = {aapl, msft}
  BatchOf <- SplitBatch
  Rejected = {msft}
  Pages = 1
  Dropped <- NoBars
  Workers = {w1, w2}
  DiskOf <- OneDisk
  MaxRetries = 1
  Concurrency = 2
  KeepFiles = FALSE
  GenerateFeatures = FALSE
  Commands <- CancelOnly
  MaxCommands = 3
  MaxCrashes = 0
  MaxFaults = 1
INVARIANTS
  QueuedHasNoTasks
  ExclusiveClaim
  SettledJobIsDone
PROPERTY
  ImplementsLifecycle
SYMMETRY WorkerSymmetry
