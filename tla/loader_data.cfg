SPECIFICATION Spec
CONSTANTS
  w1 = w1  w2 = w2  d1 = d1  d2 = d2  aapl = aapl  msft = msft
  None = None
  Jobs <- TwoJobs
  Tasks = {1, 2}
  JobOf <- JobOfEach
  WindowOf <- SameWindow
  Symbols = {aapl, msft}
  BatchOf <- WholeBatch
  Rejected = {msft}
  Pages = 3
  Dropped <- NoBars
  Workers = {w1}
  DiskOf <- OneDisk
  MaxRetries = 2
  Concurrency = 1
  KeepFiles = TRUE
  GenerateFeatures = TRUE
  Commands <- AllCommands
  MaxCommands = 3
  MaxCrashes = 1
  MaxFaults = 1
INVARIANTS
  TypeOK
  CompletedIsLoaded
  InventoryExact
