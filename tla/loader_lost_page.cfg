SPECIFICATION Spec
CONSTANTS
  w1 = w1  w2 = w2  d1 = d1  d2 = d2  aapl = aapl  msft = msft
  None = None
  Jobs <- OneJob
  Tasks = {1}
  JobOf <- JobOfOne
  WindowOf <- OwnWindow
  Symbols = {aapl}
  BatchOf <- WholeBatch
  Rejected = {}
  Pages = 3
  Dropped <- NoBars
  Workers = {w1}
  DiskOf <- OneDisk
  MaxRetries = 2
  Concurrency = 1
  KeepFiles = FALSE
  GenerateFeatures = TRUE
  Commands <- AllCommands
  MaxCommands = 3
  MaxCrashes = 1
  MaxFaults = 0
INVARIANTS
  CompletedIsLoaded
