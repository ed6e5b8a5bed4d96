SPECIFICATION FairSpec
CONSTANTS
  None = None
  b1 = b1  b2 = b2  g1 = g1  k1 = k1  k2 = k2
  close = close  mid = mid  aapl = aapl  msft = msft  web = web  worker = worker
  Candidates = {1}
  SymbolOf <- OneSymbol
  Kinds = {close}
  Background = {b1}
  Pages = {}
  Collectors = {k1, k2}
  HostOf <- Hosts
  Legacy = {1}
  DecisionsMade <- RepeatPass
  Horizon = 4
  MaxTracks = 1
  MaxDecisions = 1
  MaxCrashes = 1
  MaxFaults = 1
CHECK_DEADLOCK FALSE
INVARIANTS
  CompletedIsSettled
  CaptureIsFinal
PROPERTIES
  DueSettles
