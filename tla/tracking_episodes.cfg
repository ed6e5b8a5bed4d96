SPECIFICATION FairSpec
CONSTANTS
  None = None
  b1 = b1  b2 = b2  g1 = g1  k1 = k1  k2 = k2
  close = close  mid = mid
  aapl = aapl  msft = msft
  web = web  worker = worker
  Candidates = {1, 2}
  SymbolOf <- OneSymbol
  Kinds = {close}
  Background = {b1, b2}
  Pages = {g1}
  Collectors = {}
  HostOf <- Hosts
  Legacy = {}
  DecisionsMade <- FollowStopReview
  Horizon = 0
  MaxTracks = 6
  MaxDecisions = 2
  MaxCrashes = 1
  MaxFaults = 0
CHECK_DEADLOCK FALSE
INVARIANTS
  TypeOK
  OneActiveEpisode
  StoppedHasNoEpisode
PROPERTIES
  TrackedIsFollowed
