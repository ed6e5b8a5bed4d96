SPECIFICATION Spec
CONSTANTS
  None = None
  Workers = {w1, w2}
  MaxRequests = 2
  MaxScans = 3
  Ranks = {1}
  ScanStale = 1
  MaxWait = 2
  RequestStale = 3
  MaxSlow = 1
  MaxWebScans = 1
  MaxMishaps = 1
CHECK_DEADLOCK FALSE
INVARIANTS
  TypeOK
  CompletedIsEnrolled
  TrackedIsCompleted
  ServedByOne
PROPERTIES
  QueuedSettles
