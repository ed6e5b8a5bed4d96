SPECIFICATION Spec
CONSTANTS
  None = None
  sched = sched  r1 = r1  r2 = r2
  worker = worker  web1 = web1  web2 = web2
  Scheduler = sched
  Requests = {r1, r2}
  HostOf <- Hosts
  Bootstrap = TRUE
  NightTicks = 4
  WorkerWindow <- SlowWindow
  WebWindow <- SlowWebHalf
  Stale = 1
  Cooldown = 0
  Horizon = 7
  MaxScans = 2
  MaxCrashes = 1
  MaxFaults = 1
SYMMETRY WebSymmetry
CHECK_DEADLOCK FALSE
INVARIANTS
  EvidencedOnce
  NightlyUnlessBlocked
PROPERTIES
  CompletedIsFinal
  ManualIsSerial
