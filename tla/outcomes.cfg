SPECIFICATION Spec
CONSTANTS
  None = None
  a = a
  b = b
  c0 = c0
  Signals = {a, b, c0}
  SignalDay <- MCSignalDay
  Touched <- MCTouched
  Late <- MCLate
  Old = {c0}
  Splits = {a}
  Worker = worker
  Web = web
  Weeks = 4
  Lag = 1
  Recheck = 1
  Horizon = 3
  LastDay = 6
  MaxRequests = 1
  MaxFaults = 1
  MaxRuns = 6
CHECK_DEADLOCK FALSE
INVARIANTS
  SamplesAreSound
PROPERTIES
  OutcomesSettle
  CalibrationFollows
