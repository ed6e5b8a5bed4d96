SPECIFICATION Spec
CONSTANTS
  None = None
  LastDay = 2
  Captures = {c1, c2}
  Names = {a, b}
  Thin = {a}
  MinBasket = 2
  MaxJobs = 4
  MaxOps = 1
  MaxMishaps = 1
CHECK_DEADLOCK FALSE
INVARIANTS
  FrozenIsWhole
  BasketIsFrozenList
PROPERTIES
  LastDayLoads
