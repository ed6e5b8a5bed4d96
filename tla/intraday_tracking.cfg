SPECIFICATION Spec
CONSTANTS
  None = None
  Growing = Growing
  Trackers = {t1, t2}
  Leaving = {t2}
  NumRows = 2
  Early = {1}
  Limit = 1
  HorizonEnd = 2
  MarketClose = 3
  Settle = 1
  Trades <- SomeTrades
  LastMinute = 4
  MaxMishaps = 1
CHECK_DEADLOCK FALSE
INVARIANTS
  TypeOK
  MaturedIsFinal
  ClosedIsComplete
PROPERTIES
  FinishesUnlessFull
