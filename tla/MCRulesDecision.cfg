SPECIFICATION SpecAlone
CONSTANTS
  w1 = w1
  w2 = w2
  None = None
  Deciders = {w1, w2}
  Reports <- MCReports
  Corrections <- MCCorrections
  SentimentWindow = 0
  MaxRuns = 2
  MaxCorrections = 1
  MaxAborts = 1
  MaxTime = 1
CHECK_DEADLOCK FALSE
INVARIANTS
  EveryStateDecided
  AngerHeardWhenAlone
PROPERTIES
  CatchesUp
