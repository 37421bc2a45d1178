\* One job, two workers: the pool against the abstract work queue, with every fault.
CONSTANTS
  j1 = j1
  w1 = w1
  w2 = w2
  Jobs = {j1}
  Workers = {w1, w2}
  None = None
  Route <- SharedRoute
  Misnamed = {}
  Unswept = {}
  StatusFirst = FALSE
  MaxTries = 2
  MaxCopies = 1
  MaxCrashes = 1
  MaxChannelLosses = 1
  MaxStatusLosses = 1
  MaxUnremoved = 0
SPECIFICATION FairSpec
PROPERTIES ImplementsWorkQueue
CHECK_DEADLOCK FALSE
