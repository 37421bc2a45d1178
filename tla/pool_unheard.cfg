\* One job, one worker, the status channel lost once.
CONSTANTS
  j1 = j1
  w1 = w1
  Jobs = {j1}
  Workers = {w1}
  None = None
  Route <- SharedRoute
  Misnamed = {}
  Unswept = {}
  StatusFirst = TRUE
  MaxTries = 1
  MaxCopies = 1
  MaxCrashes = 0
  MaxChannelLosses = 0
  MaxStatusLosses = 1
  MaxUnremoved = 0
SPECIFICATION Spec
INVARIANTS SettledIsAnnounced
CHECK_DEADLOCK FALSE
