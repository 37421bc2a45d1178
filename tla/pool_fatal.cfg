\* Two jobs, one worker, the status channel lost once.
CONSTANTS
  j1 = j1
  j2 = j2
  w1 = w1
  Jobs = {j1, j2}
  Workers = {w1}
  None = None
  Route <- SharedRoute
  Misnamed = {}
  Unswept = {}
  StatusFirst = TRUE
  MaxTries = 1
  MaxCopies = 1
  MaxCrashes = 0
  MaxChannelLosses = 0
  MaxStatusLosses = 1
  MaxUnremoved = 0
SPECIFICATION Spec
PROPERTIES FatalStopsWorker
CHECK_DEADLOCK FALSE
