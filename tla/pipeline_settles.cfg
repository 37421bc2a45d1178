\* One job delivered once; either process may crash.
CONSTANTS
  j1 = j1
  w1 = w1
  Jobs = {j1}
  Workers = {w1}
  None = None
  Route <- SharedRoute
  Misnamed = {}
  Unswept = {}
  StatusFirst = TRUE
  MaxTries = 1
  MaxCopies = 1
  MaxCrashes = 1
  MaxChannelLosses = 0
  MaxStatusLosses = 0
  MaxUnremoved = 0
  MaxConsumerCrashes = 1
  MaxConsumerLosses = 0
  MaxDbFailures = 0
SPECIFICATION FairPipelineSpec
INVARIANTS RowHasResult DoneRowsFinal
PROPERTIES RowSettles
CHECK_DEADLOCK FALSE
