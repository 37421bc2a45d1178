\* One job delivered once, no fault at all.
CONSTANTS
  j1 = j1
  w1 = w1
  Jobs = {j1}
  Workers = {w1}
  None = None
  Route <- SharedRoute
  Misnamed = {}
  Unswept = {}
  StatusFirst = TRUE
  MaxTries = 1
  MaxCopies = 1
  MaxCrashes = 0
  MaxChannelLosses = 0
  MaxStatusLosses = 0
  MaxUnremoved = 0
  MaxConsumerCrashes = 0
  MaxConsumerLosses = 0
  MaxDbFailures = 0
SPECIFICATION PipelineSpec
PROPERTIES FinalStatusNotUndone
CHECK_DEADLOCK FALSE
