\* One job delivered once; the worker process may crash once.
CONSTANTS
  j1 = j1
  w1 = w1
  Jobs = {j1}
  Workers = {w1}
  None = None
  Route <- SharedRoute
  Misnamed = {}
  Unswept = {}
  StatusFirst = TRUE
  MaxTries = 1
  MaxCopies = 1
  MaxCrashes = 1
  MaxChannelLosses = 0
  MaxStatusLosses = 0
  MaxUnremoved = 0
  MaxConsumerCrashes = 0
  MaxConsumerLosses = 0
  MaxDbFailures = 0
SPECIFICATION PipelineSpec
PROPERTIES FinalStatusStable
CHECK_DEADLOCK FALSE
