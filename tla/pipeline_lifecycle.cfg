\* One job delivered once; overlapping handlers, every fault of the service, a lost status channel, failed removals.
CONSTANTS
  j1 = j1
  w1 = w1
  Jobs = {j1}
  Workers = {w1}
  None = None
  Route <- SharedRoute
  Misnamed = {}
  Unswept = {}
  StatusFirst = FALSE
  MaxTries = 2
  MaxCopies = 1
  MaxCrashes = 0
  MaxChannelLosses = 0
  MaxStatusLosses = 1
  MaxUnremoved = 2
  MaxConsumerCrashes = 1
  MaxConsumerLosses = 1
  MaxDbFailures = 1
SPECIFICATION PipelineSpec
INVARIANTS OneVerdict SuccessLeavesNoFiles ConsumerTypeOK NotifiedMatchesRow
PROPERTIES ImplementsLifecycle
CHECK_DEADLOCK FALSE
