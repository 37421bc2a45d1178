\* One job delivered twice to two workers, with a crash and a lost channel.
CONSTANTS
  j1 = j1
  w1 = w1
  w2 = w2
  Jobs = {j1}
  Workers = {w1, w2}
  None = None
  Route <- SharedRoute
  Misnamed = {}
  Unswept = {}
  StatusFirst = TRUE
  MaxTries = 2
  MaxCopies = 2
  MaxCrashes = 1
  MaxChannelLosses = 1
  MaxStatusLosses = 1
  MaxUnremoved = 1
SYMMETRY Symmetry
SPECIFICATION Spec
INVARIANTS TypeOK NoSilentLoss InputOutlivesWork ProcessedHasResult
CHECK_DEADLOCK FALSE
