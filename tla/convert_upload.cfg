\* Two uploads, one of them a conversion to another extension, no fault at all, on a case-sensitive disk.
CONSTANTS
  w1 = w1
  Jobs <- Uploads
  Workers = {w1}
  None = None
  Route <- SharedRoute
  Misnamed <- NotFoundByCase
  Unswept <- NotRemovedByCase
  StatusFirst = TRUE
  MaxTries = 1
  MaxCopies = 1
  MaxCrashes = 0
  MaxChannelLosses = 0
  MaxStatusLosses = 0
  MaxUnremoved = 0
SPECIFICATION Spec
INVARIANTS SavedWhereUploaded
CHECK_DEADLOCK FALSE
