\* Two jobs, one with a key S3 spells otherwise; repeated uploads and posts.
CONSTANTS
  j1 = j1
  j2 = j2
  Jobs = {j1, j2}
  Respelled = {j2}
  MaxPuts = 2
  MaxDeliveries = 3
  MaxCrashes = 1
  MaxFailures = 1
SPECIFICATION FairSpec
INVARIANTS EventFindsRow UploadNotForgotten
PROPERTIES UploadReachesQueue
CHECK_DEADLOCK FALSE
