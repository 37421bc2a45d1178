\* One job, two PATCH requests against a worker's reports, one fault of any kind.
CONSTANTS
  j1 = j1
  p1 = p1
  p2 = p2
  Jobs = {j1}
  Patches = {p1, p2}
  PatchStatuses = {"UPLOADING", "FAILED"}
  NoJob = NoJob
  NoPatch = NoPatch
  MaxReports = 1
  MaxFaults = 1
  MaxConsumerCrashes = 1
  MaxConsumerLosses = 1
  MaxDbFailures = 1
SPECIFICATION FairSpec
INVARIANTS OnlyOverlapsMislead WorkersReasonMeansFailure
PROPERTIES SameStatusOnlyByRace ReasonReachesClient
CHECK_DEADLOCK FALSE
