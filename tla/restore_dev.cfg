SPECIFICATION FairSpec
CONSTANTS
  Service <- DevService
  Archive <- DevService
  Server <- TwoServer
  Scheme <- DevScheme
  Endpoint <- TwoEndpoint
  Servers <- TwoServers
  RestoreURL <- DevRestoreURL
  ServedURLs <- DevServed
  NoURL = ""
  Local = "local"
  ArchiveAt <- DevArchiveAt
  SelfLink = "self"
  Stale = "stale"
  MaxFaults = 2
  MaxRuns = 2
INVARIANTS TypeOK NoMixedData RestoredExactly NoAbortWithoutFault
PROPERTIES RunEnds KeepsPromise
CHECK_DEADLOCK FALSE
