SPECIFICATION Spec
CONSTANTS
  Service <- DevService
  Archive <- DevService
  Server <- TwoServer
  Scheme <- DevScheme
  Endpoint <- TwoEndpoint
  Servers <- TwoServers
  RestoreURL <- DevRestoreURL
  ServedURLs <- DevServed
  NoURL = ""
  Local = "local"
  ArchiveAt <- DevArchiveAt
  SelfLink = "self"
  Stale = "stale"
  MaxFaults = 2
  MaxRuns = 2
INVARIANT ResetCleans
CHECK_DEADLOCK FALSE
