SPECIFICATION Spec
CONSTANTS
  Service <- MixService
  Archive <- MixArchive
  Server <- MixServer
  Scheme <- MixScheme
  Endpoint <- MixEndpoint
  Servers <- MixServers
  RestoreURL <- MixRestoreURL
  ServedURLs <- ProdServed
  NoURL = ""
  Local = "local"
  ArchiveAt <- MixArchiveAt
  SelfLink = "self"
  Stale = "stale"
  MaxFaults = 1
  MaxRuns = 1
INVARIANT ResetBeforeRestore
CHECK_DEADLOCK FALSE
