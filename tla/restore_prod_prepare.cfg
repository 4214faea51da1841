SPECIFICATION Spec
CONSTANTS
  Service <- ProdService
  Archive <- ProdService
  Server <- ProdServer
  Scheme <- ProdScheme
  Endpoint <- ProdEndpoint
  Servers <- ProdServers
  RestoreURL <- ProdRestoreURL
  ServedURLs <- ProdServed
  NoURL = ""
  Local = "local"
  ArchiveAt <- ProdArchiveAt
  SelfLink = "self"
  Stale = "stale"
  MaxFaults = 0
  MaxRuns = 1
INVARIANT AllPrepared
CHECK_DEADLOCK FALSE
