SPECIFICATION Spec
CONSTANTS
  MaxOut = 1
  MaxErr = 1
  Refused = FALSE
PROPERTY SyncEnds
CHECK_DEADLOCK FALSE
