SPECIFICATION Spec
CONSTANTS
  MaxTotal = 2
  Sources = {"local"}
  Schemes = {"host"}
  Replicas = 2
  Faults = FALSE
PROPERTY CopyReturns
CHECK_DEADLOCK FALSE
