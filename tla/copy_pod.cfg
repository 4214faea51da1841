SPECIFICATION Spec
CONSTANTS
  MaxTotal = 2
  Sources = {"local", "pod"}
  Schemes = {"pod"}
  Replicas = 2
  Faults = TRUE
INVARIANT OkMeansWritten
CHECK_DEADLOCK FALSE
