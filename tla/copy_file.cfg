SPECIFICATION Spec
CONSTANTS
  MaxTotal = 4
  Sources = {"local", "pod", "statefulset", "host"}
  Schemes = {"local", "pod", "statefulset", "host"}
  Replicas = 2
  Faults = TRUE
INVARIANTS TypeOK OkMeansWhole ClosedMeansSent
PROPERTIES CleanCopyEnds KeepsPromise
CHECK_DEADLOCK FALSE
