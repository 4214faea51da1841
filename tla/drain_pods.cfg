SPECIFICATION Spec
CONSTANTS
  Pod = {p1, p2}
  Statefulset = TRUE
  MaxPolls = 2
  MaxInFlight = 2
INVARIANTS DrainedMeansAnswered BusyMeansSeen
PROPERTY WaitEnds
CHECK_DEADLOCK FALSE
