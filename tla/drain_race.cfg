SPECIFICATION Spec
CONSTANTS
  Pod = {p1, p2}
  Statefulset = TRUE
  MaxPolls = 1
  MaxInFlight = 1
INVARIANT DrainedMeansEmpty
SYMMETRY Symmetry
CHECK_DEADLOCK FALSE
