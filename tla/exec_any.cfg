SPECIFICATION Spec
CONSTANTS
  MaxOut = 3
  MaxErr = 2
  Refused = TRUE
INVARIANTS TypeOK ComplaintsReported WholeOutput
PROPERTIES ExecEnds SuccessReturns
CHECK_DEADLOCK FALSE
