SPECIFICATION Spec
CONSTANTS
  MaxSize = 2
  MaxChanges = 1
  MaxBreaks = 0
PROPERTY TransferEnds
CHECK_DEADLOCK FALSE
