SPECIFICATION Spec
CONSTANTS
  MaxSize = 4
  MaxChanges = 2
  MaxBreaks = 2
INVARIANTS TypeOK PrefixOfFile OkMeansHashed UntouchedSucceeds
PROPERTY UntouchedEnds
CHECK_DEADLOCK FALSE
