SPECIFICATION Spec
CONSTANTS
  Archive <- MCArchive
  File <- MCFile
  Of <- MCOf
  Time <- MCTime
  Now <- MCNow
  Second <- MCSecond
INVARIANTS RowsGoBack EveryFileOffered LooksGoodMeansComplete
CHECK_DEADLOCK FALSE
