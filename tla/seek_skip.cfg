SPECIFICATION Spec
CONSTANTS
  Archive <- MCArchive
  File <- MCFile
  Of <- MCOf
  Time <- MCTime
  Now <- MCNow
  Second <- MCSecond
INVARIANT SnapshotsOffered
CHECK_DEADLOCK FALSE
