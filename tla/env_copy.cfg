SPECIFICATION CopySpec
CONSTANTS
  dockie = dockie
  multi = multi
  p0 = p0
  p1 = p1
  Archive = {dockie, multi}
  Lister = {p0, p1, multi}
  Of <- MCOf
  Replicated = {dockie}
  Local = {multi}
  Names <- MCNames
  NoDate = NoDate
  Nil = Nil
  Junk = Junk
  Dst <- MCDst
  Size = 1
  Leftovers <- MCLeftovers
INVARIANTS NoFileTwice WholeUnlessRaced CopyTypeOK DoneMeansWhole ReportIsFinal
PROPERTY CommandEnds
CHECK_DEADLOCK FALSE
