------------------------------ MODULE ArchiveSet ------------------------------
(***************************************************************************)
(* Picking a snapshot: ArchiveSet.ArchiveFileSetGetNext walks back through *)
(* the times of the files of all archives (schema/archiveSet.go,           *)
(* archiveFileSet.go, archive.go) and the picker shows one row for each    *)
(* set it returns, the status of the highlighted row, and hands out the    *)
(* row the user selects (schema/archiveFileSetPicker.go).                  *)
(* Times count milliseconds.                                               *)
(***************************************************************************)
EXTENDS Integers, Sequences, FiniteSets

CONSTANTS
  Archive,  \* the archives of the set
  File,     \* the files they may have
  Of,       \* Of[f]: the archive FilesFetch finds f in, on whichever pod of it
  Time,     \* Time[f]: the time the name of f carries
  Now,      \* the time the picker is filled at
  Second    \* milliseconds in a second

ASSUME ArchiveSetAssumption ==
  /\ IsFiniteSet(Archive) /\ IsFiniteSet(File)
  /\ Of \in [File -> Archive]
  /\ Time \in [File -> Nat]
  /\ Now \in Nat
  /\ Second \in Nat

VARIABLES
  files,     \* files[a]: Archive.FilesFiltered, what FilesFetch found in archive a
  seekTime,  \* ArchiveSet.seekTime
  sss,       \* ArchiveSet.sss, the set of files returned last
  rows,      \* the rows of the picker
  pc,        \* "fill" the rows, "pick" one, or "end"
  row,       \* the highlighted row
  status,    \* the status shown of it
  selected   \* SelectedSnapshotArchiveFileSet

vars == <<files, seekTime, sss, rows, pc, row, status, selected>>

Statuses == {"none", "looks good", "warning", "error"}
NoSet    == {}

FilesOf(a) == {f \in File : Of[f] = a}

\* Sorted by most recent: files of the same time are in any order.
ByMostRecent(q) == \A i, j \in DOMAIN q : i < j => Time[q[i]] >= Time[q[j]]

\* The lists that may be made of a set of files, each of them once.
Lists(set) == {q \in [1..Cardinality(set) -> set] :
                 ByMostRecent(q) /\ \A i, j \in DOMAIN q : q[i] = q[j] => i = j}

\* FilesFetch has made one list of the files of all pods of an archive.  Any
\* file may be missing, since the archive may not have it, or lose it while
\* its pods are listed at once.
FilesFetch ==
  \E taken \in SUBSET File :
    /\ files \in [Archive -> UNION {Lists(taken \cap FilesOf(a)) : a \in Archive}]
    /\ \A a \in Archive : files[a] \in Lists(taken \cap FilesOf(a))

HasFiles == \E a \in Archive : files[a] # <<>>

Init ==
  /\ FilesFetch /\ HasFiles
  /\ seekTime = Now /\ sss = NoSet /\ rows = <<>>
  /\ pc = "fill" /\ row = 1 /\ status = "none" /\ selected = NoSet

-----------------------------------------------------------------------------
(* Seeking *)

\* Mutant: a file at t counts as before t.
ArchiveFilesUpTo(t) ==
  {f \in File : \E i \in DOMAIN files[Of[f]] :
     /\ files[Of[f]][i] = f /\ Time[f] <= t
     /\ \A j \in 1..(i - 1) : Time[files[Of[f]][j]] > t}

\* FileGetFilteredBefore, of every archive: the first file of its list that
\* is before t.
ArchiveFilesBefore(t) ==
  {f \in File : \E i \in DOMAIN files[Of[f]] :
     /\ files[Of[f]][i] = f /\ Time[f] < t
     /\ \A j \in 1..(i - 1) : Time[files[Of[f]][j]] >= t}

\* Mutant: the order is oldest first.
NextSeekTimeUnsorted(set, t, next) ==
  LET earlier == {f \in set : Time[f] < t - 1}
  IN IF earlier = {} THEN next = t - 1
     ELSE \E f \in earlier : next = Time[f] /\ \A g \in earlier : Time[g] >= Time[f]

\* NextSeekTime: a millisecond before t, or the time of the first file of set
\* that is earlier than that, in an order of most recent first.
NextSeekTime(set, t, next) ==
  LET earlier == {f \in set : Time[f] < t - 1}
  IN IF earlier = {} THEN next = t - 1
     ELSE \E f \in earlier : next = Time[f] /\ \A g \in earlier : Time[g] <= Time[f]

\* The seek time of the next call: that of SeekTo the first time.
Sought(next) == IF sss = NoSet THEN next = seekTime ELSE NextSeekTime(sss, seekTime, next)

\* Mutant: one missing file is let through.
LenientStatus(set) ==
  IF Cardinality(set) + 1 < Cardinality(Archive) THEN "error"
  ELSE IF \E f, g \in set : Time[f] - Time[g] > Second THEN "warning"
  ELSE "looks good"

\* What the picker says of a set: files missing, or files too far apart.
EvaluatedStatus(set) ==
  IF Cardinality(set) < Cardinality(Archive) THEN "error"
  ELSE IF \E f, g \in set : Time[f] - Time[g] > Second THEN "warning"
  ELSE "looks good"

\* One call of ArchiveFileSetGetNext by ArchiveSetPut: a row more, or no file
\* is left before the seek time and the first row is highlighted.
ArchiveFileSetGetNext(next) ==
  /\ pc = "fill" /\ Sought(next)
  /\ seekTime' = next
  /\ LET set == ArchiveFilesBefore(next)
     IN IF set # NoSet
        THEN /\ sss' = set /\ rows' = Append(rows, set)
             /\ UNCHANGED <<pc, status>>
        ELSE /\ pc' = "pick"
             /\ status' = IF rows = <<>> THEN "none" ELSE EvaluatedStatus(rows[1])
             /\ UNCHANGED <<sss, rows>>
  /\ UNCHANGED <<files, row, selected>>

-----------------------------------------------------------------------------
(* The user *)

\* SelectedSnapshotViewRender: moving to a row shows the status of it.  An
\* empty table takes no key but the one that ends the application.
Highlight(r) ==
  /\ pc = "pick" /\ r \in DOMAIN rows
  /\ row' = r /\ status' = EvaluatedStatus(rows[r])
  /\ UNCHANGED <<files, seekTime, sss, rows, pc, selected>>

Select ==
  /\ pc = "pick" /\ rows # <<>>
  /\ pc' = "end" /\ selected' = rows[row]
  /\ UNCHANGED <<files, seekTime, sss, rows, row, status>>

\* The application is ended and nothing is selected.
Stop ==
  /\ pc = "pick" /\ pc' = "end"
  /\ UNCHANGED <<files, seekTime, sss, rows, row, status, selected>>

SeekTimes == {Now, seekTime - 1} \cup {Time[f] : f \in File}

GetNext == \E next \in SeekTimes : ArchiveFileSetGetNext(next)

Next == GetNext \/ (\E r \in DOMAIN rows : Highlight(r)) \/ Select \/ Stop

Spec == Init /\ [][Next]_vars

-----------------------------------------------------------------------------
(* Properties *)

TypeOK ==
  /\ files \in [Archive -> Seq(File)]
  /\ seekTime \in Int
  /\ sss \in SUBSET File
  /\ rows \in Seq(SUBSET File)
  /\ pc \in {"fill", "pick", "end"}
  /\ row \in Nat
  /\ status \in Statuses
  /\ selected \in SUBSET File

\* What was found in archive a, and in all of them.
Found(a) == {files[a][i] : i \in DOMAIN files[a]}
AllFound == UNION {Found(a) : a \in Archive}

\* The user can restore f, or a file of the same archive and time.
Offered(f) ==
  \E g \in Found(Of[f]) : Time[g] = Time[f] /\ \E r \in DOMAIN rows : g \in rows[r]

\* "add 1 row per snapshot": once the rows are filled, every file older than
\* the moment the filling began can be restored from some row.
SnapshotsOffered ==
  pc # "fill" => \A f \in AllFound : Time[f] < Now => Offered(f)

\* File g is not a whole millisecond before another one or the first seek.
Crowded(g) == Time[g] + 1 \in {Now} \cup {Time[f] : f \in AllFound}

\* The same, but for the files of an archive that are older than a crowded one
\* of it: only those may the walk pass over.
EveryFileOffered ==
  pc # "fill" => \A f \in AllFound : Time[f] < Now =>
    Offered(f) \/ \E g \in Found(Of[f]) : Time[f] < Time[g] /\ Crowded(g)

\* No row is offered twice, and later rows are of earlier moments.
RowsGoBack ==
  \A r, q \in DOMAIN rows : r < q =>
    /\ rows[r] # rows[q]
    /\ \A f \in rows[r], g \in rows[q] : Of[f] = Of[g] => Time[g] <= Time[f]

\* A selected set that was said to look good has a file of every archive.
LooksGoodMeansComplete ==
  selected # NoSet /\ status = "looks good" =>
    \A a \in Archive : \E f \in Found(a) : f \in selected
=============================================================================
