--------------------------- MODULE ArchiveSetProofs ---------------------------
(***************************************************************************)
(* What is proved of ArchiveSet for every set of archives and every set of *)
(* files: TypeOK, the rows of the picker, and the status it shows.         *)
(***************************************************************************)
EXTENDS ArchiveSet, FiniteSetTheorems, WellFoundedInduction, TLAPS

\* The highlighted row is there.
RowShown ==
  /\ pc = "fill" => row = 1
  /\ pc # "fill" /\ rows # <<>> => row \in DOMAIN rows

\* The lists are of files of their archives, the most recent first.
Listed == \A a \in Archive : ByMostRecent(files[a]) /\ Found(a) \subseteq FilesOf(a)

TypeInv == TypeOK /\ RowShown /\ Listed

\* What the walk back through the files rests on: the last set is the last
\* row, it was taken at the seek time, and the walk stops when it is empty.
Walk ==
  pc = "fill" =>
    /\ rows = <<>> => sss = NoSet /\ seekTime = Now
    /\ rows # <<>> => /\ sss # NoSet
                      /\ sss = ArchiveFilesBefore(seekTime)
                      /\ sss = rows[Len(rows)]

\* Every row but the last has a file that is not before the seek time, and
\* each has, of every archive, one as late as any before the seek time.
RowsBehind ==
  /\ \A r \in 1..(Len(rows) - 1) : \E f \in rows[r] : Time[f] >= seekTime
  /\ \A r \in DOMAIN rows : \A f \in rows[r] : \A u \in Found(Of[f]) :
       Time[u] < seekTime => Time[u] <= Time[f]

RowsInv == TypeInv /\ Walk /\ RowsBehind /\ RowsGoBack

\* The seek goes from the first seek to the times of files, and the walk has
\* offered every file that it has passed, but for the excused ones.
Excused(f) == \E g \in Found(Of[f]) : Time[f] < Time[g] /\ Crowded(g)

PassedOffered ==
  /\ seekTime <= Now
  /\ pc = "fill" => seekTime \in {Now} \cup {Time[f] : f \in AllFound}
  /\ \A f \in AllFound : Time[f] < Now /\ Time[f] >= seekTime => Offered(f) \/ Excused(f)
  /\ pc # "fill" => \A f \in AllFound : Time[f] >= seekTime

\* Rows and the selection have one file of an archive at most, which the
\* archive has, and the status shown is that of the row.
OneEach(set) ==
  /\ \A f, g \in set : Of[f] = Of[g] => f = g
  /\ \A f \in set : f \in Found(Of[f])

StatusShown ==
  /\ \A r \in DOMAIN rows : OneEach(rows[r])
  /\ OneEach(selected)
  /\ pc # "end" => selected = NoSet
  /\ pc = "pick" /\ rows # <<>> => status = EvaluatedStatus(rows[row])
  /\ selected # NoSet => status = EvaluatedStatus(selected)

-----------------------------------------------------------------------------
(* TypeOK *)

LEMMA FilesAreFiles == \A t : ArchiveFilesBefore(t) \in SUBSET File
BY DEF ArchiveFilesBefore

LEMMA StatusType == \A set : EvaluatedStatus(set) \in Statuses
BY DEF EvaluatedStatus, Statuses

LEMMA SeekType == TypeOK => SeekTimes \subseteq Int
BY ArchiveSetAssumption DEF SeekTimes, TypeOK

LEMMA TypeInit == Init => TypeInv
<1> SUFFICES ASSUME Init PROVE TypeInv
  OBVIOUS
<1>1. PICK taken \in SUBSET File :
        /\ files \in [Archive -> UNION {Lists(taken \cap FilesOf(a)) : a \in Archive}]
        /\ \A a \in Archive : files[a] \in Lists(taken \cap FilesOf(a))
  BY DEF Init, FilesFetch
<1>2. ASSUME NEW a \in Archive
      PROVE  /\ files[a] \in Seq(File) /\ ByMostRecent(files[a])
             /\ Found(a) \subseteq FilesOf(a)
  <2> DEFINE set == taken \cap FilesOf(a)
  <2>1. set \in SUBSET File /\ IsFiniteSet(set)
    BY FS_Subset, ArchiveSetAssumption DEF FilesOf
  <2>2. Cardinality(set) \in Nat
    BY <2>1, FS_CardinalityType
  <2>3. files[a] \in [1..Cardinality(set) -> set] /\ ByMostRecent(files[a])
    BY <1>1 DEF Lists
  <2>4. Found(a) \subseteq set
    BY <2>3 DEF Found
  <2>5. files[a] \in Seq(File)
    <3> HIDE DEF set
    <3> QED
      BY <2>1, <2>2, <2>3
  <2> QED
    BY <2>3, <2>4, <2>5
<1>3. files \in [Archive -> Seq(File)]
  BY <1>1, <1>2
<1> QED
  BY <1>2, <1>3, ArchiveSetAssumption
     DEF Init, TypeInv, TypeOK, RowShown, Listed, NoSet, Statuses

LEMMA TypeStep == TypeInv /\ [Next]_vars => TypeInv'
<1> SUFFICES ASSUME TypeInv, [Next]_vars PROVE TypeInv'
  OBVIOUS
<1>0. Listed'
  <2>1. files' = files
    BY DEF Next, GetNext, ArchiveFileSetGetNext, Highlight, Select, Stop, vars
  <2> QED
    BY <2>1 DEF TypeInv, Listed, ByMostRecent, Found, FilesOf
<1> USE <1>0 DEF TypeInv, TypeOK, RowShown
<1>1. ASSUME NEW next \in SeekTimes, ArchiveFileSetGetNext(next) PROVE TypeInv'
  <2>1. seekTime' \in Int
    BY <1>1, SeekType DEF ArchiveFileSetGetNext
  <2>2. sss' \in SUBSET File /\ rows' \in Seq(SUBSET File)
    <3>1. ArchiveFilesBefore(next) \in SUBSET File
      BY FilesAreFiles
    <3>2. \/ sss' = sss /\ rows' = rows
          \/ sss' = ArchiveFilesBefore(next) /\ rows' = Append(rows, ArchiveFilesBefore(next))
      BY <1>1 DEF ArchiveFileSetGetNext
    <3>3. rows \in Seq(SUBSET File) /\ sss \in SUBSET File
      OBVIOUS
    <3> HIDE DEF TypeInv, TypeOK, RowShown
    <3> QED
      BY <3>1, <3>2, <3>3
  <2>3. pc' \in {"fill", "pick", "end"} /\ status' \in Statuses
    BY <1>1, StatusType DEF ArchiveFileSetGetNext, Statuses
  <2>4. RowShown'
    BY <1>1 DEF ArchiveFileSetGetNext
  <2> QED
    BY <1>1, <2>1, <2>2, <2>3, <2>4 DEF ArchiveFileSetGetNext
<1>2. ASSUME NEW r \in DOMAIN rows, Highlight(r) PROVE TypeInv'
  BY <1>2, StatusType DEF Highlight
<1>3. CASE Select
  BY <1>3 DEF Select
<1>4. CASE Stop
  BY <1>4 DEF Stop
<1>5. CASE UNCHANGED vars
  BY <1>5 DEF vars
<1> QED
  BY <1>1, <1>2, <1>3, <1>4, <1>5 DEF Next, GetNext

\* Every variable of ArchiveSet stays in its range: in particular the row
\* that is highlighted, and that Select hands out, exists.
THEOREM TypeCorrect == Spec => []TypeOK
<1>1. TypeInv => TypeOK
  BY DEF TypeInv
<1> QED
  BY <1>1, TypeInit, TypeStep, PTL DEF Spec

-----------------------------------------------------------------------------
(* Seeking *)

\* What is found of an archive is files of it.
LEMMA FoundFiles ==
  ASSUME TypeInv
  PROVE  /\ \A a \in Archive : \A f \in Found(a) : f \in File /\ Of[f] = a /\ Time[f] \in Nat
         /\ \A f \in AllFound : f \in Found(Of[f]) /\ Of[f] \in Archive
<1>1. \A a \in Archive : \A f \in Found(a) : f \in File /\ Of[f] = a
  BY DEF TypeInv, Listed, FilesOf
<1>2. \A f \in File : Time[f] \in Nat
  BY ArchiveSetAssumption
<1> QED
  BY <1>1, <1>2 DEF AllFound

\* FileGetFilteredBefore returns a file as late as any before t.
LEMMA LatestBefore ==
  ASSUME TypeInv, NEW t \in Int, NEW f \in ArchiveFilesBefore(t)
  PROVE  /\ f \in File /\ Of[f] \in Archive /\ f \in Found(Of[f])
         /\ Time[f] \in Nat /\ Time[f] < t
         /\ \A u \in Found(Of[f]) : Time[u] < t => Time[u] <= Time[f]
<1>1. f \in File /\ Of[f] \in Archive /\ Time[f] \in Nat /\ Time[f] < t
  BY ArchiveSetAssumption DEF ArchiveFilesBefore
<1> DEFINE q == files[Of[f]]
<1>2. q \in Seq(File) /\ ByMostRecent(q)
  BY <1>1 DEF TypeInv, TypeOK, Listed
<1>3. PICK i \in DOMAIN q : q[i] = f /\ \A j \in 1..(i - 1) : Time[q[j]] >= t
  BY DEF ArchiveFilesBefore
<1>4. ASSUME NEW j \in DOMAIN q, Time[q[j]] < t PROVE Time[q[j]] <= Time[f]
  <2>1. Time[q[j]] \in Nat /\ i \in Nat /\ j \in Nat /\ j >= 1
    BY <1>2, ArchiveSetAssumption
  <2>2. ~(j < i)
    BY <1>3, <1>4, <2>1
  <2> QED
    BY <1>1, <1>2, <1>3, <2>1, <2>2 DEF ByMostRecent
<1> QED
  BY <1>1, <1>3, <1>4 DEF Found

\* It returns one file of an archive at most.
LEMMA OneOfArchive ==
  ASSUME TypeInv, NEW t \in Int, NEW f \in ArchiveFilesBefore(t), NEW g \in ArchiveFilesBefore(t),
         Of[f] = Of[g]
  PROVE  f = g
<1> DEFINE q == files[Of[f]]
<1>1. q \in Seq(File) /\ \A k \in DOMAIN q : Time[q[k]] \in Nat
  BY ArchiveSetAssumption DEF ArchiveFilesBefore, TypeInv, TypeOK
<1>2. PICK i \in DOMAIN q : q[i] = f /\ Time[f] < t /\ \A k \in 1..(i - 1) : Time[q[k]] >= t
  BY DEF ArchiveFilesBefore
<1>3. PICK j \in DOMAIN q : q[j] = g /\ Time[g] < t /\ \A k \in 1..(j - 1) : Time[q[k]] >= t
  BY DEF ArchiveFilesBefore
<1>4. ~(i < j) /\ ~(j < i)
  <2>1. i \in Nat /\ j \in Nat /\ i >= 1 /\ j >= 1
    BY <1>1
  <2> QED
    BY <1>1, <1>2, <1>3, <2>1
<1> QED
  BY <1>1, <1>2, <1>3, <1>4

\* FileGetFilteredBefore finds a file of an archive that has an earlier one.
LEMMA FoundBefore ==
  ASSUME TypeInv, NEW t \in Int, NEW a \in Archive, NEW u \in Found(a), Time[u] < t
  PROVE  \E f \in ArchiveFilesBefore(t) : Of[f] = a /\ Time[u] <= Time[f]
<1> DEFINE q == files[a]
           K == {k \in DOMAIN q : Time[q[k]] < t}
<1>1. q \in Seq(File) /\ (\A k \in DOMAIN q : q[k] \in File /\ Time[q[k]] \in Nat /\ Of[q[k]] = a)
  BY FoundFiles DEF TypeInv, TypeOK, Found
<1>2. K \subseteq Nat /\ K # {}
  BY <1>1 DEF Found
<1>3. PICK i \in K : \A j \in K : ~ (<<j, i>> \in OpToRel(<, Nat))
  <2> HIDE DEF K
  <2> QED
    BY <1>2, WFMin, NatLessThanWellFounded, Zenon
<1>4. \A j \in K : ~ (j < i)
  <2> HIDE DEF K
  <2>1. \A j \in K : j \in Nat /\ i \in Nat
    BY <1>2
  <2> QED
    BY <1>3, <2>1, Zenon DEF OpToRel
<1>5. \A j \in 1..(i - 1) : Time[q[j]] >= t
  <2> SUFFICES ASSUME NEW j \in 1..(i - 1), ~(Time[q[j]] >= t) PROVE FALSE
    OBVIOUS
  <2>1. DOMAIN q = 1..Len(q) /\ Len(q) \in Nat /\ i \in 1..Len(q)
    BY <1>1
  <2>2. j \in K /\ j < i
    BY <1>1, <2>1
  <2> QED
    BY <1>4, <2>2
<1>6. q[i] \in ArchiveFilesBefore(t) /\ Of[q[i]] = a
  BY <1>1, <1>5 DEF ArchiveFilesBefore
<1>7. u \in Found(Of[q[i]])
  BY <1>6
<1> QED
  BY <1>6, <1>7, LatestBefore

\* The seek goes back, and not past the latest file it can skip to.
LEMMA SeekBack ==
  ASSUME RowsInv, NEW next \in Int, Sought(next), pc = "fill"
  PROVE  /\ next <= seekTime
         /\ rows # <<>> => next < seekTime /\ \E f \in sss : Time[f] >= next
<1> USE DEF RowsInv, TypeInv, TypeOK
<1>1. CASE rows = <<>>
  BY <1>1 DEF Walk, Sought
<1>2. CASE rows # <<>>
  <2>1. sss # NoSet /\ sss = ArchiveFilesBefore(seekTime) /\ NextSeekTime(sss, seekTime, next)
    BY <1>2 DEF Walk, Sought
  <2>2. \A f \in sss : Time[f] \in Nat /\ Time[f] < seekTime
    BY <2>1, LatestBefore
  <2>3. CASE {f \in sss : Time[f] < seekTime - 1} = {}
    BY <2>1, <2>2, <2>3 DEF NextSeekTime, NoSet
  <2>4. CASE {f \in sss : Time[f] < seekTime - 1} # {}
    BY <2>1, <2>2, <2>4 DEF NextSeekTime
  <2> QED
    BY <1>2, <2>3, <2>4
<1> QED
  BY <1>1, <1>2

-----------------------------------------------------------------------------
(* The rows *)

LEMMA RowsInit == Init => RowsInv
<1> SUFFICES ASSUME Init PROVE RowsInv
  OBVIOUS
<1>1. rows = <<>> /\ sss = NoSet /\ seekTime = Now
  BY DEF Init
<1>2. Len(rows) = 0 /\ DOMAIN rows = {}
  BY <1>1
<1> QED
  BY TypeInit, <1>1, <1>2 DEF RowsInv, Walk, RowsBehind, RowsGoBack

LEMMA RowsFound ==
  ASSUME RowsInv, NEW next \in SeekTimes, ArchiveFileSetGetNext(next), pc' = "fill"
  PROVE  (Walk /\ RowsBehind /\ RowsGoBack)'
<1> DEFINE set == ArchiveFilesBefore(next)
<1>1. /\ TypeInv /\ TypeOK /\ next \in Int /\ pc = "fill" /\ Sought(next) /\ files' = files
      /\ \A a : Found(a)' = Found(a)
  BY SeekType DEF RowsInv, TypeInv, ArchiveFileSetGetNext, Found
<1>2. /\ seekTime' = next /\ sss' = set /\ rows' = Append(rows, set)
      /\ set # NoSet
  BY <1>1 DEF ArchiveFileSetGetNext
<1>3. next <= seekTime /\ (rows # <<>> => \E f \in sss : Time[f] >= next)
  BY <1>1, SeekBack
<1>5. \A g \in set : g \in Found(Of[g]) /\ Time[g] < next /\ Time[g] \in Nat
  BY <1>1, LatestBefore
<1>6. \A g \in set : \A u \in Found(Of[g]) : Time[u] < next => Time[u] <= Time[g]
  BY <1>1, LatestBefore
<1>7. rows \in Seq(SUBSET File) /\ \A r \in DOMAIN rows : rows[r] \in SUBSET File
  BY <1>1 DEF TypeOK
<1>8. \A r \in DOMAIN rows : \A f \in rows[r] : Of[f] \in Archive /\ Time[f] \in Nat
  BY <1>7, ArchiveSetAssumption
<1>9. set \in SUBSET File
  BY FilesAreFiles
<1>10. set = ArchiveFilesBefore(next)'
  BY <1>1 DEF ArchiveFilesBefore
<1> HIDE DEF set
<1>11. /\ Len(rows') = Len(rows) + 1 /\ rows' # <<>>
       /\ \A r \in DOMAIN rows : rows'[r] = rows[r]
       /\ rows'[Len(rows) + 1] = set
       /\ DOMAIN rows = 1..Len(rows) /\ DOMAIN rows' = 1..(Len(rows) + 1)
  BY <1>2, <1>7, <1>9
<1>12. Walk'
  BY <1>2, <1>10, <1>11 DEF Walk
<1>13. \A r \in DOMAIN rows : \E f \in rows[r] : Time[f] >= next
  <2>1. ASSUME NEW r \in 1..(Len(rows) - 1) PROVE \E f \in rows[r] : Time[f] >= next
    <3>1. PICK f \in rows[r] : Time[f] >= seekTime
      BY DEF RowsInv, RowsBehind
    <3>2. Time[f] \in Nat /\ seekTime \in Int
      BY <1>1, <1>7, <1>8, <1>11 DEF TypeOK
    <3> QED
      BY <1>1, <1>3, <3>1, <3>2
  <2>2. rows # <<>> => \E f \in rows[Len(rows)] : Time[f] >= next
    BY <1>1, <1>3 DEF RowsInv, Walk
  <2> QED
    BY <1>7, <1>11, <2>1, <2>2
<1>14. RowsBehind'
  <2>1. \A r \in DOMAIN rows : \A f \in rows[r] : \A u \in Found(Of[f]) :
          Time[u] < next => Time[u] <= Time[f]
    <3> SUFFICES ASSUME NEW r \in DOMAIN rows, NEW f \in rows[r], NEW u \in Found(Of[f]),
                        Time[u] < next
                 PROVE  Time[u] <= Time[f]
      OBVIOUS
    <3>1. Time[u] \in Nat /\ seekTime \in Int
      BY <1>1, <1>8, FoundFiles DEF TypeOK
    <3>2. Time[u] < seekTime
      BY <1>1, <1>3, <3>1
    <3> QED
      BY <3>2 DEF RowsInv, RowsBehind
  <2> QED
    BY <1>1, <1>2, <1>6, <1>7, <1>11, <1>13, <2>1 DEF RowsBehind
<1>15. RowsGoBack'
  <2> SUFFICES ASSUME NEW r \in DOMAIN rows', NEW q \in DOMAIN rows', r < q
               PROVE  /\ rows'[r] # rows'[q]
                      /\ \A f \in rows'[r], g \in rows'[q] : Of[f] = Of[g] => Time[g] <= Time[f]
    BY DEF RowsGoBack
  <2>1. CASE q \in DOMAIN rows
    <3>1. r \in DOMAIN rows
      BY <1>7, <1>11, <2>1
    <3> QED
      BY <1>11, <2>1, <3>1 DEF RowsInv, RowsGoBack
  <2>2. CASE q = Len(rows) + 1
    <3>1. r \in DOMAIN rows
      BY <1>7, <1>11, <2>2
    <3>2. PICK f \in rows[r] : Time[f] >= next
      BY <1>13, <3>1
    <3>3. f \notin set
      BY <1>1, <1>5, <3>2
    <3>4. ASSUME NEW e \in rows[r], NEW g \in set, Of[e] = Of[g] PROVE Time[g] <= Time[e]
      <4>1. g \in Found(Of[e]) /\ Time[g] < seekTime
        BY <1>1, <1>3, <1>5, <3>4 DEF TypeOK
      <4> QED
        BY <3>1, <4>1 DEF RowsInv, RowsBehind
    <3> QED
      BY <1>11, <2>2, <3>1, <3>2, <3>3, <3>4
  <2> QED
    BY <1>7, <1>11, <2>1, <2>2
<1> QED
  BY <1>12, <1>14, <1>15

\* The steps of the user leave the walk and the rows alone.
LEMMA RowsKept ==
  ASSUME RowsInv, rows' = rows, files' = files, seekTime' = seekTime, sss' = sss,
         pc' # "fill" \/ pc' = pc
  PROVE  (Walk /\ RowsBehind /\ RowsGoBack)'
<1>1. (\A a : Found(a)' = Found(a)) /\ \A t : ArchiveFilesBefore(t)' = ArchiveFilesBefore(t)
  BY DEF Found, ArchiveFilesBefore
<1> QED
  BY <1>1 DEF RowsInv, Walk, RowsBehind, RowsGoBack

LEMMA RowsEnd ==
  ASSUME RowsInv, NEW next \in SeekTimes, ArchiveFileSetGetNext(next), pc' # "fill"
  PROVE  (Walk /\ RowsBehind /\ RowsGoBack)'
<1>1. /\ TypeInv /\ TypeOK /\ next \in Int /\ pc = "fill" /\ Sought(next)
      /\ files' = files /\ rows' = rows /\ seekTime' = next
      /\ \A a : Found(a)' = Found(a)
  BY SeekType DEF RowsInv, TypeInv, ArchiveFileSetGetNext, Found
<1>2. next <= seekTime /\ seekTime \in Int
  BY <1>1, SeekBack DEF TypeOK
<1>3. \A r \in DOMAIN rows : \A f \in rows[r] :
        Time[f] \in Nat /\ \A u \in Found(Of[f]) : Time[u] \in Nat
  BY <1>1, FoundFiles, ArchiveSetAssumption DEF TypeOK
<1>4. ASSUME NEW r \in 1..(Len(rows) - 1) PROVE \E f \in rows[r] : Time[f] >= next
  <2>1. PICK f \in rows[r] : Time[f] >= seekTime
    BY DEF RowsInv, RowsBehind
  <2>2. r \in DOMAIN rows
    BY <1>1 DEF TypeOK
  <2>3. Time[f] \in Nat
    BY <1>3, <2>2
  <2> QED
    BY <1>1, <1>2, <2>1, <2>3
<1>5. \A r \in DOMAIN rows : \A f \in rows[r] : \A u \in Found(Of[f]) :
        Time[u] < next => Time[u] <= Time[f]
  BY <1>1, <1>2, <1>3 DEF RowsInv, RowsBehind
<1> QED
  BY <1>1, <1>4, <1>5 DEF RowsInv, Walk, RowsBehind, RowsGoBack

LEMMA RowsStep == RowsInv /\ [Next]_vars => RowsInv'
<1> SUFFICES ASSUME RowsInv, [Next]_vars PROVE RowsInv'
  OBVIOUS
<1>0. TypeInv'
  BY TypeStep DEF RowsInv
<1>1. ASSUME NEW next \in SeekTimes, ArchiveFileSetGetNext(next) PROVE RowsInv'
  BY <1>0, <1>1, RowsFound, RowsEnd DEF RowsInv
<1>2. CASE (\E r \in DOMAIN rows : Highlight(r)) \/ Select \/ Stop \/ UNCHANGED vars
  BY <1>0, <1>2, RowsKept DEF RowsInv, Highlight, Select, Stop, vars
<1> QED
  BY <1>1, <1>2 DEF Next, GetNext

\* The rows of the picker go back in time and no two are the same, whatever
\* the times of the files are: the walk never repeats a set and never turns.
THEOREM RowsAreOrdered == Spec => []RowsGoBack
<1>1. RowsInv => RowsGoBack
  BY DEF RowsInv
<1> QED
  BY <1>1, RowsInit, RowsStep, PTL DEF Spec

-----------------------------------------------------------------------------
(* Every file is offered *)

\* A seek goes to the time of a file of the last set, unless it is the first,
\* and passes over no file of the set but one a millisecond before the last.
LEMMA SeekLatest ==
  ASSUME RowsInv, NEW next \in Int, Sought(next), pc = "fill", rows # <<>>
  PROVE  /\ \E f \in sss : next = Time[f]
         /\ \A g \in sss : Time[g] <= next \/ Time[g] = seekTime - 1
<1> USE DEF RowsInv, TypeInv, TypeOK
<1>1. sss # NoSet /\ sss = ArchiveFilesBefore(seekTime) /\ NextSeekTime(sss, seekTime, next)
  BY DEF Walk, Sought
<1>2. \A f \in sss : Time[f] \in Nat /\ Time[f] < seekTime
  BY <1>1, LatestBefore
<1> DEFINE earlier == {f \in sss : Time[f] < seekTime - 1}
<1>3. \A g \in sss : g \notin earlier => Time[g] = seekTime - 1
  BY <1>2
<1>4. CASE earlier = {}
  BY <1>1, <1>3, <1>4 DEF NextSeekTime, NoSet
<1>5. CASE earlier # {}
  BY <1>1, <1>3, <1>5 DEF NextSeekTime
<1> QED
  BY <1>4, <1>5

LEMMA OfferedNext ==
  ASSUME RowsInv, PassedOffered, NEW next \in SeekTimes, ArchiveFileSetGetNext(next)
  PROVE  PassedOffered'
<1>1. /\ TypeInv /\ TypeOK /\ next \in Int /\ seekTime \in Int /\ pc = "fill" /\ Sought(next)
      /\ files' = files /\ seekTime' = next
      /\ (\A a : Found(a)' = Found(a)) /\ AllFound' = AllFound
  BY SeekType DEF RowsInv, TypeInv, TypeOK, ArchiveFileSetGetNext, Found, AllFound
<1>2. next <= seekTime
  BY <1>1, SeekBack
<1>3. \A f \in AllFound : f \in Found(Of[f]) /\ Of[f] \in Archive /\ Time[f] \in Nat
  BY <1>1, FoundFiles
<1>4. next <= Now
  BY <1>1, <1>2, ArchiveSetAssumption DEF PassedOffered
<1>5. next \in {Now} \cup {Time[f] : f \in AllFound}
  <2>1. CASE rows = <<>>
    BY <1>1, <2>1 DEF RowsInv, Walk, Sought
  <2>2. CASE rows # <<>>
    <3>1. PICK f \in sss : next = Time[f]
      BY <1>1, <2>2, SeekLatest
    <3>2. sss = ArchiveFilesBefore(seekTime)
      BY <1>1, <2>2 DEF RowsInv, Walk
    <3>3. f \in AllFound
      BY <1>1, <3>1, <3>2, LatestBefore DEF AllFound
    <3> QED
      BY <3>1, <3>3
  <2> QED
    BY <2>1, <2>2
<1>6. \A f : Offered(f) => Offered(f)'
  <2>1. /\ rows \in Seq(SUBSET File)
        /\ rows' = rows \/ rows' = Append(rows, ArchiveFilesBefore(next))
    BY <1>1 DEF TypeOK, ArchiveFileSetGetNext
  <2>2. ArchiveFilesBefore(next) \in SUBSET File
    BY FilesAreFiles
  <2>3. \A r \in DOMAIN rows : r \in DOMAIN rows' /\ rows'[r] = rows[r]
    BY <2>1, <2>2
  <2> QED
    BY <1>1, <2>3 DEF Offered
<1>7. \A f : Excused(f)' <=> Excused(f)
  BY <1>1 DEF Excused, Crowded
<1>8. ASSUME NEW f \in AllFound, Time[f] < Now, Time[f] >= next
      PROVE  Offered(f) \/ Excused(f) \/ Offered(f)'
  <2>1. CASE Time[f] >= seekTime
    BY <1>8, <2>1 DEF PassedOffered
  <2>2. CASE Time[f] < seekTime
    <3>1. rows # <<>>
      BY <1>1, <1>3, <1>8, <2>2 DEF RowsInv, Walk, Sought
    <3>2. PICK g \in ArchiveFilesBefore(seekTime) : Of[g] = Of[f] /\ Time[f] <= Time[g]
      BY <1>1, <1>3, <2>2, FoundBefore
    <3>3. g \in Found(Of[f]) /\ Time[g] \in Nat
      BY <1>1, <3>2, LatestBefore
    <3>4. g \in sss /\ sss = rows[Len(rows)] /\ Len(rows) \in DOMAIN rows
      BY <1>1, <3>1, <3>2 DEF RowsInv, Walk, TypeOK
    <3>5. Time[g] = Time[f] => Offered(f)
      BY <3>3, <3>4 DEF Offered
    <3>6. Time[g] <= next \/ Time[g] = seekTime - 1
      BY <1>1, <3>1, <3>4, SeekLatest
    <3>7. CASE Time[g] <= next
      BY <1>1, <1>3, <1>8, <3>2, <3>3, <3>5, <3>7
    <3>8. CASE Time[g] = seekTime - 1
      <4>1. Time[g] + 1 = seekTime
        BY <1>1, <3>8
      <4>2. Crowded(g)
        BY <1>1, <4>1 DEF Crowded, PassedOffered
      <4>3. Time[f] = Time[g] \/ Time[f] < Time[g]
        BY <1>3, <3>2, <3>3
      <4> QED
        BY <3>3, <3>5, <4>2, <4>3 DEF Excused
    <3> QED
      BY <3>6, <3>7, <3>8
  <2> QED
    BY <1>1, <1>3, <2>1, <2>2
<1>9. pc' # "fill" => \A f \in AllFound : Time[f] >= next
  <2> SUFFICES ASSUME pc' # "fill", NEW f \in AllFound, ~(Time[f] >= next) PROVE FALSE
    OBVIOUS
  <2>1. ArchiveFilesBefore(next) = {}
    BY <1>1 DEF ArchiveFileSetGetNext, NoSet
  <2> QED
    BY <1>1, <1>3, <2>1, FoundBefore
<1>10. \A f \in AllFound : Time[f] < Now /\ Time[f] >= next => Offered(f)' \/ Excused(f)'
  BY <1>6, <1>7, <1>8
<1> HIDE DEF Excused
<1> QED
  BY <1>1, <1>4, <1>5, <1>9, <1>10 DEF PassedOffered

LEMMA OfferedStep == RowsInv /\ PassedOffered /\ [Next]_vars => PassedOffered'
<1> SUFFICES ASSUME RowsInv, PassedOffered, [Next]_vars PROVE PassedOffered'
  OBVIOUS
<1>1. CASE (\E r \in DOMAIN rows : Highlight(r)) \/ Select \/ Stop \/ UNCHANGED vars
  <2>1. files' = files /\ rows' = rows /\ seekTime' = seekTime /\ (pc' = pc \/ pc = "pick")
        /\ (pc' = "fill" => pc = "fill")
    BY <1>1 DEF Highlight, Select, Stop, vars
  <2>2. AllFound' = AllFound /\ \A f : (Offered(f)' <=> Offered(f)) /\ (Excused(f)' <=> Excused(f))
    BY <2>1 DEF Found, AllFound, Offered, Excused, Crowded
  <2> HIDE DEF Excused
  <2> QED
    BY <2>1, <2>2 DEF PassedOffered
<1> QED
  BY <1>1, OfferedNext DEF Next, GetNext

\* "add 1 row per snapshot": every file older than the moment of the first
\* seek, or another of its archive and time, is in some row, but for the files
\* of an archive that are older than one of it that is less than a millisecond
\* before that moment or before another file.
THEOREM FilesAreOffered == Spec => []EveryFileOffered
<1>1. Init => RowsInv /\ PassedOffered
  <2> SUFFICES ASSUME Init PROVE PassedOffered
    BY RowsInit
  <2>1. Now \in Nat /\ seekTime = Now /\ pc = "fill"
    BY ArchiveSetAssumption DEF Init
  <2>2. \A f \in AllFound : Time[f] \in Nat
    BY RowsInit, FoundFiles DEF RowsInv
  <2> QED
    BY <2>1, <2>2 DEF PassedOffered
<1>2. RowsInv /\ PassedOffered /\ [Next]_vars => (RowsInv /\ PassedOffered)'
  BY RowsStep, OfferedStep
<1>3. RowsInv /\ PassedOffered => EveryFileOffered
  BY DEF PassedOffered, EveryFileOffered, Excused
<1> QED
  BY <1>1, <1>2, <1>3, PTL DEF Spec

-----------------------------------------------------------------------------
(* The status *)

LEMMA OneOfEach ==
  ASSUME TypeInv, NEW t \in Int
  PROVE  OneEach(ArchiveFilesBefore(t))
BY LatestBefore, OneOfArchive DEF OneEach

\* A set with one file of an archive at most, and no fewer files than there
\* are archives, has one of each.
LEMMA AllArchives ==
  ASSUME NEW set \in SUBSET File, \A f, g \in set : Of[f] = Of[g] => f = g,
         ~ (Cardinality(set) < Cardinality(Archive))
  PROVE  \A a \in Archive : \E f \in set : Of[f] = a
<1> DEFINE of == [f \in set |-> Of[f]]
<1>1. of \in Injection(set, Archive)
  BY ArchiveSetAssumption DEF Injection, IsInjective
<1> HIDE DEF of
<1>2. IsFiniteSet(set) /\ Cardinality(set) <= Cardinality(Archive)
  BY <1>1, FS_Injection, ArchiveSetAssumption
<1>3. Cardinality(set) \in Nat /\ Cardinality(Archive) \in Nat
  BY <1>2, FS_CardinalityType, ArchiveSetAssumption
<1>4. of \in Surjection(set, Archive)
  BY <1>1, <1>2, <1>3, FS_Injection, ArchiveSetAssumption
<1> QED
  BY <1>4 DEF Surjection, of

StatusInv == TypeInv /\ StatusShown

LEMMA StatusInit == Init => StatusInv
BY TypeInit DEF Init, FilesFetch, StatusInv, StatusShown, OneEach, NoSet

\* What is found stays, so rows and a selection that have one file of each
\* keep it.
LEMMA KeptOneEach ==
  ASSUME files' = files, \A r \in DOMAIN rows' : OneEach(rows'[r]), OneEach(selected')
  PROVE  (\A r \in DOMAIN rows : OneEach(rows[r]))' /\ OneEach(selected)'
<1>1. \A a : Found(a)' = Found(a)
  BY DEF Found
<1> QED
  BY <1>1 DEF OneEach

LEMMA StatusStep == StatusInv /\ [Next]_vars => StatusInv'
<1> SUFFICES ASSUME StatusInv, [Next]_vars PROVE StatusInv'
  OBVIOUS
<1>0. TypeInv /\ TypeInv'
  BY TypeStep DEF StatusInv
<1>1. \A r \in DOMAIN rows : OneEach(rows[r])
  BY DEF StatusInv, StatusShown
<1>2. ASSUME NEW next \in SeekTimes, ArchiveFileSetGetNext(next) PROVE StatusInv'
  <2>1. pc = "fill" /\ files' = files /\ selected = NoSet /\ selected' = NoSet /\ row' = 1
    BY <1>0, <1>2 DEF ArchiveFileSetGetNext, TypeInv, RowShown, StatusInv, StatusShown
  <2>2. \A r \in DOMAIN rows' : OneEach(rows'[r])
    <3>1. next \in Int /\ OneEach(ArchiveFilesBefore(next))
      BY <1>0, SeekType, OneOfEach DEF TypeInv
    <3>2. rows \in Seq(SUBSET File) /\ ArchiveFilesBefore(next) \in SUBSET File
      BY <1>0, FilesAreFiles DEF TypeInv, TypeOK
    <3>3. rows' = rows \/ rows' = Append(rows, ArchiveFilesBefore(next))
      BY <1>2 DEF ArchiveFileSetGetNext
    <3> QED
      BY <1>1, <3>1, <3>2, <3>3
  <2>3. OneEach(selected')
    BY <2>1 DEF OneEach, NoSet
  <2>4. (\A r \in DOMAIN rows : OneEach(rows[r]))' /\ OneEach(selected)'
    BY <2>1, <2>2, <2>3, KeptOneEach
  <2>5. pc' = "pick" /\ rows' # <<>> => status' = EvaluatedStatus(rows'[1])
    BY <1>2, <2>1 DEF ArchiveFileSetGetNext
  <2> QED
    BY <1>0, <2>1, <2>4, <2>5 DEF StatusInv, StatusShown
<1>3. ASSUME NEW r \in DOMAIN rows, Highlight(r) PROVE StatusInv'
  <2>1. /\ files' = files /\ rows' = rows /\ selected' = selected /\ pc = "pick" /\ pc' = pc
        /\ row' = r /\ status' = EvaluatedStatus(rows[r]) /\ selected = NoSet
    BY <1>3 DEF Highlight, StatusInv, StatusShown
  <2>2. (\A q \in DOMAIN rows : OneEach(rows[q]))' /\ OneEach(selected)'
    BY <1>1, <2>1, KeptOneEach DEF StatusInv, StatusShown
  <2> QED
    BY <1>0, <2>1, <2>2 DEF StatusInv, StatusShown
<1>4. CASE Select
  <2>1. /\ files' = files /\ rows' = rows /\ rows # <<>> /\ selected' = rows[row]
        /\ pc = "pick" /\ pc' = "end" /\ status' = status
    BY <1>4 DEF Select
  <2>2. row \in DOMAIN rows
    BY <1>0, <2>1 DEF TypeInv, RowShown
  <2>3. (\A q \in DOMAIN rows : OneEach(rows[q]))' /\ OneEach(selected)'
    BY <1>1, <2>1, <2>2, KeptOneEach
  <2> QED
    BY <1>0, <2>1, <2>2, <2>3 DEF StatusInv, StatusShown
<1>5. CASE Stop \/ UNCHANGED vars
  <2>1. /\ files' = files /\ rows' = rows /\ selected' = selected /\ status' = status
        /\ row' = row /\ (pc' = pc \/ pc' = "end")
    BY <1>5 DEF Stop, vars
  <2>2. (\A q \in DOMAIN rows : OneEach(rows[q]))' /\ OneEach(selected)'
    BY <1>1, <2>1, KeptOneEach DEF StatusInv, StatusShown
  <2> QED
    BY <1>0, <2>1, <2>2 DEF StatusInv, StatusShown
<1> QED
  BY <1>2, <1>3, <1>4, <1>5 DEF Next, GetNext

\* A set the user selected after it was said to look good has a file of every
\* archive: the status shown is always that of the row that Select hands out.
THEOREM LooksGoodIsComplete == Spec => []LooksGoodMeansComplete
<1>1. StatusInv => LooksGoodMeansComplete
  <2> SUFFICES ASSUME StatusInv, selected # NoSet, status = "looks good", NEW a \in Archive
               PROVE  \E f \in Found(a) : f \in selected
    BY DEF LooksGoodMeansComplete
  <2>1. /\ selected \in SUBSET File /\ OneEach(selected)
        /\ ~ (Cardinality(selected) < Cardinality(Archive))
    BY DEF StatusInv, StatusShown, TypeInv, TypeOK, EvaluatedStatus
  <2>2. PICK f \in selected : Of[f] = a
    BY <2>1, AllArchives DEF OneEach
  <2> QED
    BY <2>1, <2>2 DEF OneEach
<1> QED
  BY <1>1, StatusInit, StatusStep, PTL DEF Spec
=============================================================================
