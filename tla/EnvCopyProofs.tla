----------------------------- MODULE EnvCopyProofs -----------------------------
(***************************************************************************)
(* What is proved of EnvCopy for any archives and files, any leftovers and *)
(* any number of copies at once, each of which keeps the promise of        *)
(* FileCopyAbs: a command that is done has whole files where they go to    *)
(* local archives, and what it reports is final.  Of the listing that it   *)
(* begins with (FilesFetch), whose goroutines append to one slice without  *)
(* a lock: no file is listed twice, and none is missing unless two appends *)
(* overlapped.                                                             *)
(***************************************************************************)
EXTENDS EnvCopy, FiniteSetTheorems, TLAPS

Doings == CopyAts \cup {"idle"}

\* Where a copy may be that has added its watch.
Added == CopyAts \ {"stat", "watch", "hung"}

ToLocal(f) == Dst[Of[f[1]]] = "local"

\* The variables of the copies, and that only picked files are copied.
Copies ==
  /\ doing \in [File -> Doings] /\ DOMAIN seen = File
  /\ progress \in [File -> 0..Size] /\ dst \in [File -> 0..Before]
  /\ listed \in [Archive -> SUBSET File] /\ picked \subseteq File
  /\ \A f \in File : doing[f] # "idle" => f \in picked
  /\ phase \in {"fetch", "pick"} => \A f \in File : doing[f] = "idle"

\* A copy that says ok is counted, and whole where it is local, and the command
\* goes on only if all do.
OkWhole ==
  /\ \A f \in File : doing[f] = "ok" => progress[f] = Size /\ (ToLocal(f) => dst[f] = Size)
  /\ phase \in {"stop", "report", "done"} => \A f \in picked : doing[f] = "ok"

\* A list of watches has those of copies that have added theirs, each once.
WatchList(s, d) ==
  /\ s \in Seq(File)
  /\ \A i \in 1..Len(s) : d[s[i]] \in Added
  /\ \A i, j \in 1..Len(s) : s[i] = s[j] => i = j

\* The lists of watches: those in use, and those a copy is appending to.
WatchLists ==
  /\ WatchList(watches, doing)
  /\ \A f \in File : doing[f] = "watch" => WatchList(seen[f], doing)

\* What was reported is made of the watches, at the end.
Reports == reported # <<>> => phase = "done" /\ reported = Lines

CopyInv == Copies /\ OkWhole /\ WatchLists /\ Reports

-----------------------------------------------------------------------------
(* Lemmas *)

\* A copy that has added its watch goes on from there, so lists stay lists.
LEMMA ListsStay ==
  ASSUME NEW CONSTANT s, NEW CONSTANT d, NEW CONSTANT e, WatchList(s, d),
         \A f \in File : d[f] \in Added => e[f] \in Added
  PROVE  WatchList(s, e)
BY DEF WatchList

\* The watch of a copy that is not in a list may be appended to it.
LEMMA ListsGrow ==
  ASSUME NEW CONSTANT s, NEW CONSTANT d, NEW CONSTANT e, NEW CONSTANT f \in File,
         WatchList(s, d), d[f] \notin Added, e[f] \in Added,
         \A g \in File : d[g] \in Added => e[g] \in Added
  PROVE  WatchList(Append(s, f), e)
<1>1. Append(s, f) \in Seq(File) /\ Len(Append(s, f)) = Len(s) + 1 /\ Len(s) \in Nat
  BY DEF WatchList
<1>2. \A i \in 1..Len(s) : s[i] \in File /\ s[i] # f /\ e[s[i]] \in Added
  BY DEF WatchList
<1>3. \A i \in 1..(Len(s) + 1) : Append(s, f)[i] = IF i = Len(s) + 1 THEN f ELSE s[i]
  BY DEF WatchList
<1> QED
  BY <1>1, <1>2, <1>3 DEF WatchList

\* A copy that comes to say ok is whole and counted; it had not said so.
LEMMA OkSteps ==
  ASSUME NEW CONSTANT c \in CopyStates, NEW CONSTANT d \in CopyStates,
         NEW CONSTANT local \in BOOLEAN,
         FileCopyStep(c, d, Size, local)
  PROVE  /\ c.at # "ok"
         /\ d.at = "ok" => d.progress = Size /\ (local => d.written = Size)
         /\ c.at \in Added => d.at \in Added
<1> USE DEF Added
<1>0. CASE CopyStat(c, d) \/ CopyWatch(c, d)
  BY <1>0 DEF CopyStat, CopyWatch, CopyStates, CopyAts
<1>1. CASE CopySetup(c, d, local)
  BY <1>1 DEF CopySetup, CopyStates, CopyAts
<1>2. CASE CopyWrite(c, d, Size, local)
  BY <1>2 DEF CopyWrite, CopyStates, CopyAts
<1>3. CASE CopyCount(c, d, Size)
  BY <1>3 DEF CopyCount, CopyStates, CopyAts
<1>4. CASE CopySucceeds(c, d, Size, local)
  BY <1>4 DEF CopySucceeds, CopyStates, CopyAts
<1>5. CASE CopyBreaks(c, d, local)
  BY <1>5 DEF CopyBreaks, CopyStates, CopyAts
<1>6. CASE CopyFails(c, d)
  BY <1>6 DEF CopyFails, CopyStates, CopyAts
<1> QED
  BY <1>0, <1>1, <1>2, <1>3, <1>4, <1>5, <1>6 DEF FileCopyStep

\* A copy that has added its watch does not add it again.
LEMMA LaterSteps ==
  ASSUME NEW CONSTANT c \in CopyStates, NEW CONSTANT d \in CopyStates,
         NEW CONSTANT local, FileCopyStep(c, d, Size, local), c.at \notin {"stat", "watch"}
  PROVE  d.at # "watch"
BY DEF FileCopyStep, CopyStat, CopyWatch, CopySetup, CopyWrite, CopyCount, CopySucceeds,
       CopyBreaks, CopyFails, CopyStates

-----------------------------------------------------------------------------
(* The invariant *)

LEMMA InvInit == CopyInit => CopyInv
<1> SUFFICES ASSUME CopyInit PROVE CopyInv
  OBVIOUS
<1>1. Copies
  BY EnvCopyAssumption DEF CopyInit, Init, Copies, Doings, Before
<1>2. OkWhole /\ Reports
  BY DEF CopyInit, OkWhole, Reports
<1>3. WatchLists
  BY DEF CopyInit, WatchLists, WatchList
<1> QED
  BY <1>1, <1>2, <1>3 DEF CopyInv

LEMMA FetchStep ==
  ASSUME CopyInv, FetchFiles
  PROVE  CopyInv'
<1>1. listed' \in [Archive -> SUBSET File]
  <2>1. CASE \E l \in Lister : Step(l)
    BY <2>1 DEF Step, ListFiles, ListFails, Extend, Load, Store, CopyInv, Copies
  <2>2. CASE \E a \in Archive : Fetched(a)
    BY <2>2 DEF Fetched, AllFiles, locals, CopyInv, Copies
  <2> QED
    BY <2>1, <2>2 DEF FetchFiles, Next
<1> QED
  BY <1>1 DEF FetchFiles, caller, copies, CopyInv, Copies, OkWhole, WatchLists, Reports, Lines

LEMMA PickStep ==
  ASSUME CopyInv, Alive, Pick
  PROVE  CopyInv'
<1>1. UNCHANGED <<reported, copies>> /\ phase = "pick" /\ phase' = "copy"
  BY DEF Pick
<1>2. picked' \subseteq File /\ listed' \in [Archive -> SUBSET File]
  BY DEF Pick, Offered, Forgotten, CopyInv, Copies
<1> QED
  BY <1>1, <1>2 DEF copies, CopyInv, Copies, OkWhole, WatchLists, Reports

\* Steps of the caller and the display leave the copies alone.
LEMMA OtherStep ==
  ASSUME CopyInv, Alive, PickNone \/ Caller \/ Display
  PROVE  CopyInv'
<1>1. UNCHANGED <<listed, picked, copies>>
  BY DEF PickNone, Caller, FilesFetched, Wait, StopApp, Report, Display, RunApp, Tick, Redraw,
         CtrlC, LoopEnds, SendStop, fetchVars, caller
<1>2. /\ phase' \in {"fetch", "pick"} => phase \in {"fetch", "pick"}
      /\ phase' \in {"stop", "report", "done"} =>
           phase \in {"stop", "report", "done"} \/ \A f \in picked : doing[f] = "ok"
  BY DEF PickNone, Caller, FilesFetched, Wait, AfterWait, Returned, StopApp, Report, Display,
         RunApp, Tick, Redraw, CtrlC, LoopEnds, SendStop, caller
<1>3. reported' = reported \/ (phase' = "done" /\ reported' = Lines')
  BY <1>1 DEF PickNone, Caller, FilesFetched, Wait, StopApp, Report, Display, RunApp, Tick,
         Redraw, CtrlC, LoopEnds, SendStop, caller, copies, Lines
<1>4. phase # "done"
  BY DEF Alive
<1>5. Copies' /\ OkWhole'
  BY <1>1, <1>2 DEF copies, CopyInv, Copies, OkWhole
<1>6. WatchLists' /\ Reports'
  BY <1>1, <1>3, <1>4 DEF copies, CopyInv, WatchLists, Reports
<1> QED
  BY <1>5, <1>6 DEF CopyInv

LEMMA CopyOfStep ==
  ASSUME CopyInv, Alive, NEW f \in File, CopyOf(f)
  PROVE  CopyInv'
<1>1. /\ UNCHANGED <<listed, picked, reported>> /\ reported = <<>>
      /\ phase' \in {phase, "fatal"}
  BY DEF CopyOf, StartCopy, StatSource, AddWatch, CopyStep, caller, fetchVars, Alive, CopyInv,
         Reports
<1>2. CASE StartCopy(f)
  <2>1. /\ doing' \in {doing, [doing EXCEPT ![f] = "stat"]}
        /\ doing[f] = "idle" /\ f \in picked /\ phase = "copy"
        /\ UNCHANGED <<progress, dst, watches, seen>>
    BY <1>2 DEF StartCopy
  <2>2. Copies' /\ OkWhole' /\ Reports'
    BY <1>1, <2>1 DEF CopyInv, Copies, Doings, Added, CopyAts, OkWhole, Reports
  <2>3. \A g \in File : doing[g] \in Added => doing'[g] \in Added
    BY <2>1 DEF CopyInv, Copies, Added, CopyAts
  <2>4. \A g \in File : doing'[g] = "watch" => doing[g] = "watch"
    BY <2>1 DEF CopyInv, Copies
  <2>5. WatchLists'
    <3>1. WatchList(watches, doing')
      BY <2>3, ListsStay DEF CopyInv, WatchLists
    <3>2. ASSUME NEW g \in File, doing'[g] = "watch" PROVE WatchList(seen[g], doing')
      BY <2>3, <2>4, <3>2, ListsStay DEF CopyInv, WatchLists
    <3> QED
      BY <2>1, <3>1, <3>2 DEF WatchLists
  <2> QED
    BY <2>2, <2>5 DEF CopyInv
<1>3. CASE StatSource(f)
  <2>1. PICK end \in {"watch", "err", "hung"} :
          /\ doing' = [doing EXCEPT ![f] = end]
          /\ seen' = IF end = "watch" THEN [seen EXCEPT ![f] = watches] ELSE seen
    BY <1>3 DEF StatSource, CopyStat, Copy
  <2>2. doing[f] = "stat" /\ UNCHANGED <<phase, progress, dst, watches>>
    BY <1>3 DEF StatSource, CopyStat, Copy, caller
  <2>3. Copies' /\ OkWhole' /\ Reports'
    BY <1>1, <2>1, <2>2 DEF CopyInv, Copies, Doings, Added, CopyAts, OkWhole, Reports
  <2>4. \A g \in File : doing[g] \in Added => doing'[g] \in Added
    BY <2>1, <2>2 DEF CopyInv, Copies, Added, CopyAts
  <2>5. WatchList(watches', doing')
    BY <2>2, <2>4, ListsStay DEF CopyInv, WatchLists
  <2>6. ASSUME NEW g \in File, doing'[g] = "watch" PROVE WatchList(seen'[g], doing')
    <3>1. CASE g = f
      BY <2>1, <2>2, <2>5, <2>6, <3>1 DEF CopyInv, Copies
    <3>2. CASE g # f
      BY <2>1, <2>4, <2>6, <3>2, ListsStay DEF CopyInv, Copies, WatchLists
    <3> QED
      BY <3>1, <3>2
  <2> QED
    BY <2>3, <2>5, <2>6 DEF CopyInv, WatchLists
<1>4. CASE AddWatch(f)
  <2>1. PICK end \in {"setup", "failing"} : doing' = [doing EXCEPT ![f] = end]
    BY <1>4 DEF AddWatch, CopyWatch, Copy
  <2>2. /\ doing[f] = "watch" /\ watches' = Append(seen[f], f)
        /\ UNCHANGED <<phase, progress, dst, seen>>
    BY <1>4 DEF AddWatch, CopyWatch, Copy, caller
  <2>3. Copies' /\ OkWhole' /\ Reports'
    BY <1>1, <2>1, <2>2 DEF CopyInv, Copies, Doings, Added, CopyAts, OkWhole, Reports
  <2>4. /\ \A g \in File : doing[g] \in Added => doing'[g] \in Added
        /\ doing[f] \notin Added /\ doing'[f] \in Added
    BY <2>1, <2>2 DEF CopyInv, Copies, Added, CopyAts
  <2>5. WatchList(watches', doing')
    <3>1. WatchList(seen[f], doing)
      BY <2>2 DEF CopyInv, WatchLists
    <3> QED
      BY <2>2, <2>4, <3>1, ListsGrow
  <2>6. ASSUME NEW g \in File, doing'[g] = "watch" PROVE WatchList(seen'[g], doing')
    <3>1. doing[g] = "watch" /\ seen'[g] = seen[g]
      BY <2>1, <2>2, <2>6 DEF CopyInv, Copies
    <3> QED
      BY <2>4, <3>1, ListsStay DEF CopyInv, WatchLists
  <2> QED
    BY <2>3, <2>5, <2>6 DEF CopyInv, WatchLists
<1>5. CASE CopyStep(f)
  <2>1. PICK d \in CopyStates :
          /\ FileCopyStep(Copy(f), d, Size, Dst[Of[f[1]]] = "local")
          /\ doing' = [doing EXCEPT ![f] = d.at]
          /\ dst' = [dst EXCEPT ![f] = d.written]
          /\ progress' = [progress EXCEPT ![f] = d.progress]
    BY <1>5 DEF CopyStep
  <2>2. /\ Copy(f) \in CopyStates /\ Copy(f).at = doing[f]
        /\ d.at \in CopyAts /\ d.written \in 0..Before /\ d.progress \in 0..Size
        /\ UNCHANGED <<phase, watches, seen>> /\ doing[f] \in CopyAts \ {"stat", "watch"}
    BY <1>5 DEF CopyStep, Copy, CopyStates, CopyInv, Copies, caller
  <2>3. /\ doing[f] # "ok" /\ (doing[f] \in Added => d.at \in Added)
        /\ d.at = "ok" => d.progress = Size /\ (ToLocal(f) => d.written = Size)
    BY <2>1, <2>2, OkSteps DEF ToLocal
  <2>4. doing[f] # "idle" /\ d.at # "idle" /\ d.at # "watch"
    BY <2>1, <2>2, LaterSteps DEF CopyAts
  <2>5. Copies'
    BY <1>1, <2>1, <2>2, <2>4 DEF CopyInv, Copies, Doings
  <2>6. OkWhole' /\ Reports'
    BY <1>1, <2>1, <2>2, <2>3, <2>4 DEF CopyInv, Copies, OkWhole, Reports
  <2>7. \A g \in File : doing[g] \in Added => doing'[g] \in Added
    BY <2>1, <2>2, <2>3 DEF CopyInv, Copies
  <2>8. WatchLists'
    BY <2>1, <2>2, <2>4, <2>7, ListsStay DEF CopyInv, Copies, WatchLists
  <2> QED
    BY <2>5, <2>6, <2>8 DEF CopyInv
<1> QED
  BY <1>2, <1>3, <1>4, <1>5 DEF CopyOf

LEMMA InvStep == CopyInv /\ [CopyNext]_copyVars => CopyInv'
<1> SUFFICES ASSUME CopyInv, [CopyNext]_copyVars PROVE CopyInv'
  OBVIOUS
<1>1. CASE UNCHANGED copyVars
  BY <1>1 DEF copyVars, fetchVars, caller, copies, CopyInv, Copies, OkWhole, WatchLists, Reports,
         Lines
<1> QED
  BY <1>1, FetchStep, PickStep, OtherStep, CopyOfStep DEF CopyNext

LEMMA Invariant == CopySpec => []CopyInv
BY InvInit, InvStep, PTL DEF CopySpec

-----------------------------------------------------------------------------
(* The theorems *)

\* A command that is done has whole files of the snapshot at destinations that
\* are local, over any leftovers and however its copies and the display interleave.
THEOREM DoneIsWhole == CopySpec => []DoneMeansWhole
<1>1. CopyInv => DoneMeansWhole
  BY DEF CopyInv, Copies, OkWhole, ToLocal, DoneMeansWhole
<1> QED
  BY <1>1, Invariant, PTL

\* What is reported is final, of picked files, and of each once, however the
\* copies race to add their watches.
THEOREM ReportIsTrue == CopySpec => []ReportIsFinal
<1>1. CopyInv => ReportIsFinal
  <2> SUFFICES ASSUME CopyInv, reported # <<>> PROVE ReportIsFinal
    BY DEF ReportIsFinal
  <2>1. reported = Lines /\ \A f \in picked : doing[f] = "ok"
    BY DEF CopyInv, Reports, OkWhole
  <2>2. WatchList(watches, doing) /\ DOMAIN reported = 1..Len(watches)
    BY <2>1 DEF CopyInv, WatchLists, WatchList, Lines
  <2>3. \A i \in 1..Len(watches) :
          /\ reported[i] = <<watches[i], progress[watches[i]]>>
          /\ watches[i] \in File /\ doing[watches[i]] # "idle"
    BY <2>1, <2>2 DEF WatchList, Lines, Added, CopyAts
  <2>4. \A i \in 1..Len(watches) : watches[i] \in picked /\ progress[watches[i]] = Size
    BY <2>1, <2>3 DEF CopyInv, Copies, OkWhole
  <2> QED
    BY <2>2, <2>3, <2>4 DEF ReportIsFinal, WatchList
<1> QED
  BY <1>1, Invariant, PTL
-----------------------------------------------------------------------------
(* Listing the files: types *)

\* The types of FilesFetch; words are in hand only while they are moved.
FetchTypes ==
  /\ DOMAIN heap = Archive /\ TypeOK
  /\ \A l \in Lister : at[l] \notin {"load", "store"} => todo[l] = Words

LEMMA HeadersAreRecords ==
  ASSUME NEW CONSTANT h \in Header
  PROVE  /\ h["ptr"] = h.ptr /\ h["len"] = h.len /\ h["cap"] = h.cap
         /\ h.ptr \in Nat /\ h.len \in Nat /\ h.cap \in Nat
         /\ DOMAIN h = Words /\ \A w \in Words : h[w] \in Nat
BY DEF Header, Words

LEMMA WordIsSet ==
  ASSUME NEW CONSTANT h \in Header, NEW CONSTANT w \in Words, NEW CONSTANT x \in Nat
  PROVE  /\ [h EXCEPT ![w] = x] \in Header
         /\ \A v \in Words : [h EXCEPT ![w] = x][v] = IF v = w THEN x ELSE h[v]
BY DEF Header, Words

LEMMA SameWords ==
  ASSUME NEW CONSTANT h \in Header, NEW CONSTANT g \in Header, \A w \in Words : h[w] = g[w]
  PROVE  h = g
BY DEF Header, Words

\* What a folder's list is: files of that folder, each once.
FilesOf(l) == {<<l, k>> : k \in DOMAIN Names[l]}

Distinct(array) == \A i, j \in DOMAIN array : i # j /\ array[i] \in File => array[i] # array[j]

LEMMA ListsAreDistinct ==
  ASSUME NEW CONSTANT l \in Lister, NEW CONSTANT n \in Lengths(l),
         NEW CONSTANT list \in Dated(l, n)
  PROVE  list \in Seq(FilesOf(l)) /\ Distinct(list)
<1> DEFINE dated == {k \in 1..n : Names[l][k] # NoDate}
           files == {<<l, k>> : k \in dated}
<1>1. n \in Nat /\ DOMAIN Names[l] = 1..Len(Names[l]) /\ n <= Len(Names[l]) /\ Len(Names[l]) \in Nat
  BY FilesFetchAssumption DEF Lengths
<1>2. files \subseteq FilesOf(l)
  BY <1>1 DEF FilesOf
<1>3. IsFiniteSet(dated)
  BY <1>1, FS_Interval, FS_Subset
<1>4. Cardinality(dated) \in Nat
  BY <1>3, FS_CardinalityType
<1> HIDE DEF files, dated
<1>5. /\ list \in [1..Cardinality(dated) -> files]
      /\ \A i, j \in DOMAIN list : i < j => list[i][2] < list[j][2]
  BY DEF Dated, files, dated
<1>6. list \in Seq(FilesOf(l))
  BY <1>2, <1>4, <1>5
<1>7. Distinct(list)
  <2> SUFFICES ASSUME NEW i \in DOMAIN list, NEW j \in DOMAIN list, i < j PROVE list[i] # list[j]
    BY <1>4, <1>5 DEF Distinct
  <2>1. list[i][2] < list[j][2] /\ list[i][2] \in Nat
    BY <1>1, <1>5 DEF files, dated
  <2> QED
    BY <2>1
<1> QED
  BY <1>6, <1>7

LEMMA FilesAreFiles == \A l \in Lister : FilesOf(l) \subseteq File
BY DEF FilesOf, File

LEMMA FoldersApart ==
  ASSUME NEW CONSTANT l \in Lister, NEW CONSTANT m \in Lister, l # m
  PROVE  FilesOf(l) \cap FilesOf(m) = {}
BY DEF FilesOf

LEMMA RoomIs ==
  ASSUME NEW CONSTANT cap \in Nat, NEW CONSTANT need \in Nat
  PROVE  Room(cap, need) \in Nat /\ Room(cap, need) >= need
BY DEF Room

\* An array has entries that were put there, behind those there were.
Put(result, array, len, new) ==
  \A i \in DOMAIN result : result[i] \in File =>
    \/ i - len \in DOMAIN new /\ result[i] = new[i - len]
    \/ i \in DOMAIN array /\ result[i] = array[i]

LEMMA ExtendedIs ==
  ASSUME NEW CONSTANT array \in Seq(Entry), NEW CONSTANT len \in Nat,
         NEW CONSTANT new \in Seq(File), NEW CONSTANT room \in Nat
  PROVE  LET result == Extended(array, len, new, room) IN
         /\ result \in Seq(Entry) /\ Len(result) = room
         /\ Put(result, array, len, new)
<1> DEFINE result == Extended(array, len, new, room)
<1>1. Nil \in Entry /\ Junk \in Entry /\ File \subseteq Entry /\ Nil \notin File /\ Junk \notin File
  BY FilesFetchAssumption DEF Entry
<1>2. \A i \in 1..room :
        result[i] = IF i > len /\ i <= len + Len(new) THEN new[i - len]
                    ELSE IF i <= len THEN Read(array, i) ELSE Nil
  BY DEF Extended
<1>3. \A i \in 1..room : i > len /\ i <= len + Len(new) =>
        i - len \in DOMAIN new /\ new[i - len] \in File
  OBVIOUS
<1>4. \A i \in 1..room : Read(array, i) \in Entry
  BY <1>1 DEF Read
<1>5. \A i \in 1..room : result[i] \in Entry
  BY <1>1, <1>2, <1>3, <1>4
<1>6. DOMAIN result = 1..room
  BY DEF Extended
<1>7. result = [i \in 1..room |-> result[i]]
  BY DEF Extended
<1>8. result \in Seq(Entry) /\ Len(result) = room
  <2> HIDE DEF result
  <2> QED
    BY <1>5, <1>7
<1>9. Put(result, array, len, new)
  BY <1>1, <1>2, <1>3, <1>6 DEF Put, Read
<1> QED
  BY <1>8, <1>9

LEMMA OverwrittenIs ==
  ASSUME NEW CONSTANT array \in Seq(Entry), NEW CONSTANT len \in Nat, NEW CONSTANT new \in Seq(File)
  PROVE  LET result == Overwritten(array, len, new) IN
         /\ result \in Seq(Entry) /\ Len(result) = Len(array)
         /\ Put(result, array, len, new)
<1> DEFINE result == Overwritten(array, len, new)
<1>1. File \subseteq Entry
  BY DEF Entry
<1>2. \A i \in 1..Len(array) :
        result[i] = IF i > len /\ i <= len + Len(new) THEN new[i - len] ELSE array[i]
  BY DEF Overwritten
<1>3. \A i \in 1..Len(array) :
        i > len /\ i <= len + Len(new) => i - len \in DOMAIN new /\ new[i - len] \in File
  OBVIOUS
<1>4. \A i \in 1..Len(array) : result[i] \in Entry
  BY <1>1, <1>2, <1>3
<1>5. DOMAIN result = 1..Len(array) /\ result = [i \in 1..Len(array) |-> result[i]]
  BY DEF Overwritten
<1>6. result \in Seq(Entry) /\ Len(result) = Len(array)
  <2> HIDE DEF result
  <2> QED
    BY <1>4, <1>5
<1>7. Put(result, array, len, new)
  BY <1>2, <1>3, <1>5 DEF Put
<1> QED
  BY <1>6, <1>7
-----------------------------------------------------------------------------
(* Listing the files: every step keeps the types *)

LEMMA TypesInit == Init => FetchTypes
<1> SUFFICES ASSUME Init PROVE FetchTypes
  OBVIOUS
<1>1. Empty \in Header /\ Empty.ptr = 1
  BY DEF Empty, Header
<1>2. << <<>> >> \in Seq(Seq(Entry)) /\ 1 \in DOMAIN << <<>> >>
  OBVIOUS
<1>3. Words \in (SUBSET Words) \ {{}}
  BY DEF Words
<1>4. \A a \in Archive : heap[a] = << <<>> >> /\ header[a] = Empty
  BY DEF Init, NoHeaders, NoArrays
<1>5. \A l \in Lister : Of[l] \in Archive /\ hand[l] = Empty
  BY FilesFetchAssumption DEF Init
<1>6. header \in [Archive -> Header] /\ hand \in [Lister -> Header] /\ DOMAIN heap = Archive
  BY <1>1 DEF Init, NoHeaders, NoArrays
<1>7. /\ at \in [Lister -> Ats] /\ found \in [Lister -> Seq(File)]
      /\ todo \in [Lister -> (SUBSET Words) \ {{}}]
      /\ \A l \in Lister : todo[l] = Words
  BY <1>3 DEF Init, Ats
<1>8. /\ listed \in [Archive -> SUBSET File] /\ raced \in [Archive -> BOOLEAN]
      /\ fetch \in [Archive -> {"running", "ok", "err", "crash"}]
  BY DEF Init
<1> QED
  BY <1>1, <1>2, <1>4, <1>5, <1>6, <1>7, <1>8 DEF FetchTypes, TypeOK

LEMMA TypesListing ==
  ASSUME FetchTypes, NEW CONSTANT l \in Lister, ListFiles(l) \/ ListFails(l)
  PROVE  FetchTypes'
<1>1. /\ UNCHANGED <<header, heap, hand, todo, listed, fetch, raced>>
      /\ at[l] = "ls" /\ \E x \in Ats \ {"store"} : at' = [at EXCEPT ![l] = x]
  BY DEF ListFiles, ListFails, Ats
<1>2. found' \in [Lister -> Seq(File)]
  <2>1. CASE ListFiles(l)
    <3>1. PICK n \in Lengths(l) : \E list \in Dated(l, n) : found' = [found EXCEPT ![l] = list]
      BY <2>1 DEF ListFiles
    <3>2. PICK list \in Dated(l, n) : found' = [found EXCEPT ![l] = list]
      BY <3>1
    <3>3. list \in Seq(File)
      BY ListsAreDistinct, FilesAreFiles
    <3> QED
      BY <3>2, <3>3 DEF FetchTypes, TypeOK
  <2>2. CASE ListFails(l)
    BY <2>2 DEF ListFails, FetchTypes, TypeOK
  <2> QED
    BY <2>1, <2>2
<1>3. at' \in [Lister -> Ats]
  BY <1>1 DEF FetchTypes, TypeOK
<1>4. \A m \in Lister : at'[m] \notin {"load", "store"} => todo[m] = Words
  BY <1>1 DEF FetchTypes, TypeOK
<1> QED
  BY <1>1, <1>2, <1>3, <1>4 DEF FetchTypes, TypeOK

\* A word is moved: it is done, or all words are.
LEMMA WordMoves ==
  ASSUME FetchTypes, NEW CONSTANT l \in Lister, NEW CONSTANT w \in todo[l],
         NEW CONSTANT from \in Ats, NEW CONSTANT to \in Ats, AfterWord(l, w, from, to),
         from \in {"load", "store"}
  PROVE  /\ w \in Words /\ at' \in [Lister -> Ats] /\ todo' \in [Lister -> (SUBSET Words) \ {{}}]
         /\ \A m \in Lister : at'[m] \notin {"load", "store"} => todo'[m] = Words
         /\ \A m \in Lister \ {l} : at'[m] = at[m] /\ todo'[m] = todo[m]
         /\ \/ todo[l] = {w} /\ at'[l] = to /\ todo'[l] = Words
            \/ todo[l] # {w} /\ at'[l] = from /\ todo'[l] = todo[l] \ {w}
<1>1. /\ w \in Words /\ at \in [Lister -> Ats] /\ todo \in [Lister -> (SUBSET Words) \ {{}}]
      /\ \A m \in Lister : at[m] \notin {"load", "store"} => todo[m] = Words
  BY DEF FetchTypes, TypeOK
<1>2. Words \in (SUBSET Words) \ {{}}
  BY <1>1
<1>3. CASE todo[l] = {w}
  BY <1>1, <1>2, <1>3 DEF AfterWord
<1>4. CASE todo[l] # {w}
  <2>1. todo[l] \ {w} \in (SUBSET Words) \ {{}}
    BY <1>1, <1>4
  <2> QED
    BY <1>1, <1>4, <2>1 DEF AfterWord
<1> QED
  BY <1>3, <1>4

LEMMA TypesLoad ==
  ASSUME FetchTypes, NEW CONSTANT l \in Lister, NEW CONSTANT w \in Words, Load(l, w)
  PROVE  FetchTypes'
<1> DEFINE a == Of[l]
<1>1. /\ UNCHANGED <<header, heap, found, listed, fetch>> /\ w \in todo[l] /\ a \in Archive
      /\ AfterWord(l, w, "load", "append")
  BY FilesFetchAssumption DEF Load
<1>2. /\ at' \in [Lister -> Ats] /\ todo' \in [Lister -> (SUBSET Words) \ {{}}]
      /\ \A m \in Lister : at'[m] \notin {"load", "store"} => todo'[m] = Words
  BY <1>1, WordMoves DEF Ats
<1>3. hand[l] \in Header /\ header[a] \in Header /\ header[a][w] \in Nat
  BY <1>1, HeadersAreRecords DEF FetchTypes, TypeOK
<1>4. hand' = [hand EXCEPT ![l] = [hand[l] EXCEPT ![w] = header[a][w]]]
  BY <1>3 DEF Load
<1>5. [hand[l] EXCEPT ![w] = header[a][w]] \in Header
  BY <1>3, WordIsSet
<1>6. hand' \in [Lister -> Header]
  BY <1>4, <1>5 DEF FetchTypes, TypeOK
<1>7. \A m \in Lister : hand'[m].ptr \in DOMAIN heap[Of[m]]
  <2>1. [hand[l] EXCEPT ![w] = header[a][w]].ptr \in {hand[l].ptr, header[a].ptr}
    BY <1>3, <1>5, WordIsSet, HeadersAreRecords DEF Words
  <2>2. header[a].ptr \in DOMAIN heap[a] /\ \A m \in Lister : hand[m].ptr \in DOMAIN heap[Of[m]]
    BY <1>1 DEF FetchTypes, TypeOK
  <2> QED
    BY <1>3, <1>4, <2>1, <2>2 DEF FetchTypes, TypeOK
<1>8. raced' \in [Archive -> BOOLEAN]
  BY <1>1 DEF Load, FetchTypes, TypeOK
<1> QED
  BY <1>1, <1>2, <1>6, <1>7, <1>8 DEF FetchTypes, TypeOK

LEMMA TypesStore ==
  ASSUME FetchTypes, NEW CONSTANT l \in Lister, NEW CONSTANT w \in Words, Store(l, w)
  PROVE  FetchTypes'
<1> DEFINE a == Of[l]
           h == [header[a] EXCEPT ![w] = hand[l][w]]
<1>1. /\ UNCHANGED <<heap, found, hand, listed, fetch, raced>> /\ w \in todo[l] /\ a \in Archive
      /\ AfterWord(l, w, "store", "done")
  BY FilesFetchAssumption DEF Store
<1>2. /\ at' \in [Lister -> Ats] /\ todo' \in [Lister -> (SUBSET Words) \ {{}}]
      /\ \A m \in Lister : at'[m] \notin {"load", "store"} => todo'[m] = Words
  BY <1>1, WordMoves DEF Ats
<1>3. hand[l] \in Header /\ header[a] \in Header /\ hand[l][w] \in Nat
  BY <1>1, HeadersAreRecords DEF FetchTypes, TypeOK
<1>4. header' = [header EXCEPT ![a] = h]
  BY <1>3 DEF Store
<1>5. h \in Header /\ h.ptr \in {hand[l].ptr, header[a].ptr}
  BY <1>3, WordIsSet, HeadersAreRecords DEF Words
<1>6. header' \in [Archive -> Header]
  BY <1>4, <1>5 DEF FetchTypes, TypeOK
<1>7. \A b \in Archive : heap[b] \in Seq(Seq(Entry)) /\ header'[b].ptr \in DOMAIN heap[b]
  BY <1>1, <1>4, <1>5 DEF FetchTypes, TypeOK
<1> QED
  BY <1>1, <1>2, <1>6, <1>7 DEF FetchTypes, TypeOK

\* What an append does: the new files are put into one array, to which the
\* goroutine then has the header, and no other array changes.
LEMMA ExtendPuts ==
  ASSUME FetchTypes, NEW CONSTANT l \in Lister, Extend(l)
  PROVE  LET a == Of[l]
             array == heap[a][hand[l].ptr]
             p == hand'[l].ptr
         IN /\ heap' = [heap EXCEPT ![a] = heap'[a]] /\ hand' = [hand EXCEPT ![l] = hand'[l]]
            /\ hand'[l] \in Header /\ heap'[a] \in Seq(Seq(Entry))
            /\ p \in DOMAIN heap'[a] /\ DOMAIN heap[a] \subseteq DOMAIN heap'[a]
            /\ array \in Seq(Entry) /\ Put(heap'[a][p], array, hand[l].len, found[l])
            /\ \A q \in DOMAIN heap'[a] \ {p} : q \in DOMAIN heap[a] /\ heap'[a][q] = heap[a][q]
<1> DEFINE a == Of[l]
           h == hand[l]
           need == h.len + Len(found[l])
           array == heap[a][h.ptr]
<1>1. /\ a \in Archive /\ heap[a] \in Seq(Seq(Entry)) /\ h.ptr \in DOMAIN heap[a]
      /\ h \in Header /\ h.ptr \in Nat /\ h.len \in Nat /\ h.cap \in Nat
      /\ found[l] \in Seq(File) /\ DOMAIN heap = Archive /\ hand \in [Lister -> Header]
  BY FilesFetchAssumption DEF FetchTypes, TypeOK, Header
<1>2. array \in Seq(Entry) /\ need \in Nat
  BY <1>1
<1>3. CASE need <= h.cap
  <2> DEFINE new == Overwritten(array, h.len, found[l])
  <2>1. new \in Seq(Entry) /\ Put(new, array, h.len, found[l])
    BY <1>1, <1>2, OverwrittenIs
  <2>2. heap' = [heap EXCEPT ![a][h.ptr] = new] /\ hand' = [hand EXCEPT ![l].len = need]
    BY <1>3 DEF Extend
  <2> HIDE DEF new
  <2>3. heap'[a] = [heap[a] EXCEPT ![h.ptr] = new] /\ heap' = [heap EXCEPT ![a] = heap'[a]]
    BY <1>1, <2>2
  <2>4. hand'[l] = [h EXCEPT !.len = need] /\ hand' = [hand EXCEPT ![l] = hand'[l]]
    BY <1>1, <2>2
  <2>5. hand'[l] \in Header /\ hand'[l].ptr = h.ptr
    BY <1>1, <1>2, <2>4 DEF Header
  <2>6. heap'[a] \in Seq(Seq(Entry)) /\ DOMAIN heap'[a] = DOMAIN heap[a]
    BY <1>1, <2>1, <2>3
  <2>7. \A q \in DOMAIN heap[a] : heap'[a][q] = IF q = h.ptr THEN new ELSE heap[a][q]
    BY <1>1, <2>3
  <2> QED
    BY <1>1, <1>2, <2>1, <2>3, <2>4, <2>5, <2>6, <2>7
<1>4. CASE ~(need <= h.cap)
  <2> DEFINE room == Room(h.cap, need)
             new == Extended(array, h.len, found[l], room)
             n == Len(heap[a])
  <2>1. room \in Nat /\ n \in Nat
    <3>1. h.cap \in Nat /\ need \in Nat
      BY <1>1, <1>2
    <3>2. n \in Nat
      BY <1>1
    <3> HIDE DEF h, need, n
    <3> QED
      BY <3>1, <3>2, RoomIs
  <2>2. new \in Seq(Entry) /\ Put(new, array, h.len, found[l])
    BY <1>1, <1>2, <2>1, ExtendedIs
  <2>3. /\ heap' = [heap EXCEPT ![a] = Append(heap[a], new)]
        /\ hand' = [hand EXCEPT ![l] = [ptr |-> n + 1, len |-> need, cap |-> room]]
    BY <1>1, <1>4 DEF Extend
  <2> HIDE DEF new, room
  <2>4. heap'[a] = Append(heap[a], new) /\ heap' = [heap EXCEPT ![a] = heap'[a]]
    BY <1>1, <2>3
  <2>5. /\ hand'[l] = [ptr |-> n + 1, len |-> need, cap |-> room]
        /\ hand' = [hand EXCEPT ![l] = hand'[l]]
    BY <1>1, <2>3
  <2>6. hand'[l] \in Header /\ hand'[l].ptr = n + 1
    BY <1>2, <2>1, <2>5 DEF Header
  <2>7. /\ heap'[a] \in Seq(Seq(Entry)) /\ DOMAIN heap'[a] = 1..(n + 1) /\ DOMAIN heap[a] = 1..n
        /\ heap'[a][n + 1] = new /\ \A q \in 1..n : heap'[a][q] = heap[a][q]
    BY <1>1, <2>1, <2>2, <2>4
  <2> QED
    BY <1>2, <2>1, <2>2, <2>4, <2>5, <2>6, <2>7
<1> QED
  BY <1>3, <1>4

LEMMA TypesExtend ==
  ASSUME FetchTypes, NEW CONSTANT l \in Lister, Extend(l)
  PROVE  FetchTypes'
<1> DEFINE a == Of[l]
<1>1. /\ heap' = [heap EXCEPT ![a] = heap'[a]] /\ hand' = [hand EXCEPT ![l] = hand'[l]]
      /\ hand'[l] \in Header /\ heap'[a] \in Seq(Seq(Entry))
      /\ hand'[l].ptr \in DOMAIN heap'[a] /\ DOMAIN heap[a] \subseteq DOMAIN heap'[a]
  BY ExtendPuts
<1>2. /\ UNCHANGED <<header, found, todo, listed, fetch, raced>>
      /\ at[l] = "append" /\ at' = [at EXCEPT ![l] = "store"] /\ a \in Archive
  BY FilesFetchAssumption DEF Extend
<1>3. DOMAIN heap' = Archive /\ hand' \in [Lister -> Header] /\ at' \in [Lister -> Ats]
  BY <1>1, <1>2 DEF FetchTypes, TypeOK, Ats
<1>4. \A b \in Archive : heap'[b] \in Seq(Seq(Entry)) /\ header[b].ptr \in DOMAIN heap'[b]
  BY <1>1, <1>2 DEF FetchTypes, TypeOK
<1>5. \A m \in Lister : hand'[m].ptr \in DOMAIN heap'[Of[m]]
  BY <1>1, <1>2, FilesFetchAssumption DEF FetchTypes, TypeOK
<1>6. \A m \in Lister : at'[m] \notin {"load", "store"} => todo[m] = Words
  BY <1>2 DEF FetchTypes, TypeOK
<1> QED
  BY <1>2, <1>3, <1>4, <1>5, <1>6 DEF FetchTypes, TypeOK

LEMMA TypesFetched ==
  ASSUME FetchTypes, NEW CONSTANT a \in Archive, Fetched(a)
  PROVE  FetchTypes'
<1>1. UNCHANGED locals
  BY DEF Fetched
<1>2. /\ listed' \in [Archive -> SUBSET File]
      /\ fetch' \in [Archive -> {"running", "ok", "err", "crash"}]
  BY DEF Fetched, AllFiles, FetchTypes, TypeOK
<1> QED
  BY <1>1, <1>2 DEF locals, FetchTypes, TypeOK

LEMMA TypesStep ==
  ASSUME FetchTypes, Next
  PROVE  FetchTypes'
BY TypesListing, TypesLoad, TypesStore, TypesExtend, TypesFetched DEF Next, Step
-----------------------------------------------------------------------------
(* Listing the files: no file twice *)

\* A goroutine that has not appended yet has no file in any array.
FetchUnique ==
  /\ \A l \in Lister : found[l] \in Seq(FilesOf(l)) /\ Distinct(found[l])
  /\ \A a \in Archive : \A p \in DOMAIN heap[a] : Distinct(heap[a][p])
  /\ \A l \in Lister : at[l] \notin {"store", "done"} =>
       \A p \in DOMAIN heap[Of[l]] : \A i \in DOMAIN heap[Of[l]][p] :
         heap[Of[l]][p][i] \notin FilesOf(l)

\* New files put into an array that has none of them.
LEMMA PutDistinct ==
  ASSUME NEW CONSTANT result, NEW CONSTANT array, NEW CONSTANT len \in Nat,
         NEW CONSTANT l \in Lister, NEW CONSTANT new \in Seq(FilesOf(l)),
         DOMAIN result \subseteq Nat, Put(result, array, len, new),
         Distinct(array), Distinct(new), \A i \in DOMAIN array : array[i] \notin FilesOf(l)
  PROVE  Distinct(result)
<1> SUFFICES ASSUME NEW i \in DOMAIN result, NEW j \in DOMAIN result, i # j,
                    result[i] \in File, result[i] = result[j]
             PROVE  FALSE
  BY DEF Distinct
<1>1. \A k \in DOMAIN new : new[k] \in FilesOf(l) /\ new[k] \in File
  BY FilesAreFiles
<1>2. CASE i - len \in DOMAIN new /\ result[i] = new[i - len]
  <2>1. j - len \in DOMAIN new /\ result[j] = new[j - len]
    BY <1>1, <1>2 DEF Put
  <2>2. i - len # j - len
    OBVIOUS
  <2> QED
    BY <1>1, <1>2, <2>1, <2>2 DEF Distinct
<1>3. CASE i \in DOMAIN array /\ result[i] = array[i]
  <2>1. j \in DOMAIN array /\ result[j] = array[j]
    BY <1>1, <1>3 DEF Put
  <2> QED
    BY <1>3, <2>1 DEF Distinct
<1> QED
  BY <1>2, <1>3 DEF Put

\* Only the files that are put, and those that were there, are in the array.
LEMMA PutOnly ==
  ASSUME NEW CONSTANT result, NEW CONSTANT array, NEW CONSTANT len \in Nat,
         NEW CONSTANT l \in Lister, NEW CONSTANT new \in Seq(FilesOf(l)),
         NEW CONSTANT m \in Lister, m # l, Put(result, array, len, new),
         \A i \in DOMAIN array : array[i] \notin FilesOf(m)
  PROVE  \A i \in DOMAIN result : result[i] \notin FilesOf(m)
<1> SUFFICES ASSUME NEW i \in DOMAIN result, result[i] \in FilesOf(m) PROVE FALSE
  OBVIOUS
<1>1. result[i] \in File
  BY FilesAreFiles
<1>2. CASE i - len \in DOMAIN new /\ result[i] = new[i - len]
  <2>1. new[i - len] \in FilesOf(l)
    BY <1>2
  <2> QED
    BY <1>2, <2>1, FoldersApart
<1>3. CASE i \in DOMAIN array /\ result[i] = array[i]
  BY <1>3
<1> QED
  BY <1>1, <1>2, <1>3 DEF Put

LEMMA UniqueInit == Init => FetchUnique
<1> SUFFICES ASSUME Init PROVE FetchUnique
  OBVIOUS
<1>1. \A a \in Archive : heap[a] = << <<>> >>
  BY DEF Init, NoArrays
<1>2. \A a \in Archive : \A p \in DOMAIN heap[a] : DOMAIN heap[a][p] = {}
  BY <1>1
<1>3. \A l \in Lister : found[l] = <<>> /\ Of[l] \in Archive
  BY FilesFetchAssumption DEF Init
<1>4. ASSUME NEW l \in Lister PROVE found[l] \in Seq(FilesOf(l)) /\ Distinct(found[l])
  <2>1. found[l] = <<>> /\ DOMAIN found[l] = {}
    BY <1>3
  <2>2. found[l] \in Seq(FilesOf(l))
    BY <2>1
  <2> QED
    BY <2>1, <2>2 DEF Distinct
<1>5. \A a \in Archive : \A p \in DOMAIN heap[a] : Distinct(heap[a][p])
  BY <1>2 DEF Distinct
<1> QED
  BY <1>2, <1>3, <1>4, <1>5 DEF FetchUnique

LEMMA UniqueStep ==
  ASSUME FetchTypes, FetchUnique, Next
  PROVE  FetchUnique'
<1>1. ASSUME NEW l \in Lister, ListFiles(l) PROVE FetchUnique'
  <2>1. PICK n \in Lengths(l) : \E list \in Dated(l, n) : found' = [found EXCEPT ![l] = list]
    BY <1>1 DEF ListFiles
  <2>2. PICK list \in Dated(l, n) : found' = [found EXCEPT ![l] = list]
    BY <2>1
  <2>3. list \in Seq(FilesOf(l)) /\ Distinct(list)
    BY ListsAreDistinct
  <2>4. \A m \in Lister : found'[m] \in Seq(FilesOf(m)) /\ Distinct(found'[m])
    BY <2>2, <2>3 DEF FetchUnique, FetchTypes, TypeOK
  <2>5. UNCHANGED heap /\ at[l] = "ls" /\ \A m \in Lister \ {l} : at'[m] = at[m]
    BY <1>1 DEF ListFiles, FetchTypes, TypeOK
  <2> QED
    BY <2>4, <2>5 DEF FetchUnique
<1>2. ASSUME NEW l \in Lister, ListFails(l) PROVE FetchUnique'
  <2>1. UNCHANGED <<heap, found>> /\ at[l] = "ls" /\ \A m \in Lister \ {l} : at'[m] = at[m]
    BY <1>2 DEF ListFails, FetchTypes, TypeOK
  <2> QED
    BY <2>1 DEF FetchUnique
<1>3. ASSUME NEW l \in Lister, NEW w \in Words, Load(l, w) \/ Store(l, w) PROVE FetchUnique'
  <2>1. /\ UNCHANGED <<heap, found>> /\ \A m \in Lister \ {l} : at'[m] = at[m]
        /\ at[l] = "load" \/ (at[l] = "store" /\ at'[l] \in {"store", "done"})
    BY <1>3, WordMoves DEF Load, Store, Ats
  <2> QED
    BY <2>1 DEF FetchUnique
<1>4. ASSUME NEW l \in Lister, Extend(l) PROVE FetchUnique'
  <2> DEFINE a == Of[l]
             array == heap[a][hand[l].ptr]
             p == hand'[l].ptr
  <2>1. /\ heap' = [heap EXCEPT ![a] = heap'[a]] /\ heap'[a] \in Seq(Seq(Entry))
        /\ p \in DOMAIN heap'[a] /\ Put(heap'[a][p], array, hand[l].len, found[l])
        /\ \A q \in DOMAIN heap'[a] \ {p} : q \in DOMAIN heap[a] /\ heap'[a][q] = heap[a][q]
    BY <1>4, ExtendPuts
  <2>2. /\ UNCHANGED found /\ at[l] = "append" /\ at'[l] = "store" /\ a \in Archive
        /\ \A m \in Lister \ {l} : at'[m] = at[m]
    BY <1>4, FilesFetchAssumption DEF Extend, FetchTypes, TypeOK
  <2>3. /\ hand[l].ptr \in DOMAIN heap[a] /\ hand[l].len \in Nat /\ DOMAIN heap'[a][p] \subseteq Nat
        /\ found[l] \in Seq(FilesOf(l)) /\ Distinct(found[l]) /\ Distinct(array)
    <3>1. hand[l] \in Header /\ hand[l].ptr \in DOMAIN heap[a]
      BY <2>2 DEF FetchTypes, TypeOK
    <3>2. hand[l].len \in Nat /\ DOMAIN heap'[a][p] \subseteq Nat
      BY <2>1, <3>1, HeadersAreRecords
    <3>3. found[l] \in Seq(FilesOf(l)) /\ Distinct(found[l]) /\ Distinct(array)
      BY <2>2, <3>1 DEF FetchUnique
    <3> QED
      BY <3>1, <3>2, <3>3
  <2>4. \A i \in DOMAIN array : array[i] \notin FilesOf(l)
    BY <2>2, <2>3 DEF FetchUnique
  <2>5. Distinct(heap'[a][p])
    BY <2>1, <2>3, <2>4, PutDistinct
  <2>6. \A b \in Archive : \A q \in DOMAIN heap'[b] : Distinct(heap'[b][q])
    BY <2>1, <2>2, <2>5 DEF FetchUnique, FetchTypes
  <2>7. ASSUME NEW m \in Lister, at'[m] \notin {"store", "done"},
               NEW q \in DOMAIN heap'[Of[m]], NEW i \in DOMAIN heap'[Of[m]][q]
        PROVE  heap'[Of[m]][q][i] \notin FilesOf(m)
    <3>1. m # l /\ at[m] \notin {"store", "done"} /\ Of[m] \in Archive
      BY <2>2, <2>7, FilesFetchAssumption
    <3>2. CASE Of[m] = a /\ q = p
      <4>1. \A j \in DOMAIN array : array[j] \notin FilesOf(m)
        BY <2>3, <3>1, <3>2 DEF FetchUnique
      <4> QED
        BY <2>1, <2>3, <2>7, <3>1, <3>2, <4>1, PutOnly
    <3>3. CASE Of[m] # a \/ q # p
      <4>1. q \in DOMAIN heap[Of[m]] /\ heap'[Of[m]][q] = heap[Of[m]][q]
        BY <2>1, <2>2, <2>7, <3>1, <3>3 DEF FetchTypes
      <4> QED
        BY <2>7, <3>1, <4>1 DEF FetchUnique
    <3> QED
      BY <3>2, <3>3
  <2> QED
    BY <2>2, <2>6, <2>7 DEF FetchUnique
<1>5. ASSUME NEW a \in Archive, Fetched(a) PROVE FetchUnique'
  BY <1>5 DEF Fetched, locals, FetchUnique
<1> QED
  BY <1>1, <1>2, <1>3, <1>4, <1>5 DEF Next, Step

LEMMA UniqueSlice ==
  ASSUME FetchTypes, FetchUnique
  PROVE  NoFileTwice
<1> SUFFICES ASSUME NEW a \in Archive, NEW i \in DOMAIN Slice(a), NEW j \in DOMAIN Slice(a),
                    i # j, Slice(a)[i] \in File, Slice(a)[i] = Slice(a)[j]
             PROVE  FALSE
  BY DEF NoFileTwice
<1> DEFINE array == heap[a][header[a].ptr]
<1>1. Distinct(array)
  BY DEF FetchTypes, TypeOK, FetchUnique
<1>2. \A k \in DOMAIN Slice(a) : Slice(a)[k] \in File =>
        k \in DOMAIN array /\ Slice(a)[k] = array[k]
  BY FilesFetchAssumption DEF Slice, Read
<1> QED
  BY <1>1, <1>2 DEF Distinct
-----------------------------------------------------------------------------
(* Listing the files: all of them, unless two appends overlap *)

Entries(l) == {found[l][i] : i \in DOMAIN found[l]}

FilesDone(a) == UNION {Entries(l) : l \in {m \in Pods(a) : at[m] = "done"}}

\* The first n entries of an array.
First(array, n) == {array[i] : i \in 1..n}

\* The slice of a header is within its array and has these files.
Holds(h, arrays, files) ==
  LET array == arrays[h.ptr] IN
  h.len <= h.cap /\ h.cap = Len(array) /\ First(array, h.len) = files

OneAppends(a) == \A l, m \in Pods(a) : Appending(l) /\ Appending(m) => l = m

NoneStores(a) == \A l \in Pods(a) : at[l] # "store"

\* The words a goroutine has loaded are the slice's; those it has stored are its own.
InHand(a, l) ==
  /\ at[l] = "load" => \A w \in Words \ todo[l] : hand[l][w] = header[a][w]
  /\ at[l] = "append" => hand[l] = header[a]
  /\ at[l] = "store" => /\ \A w \in Words \ todo[l] : header[a][w] = hand[l][w]
                        /\ Holds(hand[l], heap[a], FilesDone(a) \cup Entries(l))

\* As long as appends do not overlap the slice has the files of the goroutines
\* that are done, and the one that appends knows the slice.
WholeSlice(a) ==
  ~raced[a] =>
    /\ OneAppends(a)
    /\ NoneStores(a) => Holds(header[a], heap[a], FilesDone(a))
    /\ \A l \in Pods(a) : InHand(a, l)

FetchWhole == (\A a \in Replicated : WholeSlice(a)) /\ WholeUnlessRaced

LEMMA EntriesAre ==
  ASSUME FetchTypes, NEW l \in Lister
  PROVE  Entries(l) = First(found[l], Len(found[l]))
<1>1. DOMAIN found[l] = 1..Len(found[l])
  BY DEF FetchTypes, TypeOK
<1> QED
  BY <1>1 DEF Entries, First

\* The new entries are behind those there were.
Behind(result, array, len, new, n, sum) ==
  /\ len \in Nat /\ n \in Nat /\ sum = len + n
  /\ \A i \in 1..sum : result[i] = IF i > len THEN new[i - len] ELSE array[i]

LEMMA FirstOf ==
  ASSUME NEW CONSTANT result, NEW CONSTANT array, NEW CONSTANT len, NEW CONSTANT new,
         NEW CONSTANT n, NEW CONSTANT sum, Behind(result, array, len, new, n, sum)
  PROVE  First(result, sum) = First(array, len) \cup First(new, n)
<1> USE DEF Behind
<1>1. ASSUME NEW x \in First(result, sum) PROVE x \in First(array, len) \cup First(new, n)
  <2>1. PICK i \in 1..sum : x = result[i]
    BY DEF First
  <2>2. CASE i > len
    <3>1. x = new[i - len] /\ i - len \in 1..n
      BY <2>1, <2>2
    <3> QED
      BY <3>1 DEF First
  <2>3. CASE ~(i > len)
    <3>1. x = array[i] /\ i \in 1..len
      BY <2>1, <2>3
    <3> QED
      BY <3>1 DEF First
  <2> QED
    BY <2>2, <2>3
<1>2. ASSUME NEW x \in First(array, len) PROVE x \in First(result, sum)
  <2>1. PICK i \in 1..len : x = array[i]
    BY DEF First
  <2>2. i \in 1..sum /\ x = result[i]
    BY <2>1
  <2> QED
    BY <2>2 DEF First
<1>3. ASSUME NEW x \in First(new, n) PROVE x \in First(result, sum)
  <2>1. PICK i \in 1..n : x = new[i]
    BY DEF First
  <2>2. len + i \in 1..(len + n) /\ len + i > len /\ (len + i) - len = i
    OBVIOUS
  <2>3. x = result[len + i]
    BY <2>1, <2>2
  <2> QED
    BY <2>2, <2>3 DEF First
<1> QED
  BY <1>1, <1>2, <1>3

LEMMA ExtendedHolds ==
  ASSUME NEW CONSTANT array \in Seq(Entry), NEW CONSTANT len \in 0..Len(array),
         NEW CONSTANT new \in Seq(File), NEW CONSTANT room \in Nat, len + Len(new) <= room
  PROVE  First(Extended(array, len, new, room), len + Len(new))
           = First(array, len) \cup First(new, Len(new))
<1> DEFINE result == Extended(array, len, new, room)
           n == Len(new)
           sum == len + n
<1>1. Behind(result, array, len, new, n, sum)
  BY DEF Extended, Read, Behind
<1> HIDE DEF result, n, sum
<1>2. First(result, sum) = First(array, len) \cup First(new, n)
  BY <1>1, FirstOf
<1> QED
  BY <1>2 DEF result, n, sum

LEMMA OverwrittenHolds ==
  ASSUME NEW CONSTANT array \in Seq(Entry), NEW CONSTANT len \in Nat,
         NEW CONSTANT new \in Seq(File), len + Len(new) <= Len(array)
  PROVE  First(Overwritten(array, len, new), len + Len(new))
           = First(array, len) \cup First(new, Len(new))
<1> DEFINE result == Overwritten(array, len, new)
           n == Len(new)
           sum == len + n
<1>1. Behind(result, array, len, new, n, sum)
  BY DEF Overwritten, Behind
<1> HIDE DEF result, n, sum
<1>2. First(result, sum) = First(array, len) \cup First(new, n)
  BY <1>1, FirstOf
<1> QED
  BY <1>2 DEF result, n, sum

\* An append to a slice that is whole gives one with the new files too.
LEMMA ExtendHolds ==
  ASSUME FetchTypes, NEW CONSTANT l \in Lister, Extend(l), NEW files,
         Holds(hand[l], heap[Of[l]], files)
  PROVE  Holds(hand'[l], heap'[Of[l]], files \cup Entries(l))
<1> DEFINE a == Of[l]
           h == hand[l]
           need == h.len + Len(found[l])
           array == heap[a][h.ptr]
<1>1. /\ a \in Archive /\ heap[a] \in Seq(Seq(Entry)) /\ h.ptr \in DOMAIN heap[a]
      /\ h \in Header /\ h.ptr \in Nat /\ h.len \in Nat /\ h.cap \in Nat
      /\ found[l] \in Seq(File) /\ DOMAIN heap = Archive /\ hand \in [Lister -> Header]
  BY FilesFetchAssumption DEF FetchTypes, TypeOK, Header
<1>2. array \in Seq(Entry) /\ need \in Nat
  BY <1>1
<1>3. h.len <= h.cap /\ h.cap = Len(array) /\ First(array, h.len) = files
  BY DEF Holds
<1>4. CASE need <= h.cap
  <2> DEFINE new == Overwritten(array, h.len, found[l])
  <2>1. new \in Seq(Entry) /\ Len(new) = Len(array)
    BY <1>1, <1>2, OverwrittenIs
  <2>2. First(new, need) = files \cup Entries(l)
    <3>1. /\ h.len \in Nat /\ h.len + Len(found[l]) <= Len(array)
          /\ array \in Seq(Entry) /\ found[l] \in Seq(File)
      BY <1>1, <1>2, <1>3, <1>4
    <3> HIDE DEF h, array
    <3>2. First(new, need) = First(array, h.len) \cup First(found[l], Len(found[l]))
      BY <3>1, OverwrittenHolds
    <3> QED
      BY <1>3, <3>2, EntriesAre
  <2>3. heap' = [heap EXCEPT ![a][h.ptr] = new] /\ hand' = [hand EXCEPT ![l].len = need]
    BY <1>4 DEF Extend
  <2> HIDE DEF new
  <2>4. heap'[a][h.ptr] = new
    BY <1>1, <2>3
  <2>5. hand'[l] = [h EXCEPT !.len = need]
    BY <1>1, <2>3
  <2>6. hand'[l].ptr = h.ptr /\ hand'[l].len = need /\ hand'[l].cap = h.cap
    BY <1>1, <1>2, <2>5 DEF Header
  <2> QED
    BY <1>3, <1>4, <2>1, <2>2, <2>4, <2>6 DEF Holds
<1>5. CASE ~(need <= h.cap)
  <2> DEFINE room == Room(h.cap, need)
             new == Extended(array, h.len, found[l], room)
             n == Len(heap[a])
  <2>1. room \in Nat /\ room >= need
    <3> HIDE DEF h, need
    <3> QED
      BY <1>1, <1>2, RoomIs
  <2>2. new \in Seq(Entry) /\ Len(new) = room
    BY <1>1, <1>2, <2>1, ExtendedIs
  <2>3. First(new, need) = files \cup Entries(l)
    <3>1. /\ h.len \in 0..Len(array) /\ h.len + Len(found[l]) <= room /\ room \in Nat
          /\ array \in Seq(Entry) /\ found[l] \in Seq(File)
      BY <1>1, <1>2, <1>3, <2>1
    <3> HIDE DEF h, room, array
    <3>2. First(new, need) = First(array, h.len) \cup First(found[l], Len(found[l]))
      BY <3>1, ExtendedHolds
    <3> QED
      BY <1>3, <3>2, EntriesAre
  <2>4. /\ heap' = [heap EXCEPT ![a] = Append(heap[a], new)]
        /\ hand' = [hand EXCEPT ![l] = [ptr |-> n + 1, len |-> need, cap |-> room]]
    BY <1>1, <1>5 DEF Extend
  <2> HIDE DEF new, room
  <2>5. heap'[a][n + 1] = new
    BY <1>1, <2>2, <2>4
  <2>6. hand'[l] = [ptr |-> n + 1, len |-> need, cap |-> room]
    BY <1>1, <2>4
  <2> QED
    BY <1>2, <2>1, <2>2, <2>3, <2>5, <2>6 DEF Holds
<1> QED
  BY <1>4, <1>5
-----------------------------------------------------------------------------
(* Listing the files: every step keeps them whole *)

\* What a step of one goroutine leaves alone.
StepOf(l) ==
  /\ UNCHANGED <<listed, fetch>> /\ at[l] \in {"ls", "load", "append", "store"}
  /\ \A m \in Lister \ {l} :
       at'[m] = at[m] /\ found'[m] = found[m] /\ hand'[m] = hand[m] /\ todo'[m] = todo[m]
  /\ \A a \in Archive \ {Of[l]} :
       header'[a] = header[a] /\ heap'[a] = heap[a] /\ raced'[a] = raced[a]

LEMMA StepFrame ==
  ASSUME FetchTypes, NEW CONSTANT l \in Lister, Step(l)
  PROVE  StepOf(l)
<1>1. CASE ListFiles(l) \/ ListFails(l)
  BY <1>1 DEF ListFiles, ListFails, StepOf, FetchTypes, TypeOK
<1>2. CASE Extend(l)
  <2>1. /\ heap' = [heap EXCEPT ![Of[l]] = heap'[Of[l]]]
        /\ hand' = [hand EXCEPT ![l] = hand'[l]]
    BY <1>2, ExtendPuts
  <2>2. /\ UNCHANGED <<header, found, todo, listed, fetch, raced>>
        /\ at[l] = "append" /\ at' = [at EXCEPT ![l] = "store"]
    BY <1>2 DEF Extend
  <2>3. DOMAIN hand = Lister /\ DOMAIN at = Lister /\ DOMAIN heap = Archive
    BY DEF FetchTypes, TypeOK
  <2>4. \A m \in Lister \ {l} : hand'[m] = hand[m] /\ at'[m] = at[m]
    BY <2>1, <2>2, <2>3
  <2>5. \A a \in Archive \ {Of[l]} : heap'[a] = heap[a]
    BY <2>1, <2>3
  <2> QED
    BY <2>2, <2>4, <2>5 DEF StepOf
<1>3. ASSUME NEW w \in Words, Load(l, w) PROVE StepOf(l)
  <2>1. \A m \in Lister \ {l} : at'[m] = at[m] /\ todo'[m] = todo[m]
    BY <1>3, WordMoves DEF Load, Ats
  <2>2. /\ UNCHANGED <<header, heap, found, listed, fetch>> /\ at[l] = "load"
        /\ \A m \in Lister \ {l} : hand'[m] = hand[m]
        /\ \A a \in Archive \ {Of[l]} : raced'[a] = raced[a]
    BY <1>3 DEF Load, FetchTypes, TypeOK
  <2> QED
    BY <2>1, <2>2 DEF StepOf
<1>4. ASSUME NEW w \in Words, Store(l, w) PROVE StepOf(l)
  <2>1. \A m \in Lister \ {l} : at'[m] = at[m] /\ todo'[m] = todo[m]
    BY <1>4, WordMoves DEF Store, Ats
  <2>2. /\ UNCHANGED <<heap, found, hand, listed, fetch, raced>> /\ at[l] = "store"
        /\ \A a \in Archive \ {Of[l]} : header'[a] = header[a]
    BY <1>4 DEF Store, FetchTypes, TypeOK
  <2> QED
    BY <2>1, <2>2 DEF StepOf
<1> QED
  BY <1>1, <1>2, <1>3, <1>4 DEF Step

LEMMA DoneStays ==
  ASSUME NEW CONSTANT a, \A m \in Pods(a) : at'[m] = "done" <=> at[m] = "done",
         \A m \in Pods(a) : at[m] = "done" => found'[m] = found[m]
  PROVE  FilesDone(a)' = FilesDone(a)
<1>1. {m \in Pods(a) : at[m] = "done"}' = {m \in Pods(a) : at[m] = "done"}
  BY DEF Pods
<1>2. \A m \in {k \in Pods(a) : at[k] = "done"} : Entries(m)' = Entries(m)
  BY DEF Entries
<1> QED
  BY <1>1, <1>2 DEF FilesDone

LEMMA DoneGrows ==
  ASSUME NEW CONSTANT a, NEW CONSTANT l \in Pods(a), at'[l] = "done",
         \A m \in Pods(a) \ {l} : at'[m] = at[m], \A m \in Pods(a) : found'[m] = found[m]
  PROVE  FilesDone(a)' = FilesDone(a) \cup Entries(l)
<1>1. {m \in Pods(a) : at[m] = "done"}' = {m \in Pods(a) : at[m] = "done"} \cup {l}
  BY DEF Pods
<1>2. \A m \in Pods(a) : Entries(m)' = Entries(m)
  BY DEF Entries
<1>3. {m \in Pods(a) : at[m] = "done"} \subseteq Pods(a)
  OBVIOUS
<1> QED
  BY <1>1, <1>2, <1>3 DEF FilesDone

\* The slice of an archive of which nothing changes.
LEMMA WholeSame ==
  ASSUME NEW CONSTANT b, WholeSlice(b),
         \A m \in Pods(b) : /\ at'[m] = at[m] /\ found'[m] = found[m]
                            /\ hand'[m] = hand[m] /\ todo'[m] = todo[m],
         header'[b] = header[b] /\ heap'[b] = heap[b] /\ raced'[b] = raced[b]
  PROVE  WholeSlice(b)'
<1>1. FilesDone(b)' = FilesDone(b)
  BY DoneStays
<1>2. \A m \in Pods(b) : Appending(m)' = Appending(m) /\ Entries(m)' = Entries(m)
  BY DEF Appending, Entries
<1>3. Pods(b)' = Pods(b)
  BY DEF Pods
<1>4. OneAppends(b)' = OneAppends(b) /\ NoneStores(b)' = NoneStores(b)
  BY <1>2, <1>3 DEF OneAppends, NoneStores
<1>5. \A m \in Pods(b) : InHand(b, m)' = InHand(b, m)
  BY <1>1, <1>2 DEF InHand, Holds, First
<1> QED
  BY <1>1, <1>3, <1>4, <1>5 DEF WholeSlice, Holds, First

LEMMA WholeElsewhere ==
  ASSUME NEW CONSTANT l \in Lister, StepOf(l), NEW CONSTANT b \in Replicated, b # Of[l],
         WholeSlice(b)
  PROVE  WholeSlice(b)'
<1>1. \A m \in Pods(b) : /\ at'[m] = at[m] /\ found'[m] = found[m]
                         /\ hand'[m] = hand[m] /\ todo'[m] = todo[m]
  BY DEF StepOf, Pods
<1>2. header'[b] = header[b] /\ heap'[b] = heap[b] /\ raced'[b] = raced[b]
  BY FilesFetchAssumption DEF StepOf
<1> QED
  BY <1>1, <1>2, WholeSame

\* One that is not appending, of whom nothing changes, knows nothing of the slice.
LEMMA NotInHand ==
  ASSUME FetchTypes, NEW CONSTANT m \in Lister, NEW CONSTANT a, ~Appending(m),
         at'[m] = at[m], todo'[m] = todo[m]
  PROVE  InHand(a, m)' /\ ~Appending(m)'
<1>1. at[m] = "load" => todo[m] = Words
  BY DEF Appending
<1> QED
  BY <1>1 DEF InHand, Appending

LEMMA WholeListing ==
  ASSUME FetchTypes, NEW CONSTANT l \in Lister, ListFiles(l) \/ ListFails(l), StepOf(l),
         Of[l] \in Replicated, WholeSlice(Of[l])
  PROVE  WholeSlice(Of[l])'
<1> DEFINE a == Of[l]
<1>1. /\ UNCHANGED <<header, heap, hand, todo, raced>> /\ at[l] = "ls" /\ todo[l] = Words
      /\ at'[l] \in {"load", "failed", "hung"}
  BY FilesFetchAssumption DEF ListFiles, ListFails, FetchTypes, TypeOK
<1>2. \A m \in Pods(a) : m # l => at'[m] = at[m] /\ found'[m] = found[m] /\ m \in Lister
  BY DEF StepOf, Pods
<1>3. FilesDone(a)' = FilesDone(a)
  BY <1>1, <1>2, DoneStays
<1>4. \A m \in Pods(a) : Appending(m)' = Appending(m)
  BY <1>1, <1>2 DEF Appending
<1>5. Pods(a)' = Pods(a)
  BY DEF Pods
<1>6. OneAppends(a)' = OneAppends(a)
  BY <1>4, <1>5 DEF OneAppends
<1>7. NoneStores(a)' = NoneStores(a)
  BY <1>1, <1>2, <1>5 DEF NoneStores
<1>8. ASSUME NEW m \in Pods(a), InHand(a, m) PROVE InHand(a, m)'
  <2>1. CASE m = l
    BY <1>1, <2>1 DEF InHand
  <2>2. CASE m # l
    <3>1. at'[m] = at[m] /\ Entries(m)' = Entries(m)
      BY <1>2, <2>2 DEF Entries
    <3>2. Holds(hand[m], heap[a], FilesDone(a) \cup Entries(m))'
            = Holds(hand[m], heap[a], FilesDone(a) \cup Entries(m))
      BY <1>1, <1>3, <3>1 DEF Holds, First
    <3> QED
      BY <1>1, <1>8, <3>1, <3>2 DEF InHand
  <2> QED
    BY <2>1, <2>2
<1> QED
  BY <1>1, <1>3, <1>5, <1>6, <1>7, <1>8 DEF WholeSlice, Holds, First

LEMMA WholeLoad ==
  ASSUME FetchTypes, NEW CONSTANT l \in Lister, NEW CONSTANT w \in Words, Load(l, w), StepOf(l),
         Of[l] \in Replicated, WholeSlice(Of[l])
  PROVE  WholeSlice(Of[l])'
<1> DEFINE a == Of[l]
<1> SUFFICES ASSUME ~raced'[a] PROVE WholeSlice(a)'
  BY DEF WholeSlice
<1>1. /\ UNCHANGED <<header, heap, found>> /\ at[l] = "load" /\ w \in todo[l] /\ a \in Archive
      /\ header[a] \in Header /\ hand[l] \in Header /\ header[a][w] \in Nat
  BY FilesFetchAssumption, HeadersAreRecords DEF Load, FetchTypes, TypeOK
<1>2. ~raced[a] /\ \A m \in Pods(a) \ {l} : ~Appending(m)
  BY <1>1 DEF Load, Overlaps, FetchTypes, TypeOK
<1>3. \/ todo[l] = {w} /\ at'[l] = "append" /\ todo'[l] = Words
      \/ todo[l] # {w} /\ at'[l] = "load" /\ todo'[l] = todo[l] \ {w}
  <2>1. AfterWord(l, w, "load", "append")
    BY DEF Load
  <2> QED
    BY <1>1, <2>1, WordMoves DEF Ats
<1>4. \A m \in Pods(a) \ {l} : at'[m] = at[m] /\ todo'[m] = todo[m] /\ m \in Lister
  BY DEF StepOf, Pods
<1>5. \A m \in Pods(a) \ {l} : InHand(a, m)' /\ ~Appending(m)'
  BY <1>2, <1>4, NotInHand
<1>6. Pods(a)' = Pods(a)
  BY DEF Pods
<1>7. OneAppends(a)'
  BY <1>5, <1>6 DEF OneAppends
<1>8. FilesDone(a)' = FilesDone(a)
  BY <1>1, <1>3, <1>4, DoneStays
<1>9. NoneStores(a)' => Holds(header[a], heap[a], FilesDone(a))'
  <2>1. NoneStores(a)' => NoneStores(a)
    BY <1>1, <1>4, <1>6 DEF NoneStores
  <2> QED
    BY <1>1, <1>2, <1>8, <2>1 DEF WholeSlice, Holds, First
<1>10. InHand(a, l)'
  <2>1. /\ hand'[l] \in Header
        /\ \A v \in Words : hand'[l][v] = IF v = w THEN header[a][w] ELSE hand[l][v]
    <3>1. hand'[l] = [hand[l] EXCEPT ![w] = header[a][w]]
      BY <1>1 DEF Load, FetchTypes, TypeOK
    <3> QED
      BY <1>1, <3>1, WordIsSet
  <2>2. \A v \in Words \ todo[l] : hand[l][v] = header[a][v]
    BY <1>1, <1>2 DEF WholeSlice, InHand, Pods
  <2>3. CASE todo[l] = {w} /\ at'[l] = "append"
    <3>1. \A v \in Words : hand'[l][v] = header[a][v]
      BY <2>1, <2>2, <2>3
    <3>2. hand'[l] = header[a]
      BY <1>1, <2>1, <3>1, SameWords
    <3> QED
      BY <1>1, <2>3, <3>2 DEF InHand
  <2>4. CASE todo'[l] = todo[l] \ {w} /\ at'[l] = "load"
    BY <1>1, <2>1, <2>2, <2>4 DEF InHand
  <2> QED
    BY <1>3, <2>3, <2>4
<1> QED
  BY <1>5, <1>6, <1>7, <1>9, <1>10 DEF WholeSlice

LEMMA WholeExtend ==
  ASSUME FetchTypes, NEW CONSTANT l \in Lister, Extend(l), StepOf(l),
         Of[l] \in Replicated, WholeSlice(Of[l])
  PROVE  WholeSlice(Of[l])'
<1> DEFINE a == Of[l]
<1> SUFFICES ASSUME ~raced'[a] PROVE WholeSlice(a)'
  BY DEF WholeSlice
<1>1. /\ UNCHANGED <<header, found, todo, raced>> /\ at[l] = "append" /\ at'[l] = "store"
      /\ todo[l] = Words /\ l \in Pods(a)
  BY DEF Extend, FetchTypes, TypeOK, Pods
<1>2. \A m \in Pods(a) \ {l} : at'[m] = at[m] /\ todo'[m] = todo[m] /\ m \in Lister
  BY DEF StepOf, Pods
<1>3. \A m \in Pods(a) \ {l} : ~Appending(m)
  BY <1>1 DEF WholeSlice, OneAppends, Appending
<1>4. \A m \in Pods(a) \ {l} : InHand(a, m)' /\ ~Appending(m)'
  BY <1>2, <1>3, NotInHand
<1>5. Pods(a)' = Pods(a)
  BY DEF Pods
<1>6. OneAppends(a)' /\ ~NoneStores(a)'
  BY <1>1, <1>4, <1>5 DEF OneAppends, NoneStores
<1>7. NoneStores(a)
  BY <1>1, <1>3 DEF NoneStores, Appending
<1>8. hand[l] = header[a] /\ Holds(header[a], heap[a], FilesDone(a))
  BY <1>1, <1>7 DEF WholeSlice, InHand
<1>9. FilesDone(a)' = FilesDone(a)
  BY <1>1, <1>2, DoneStays
<1>10. Holds(hand'[l], heap'[a], FilesDone(a) \cup Entries(l))
  BY <1>8, ExtendHolds
<1>11. InHand(a, l)'
  <2>1. Entries(l)' = Entries(l)
    BY <1>1 DEF Entries
  <2>2. Holds(hand[l], heap[a], FilesDone(a) \cup Entries(l))'
    BY <1>9, <1>10, <2>1 DEF Holds, First
  <2> QED
    BY <1>1, <2>2 DEF InHand
<1> QED
  BY <1>4, <1>5, <1>6, <1>11 DEF WholeSlice

LEMMA WholeStore ==
  ASSUME FetchTypes, NEW CONSTANT l \in Lister, NEW CONSTANT w \in Words, Store(l, w), StepOf(l),
         Of[l] \in Replicated, WholeSlice(Of[l])
  PROVE  WholeSlice(Of[l])'
<1> DEFINE a == Of[l]
<1> SUFFICES ASSUME ~raced'[a] PROVE WholeSlice(a)'
  BY DEF WholeSlice
<1>1. /\ UNCHANGED <<heap, found, hand, raced>> /\ at[l] = "store" /\ w \in todo[l]
      /\ l \in Pods(a) /\ a \in Archive
      /\ header[a] \in Header /\ hand[l] \in Header /\ hand[l][w] \in Nat
  BY FilesFetchAssumption, HeadersAreRecords DEF Store, FetchTypes, TypeOK, Pods
<1>2. \/ todo[l] = {w} /\ at'[l] = "done" /\ todo'[l] = Words
      \/ todo[l] # {w} /\ at'[l] = "store" /\ todo'[l] = todo[l] \ {w}
  <2>1. AfterWord(l, w, "store", "done")
    BY DEF Store
  <2> QED
    BY <1>1, <2>1, WordMoves DEF Ats
<1>3. \A m \in Pods(a) \ {l} : at'[m] = at[m] /\ todo'[m] = todo[m] /\ m \in Lister
  BY DEF StepOf, Pods
<1>4. \A m \in Pods(a) \ {l} : ~Appending(m)
  BY <1>1 DEF WholeSlice, OneAppends, Appending
<1>5. \A m \in Pods(a) \ {l} : InHand(a, m)' /\ ~Appending(m)'
  BY <1>3, <1>4, NotInHand
<1>6. Pods(a)' = Pods(a)
  BY DEF Pods
<1>7. OneAppends(a)'
  BY <1>5, <1>6 DEF OneAppends
<1>8. /\ header'[a] \in Header
      /\ \A v \in Words : header'[a][v] = IF v = w THEN hand[l][w] ELSE header[a][v]
  <2>1. header'[a] = [header[a] EXCEPT ![w] = hand[l][w]]
    BY <1>1 DEF Store, FetchTypes, TypeOK
  <2> QED
    BY <1>1, <2>1, WordIsSet
<1>9. /\ \A v \in Words \ todo[l] : header[a][v] = hand[l][v]
      /\ Holds(hand[l], heap[a], FilesDone(a) \cup Entries(l))
  BY <1>1 DEF WholeSlice, InHand
<1>10. CASE todo[l] = {w} /\ at'[l] = "done"
  <2>1. \A v \in Words : header'[a][v] = hand[l][v]
    BY <1>8, <1>9, <1>10
  <2>2. header'[a] = hand[l]
    BY <1>1, <1>8, <2>1, SameWords
  <2>3. FilesDone(a)' = FilesDone(a) \cup Entries(l)
    BY <1>1, <1>3, <1>10, DoneGrows
  <2>4. Holds(header[a], heap[a], FilesDone(a))'
    BY <1>1, <1>9, <2>2, <2>3 DEF Holds, First
  <2>5. InHand(a, l)'
    BY <1>10 DEF InHand
  <2> QED
    BY <1>5, <1>6, <1>7, <2>4, <2>5 DEF WholeSlice
<1>11. CASE todo'[l] = todo[l] \ {w} /\ at'[l] = "store"
  <2>1. ~NoneStores(a)'
    BY <1>1, <1>6, <1>11 DEF NoneStores
  <2>2. FilesDone(a)' = FilesDone(a)
    BY <1>1, <1>3, <1>11, DoneStays
  <2>3. \A v \in Words \ todo'[l] : header'[a][v] = hand'[l][v]
    BY <1>1, <1>8, <1>9, <1>11
  <2>4. Holds(hand[l], heap[a], FilesDone(a) \cup Entries(l))'
    BY <1>1, <1>9, <2>2 DEF Holds, First, Entries
  <2>5. InHand(a, l)'
    BY <1>11, <2>3, <2>4 DEF InHand
  <2> QED
    BY <1>5, <1>6, <1>7, <2>1, <2>5 DEF WholeSlice
<1> QED
  BY <1>2, <1>10, <1>11
-----------------------------------------------------------------------------
(* Listing the files: the result, and the whole command *)

LEMMA WholeInit == Init => FetchWhole
<1> SUFFICES ASSUME Init PROVE FetchWhole
  OBVIOUS
<1>1. \A l \in Lister : at[l] = "ls" /\ Of[l] \in Archive
  BY FilesFetchAssumption DEF Init
<1>2. \A a \in Archive : header[a] = Empty /\ heap[a] = << <<>> >> /\ fetch[a] = "running"
  BY DEF Init, NoHeaders, NoArrays
<1>3. \A a \in Archive : FilesDone(a) = {}
  BY <1>1 DEF FilesDone, Pods
<1>4. \A a \in Archive : Holds(header[a], heap[a], FilesDone(a))
  <2>1. \A a \in Archive : /\ header[a].ptr = 1 /\ header[a].len = 0 /\ header[a].cap = 0
                           /\ heap[a][1] = <<>>
    BY <1>2 DEF Empty
  <2>2. Len(<<>>) = 0 /\ First(<<>>, 0) = {} /\ 0 <= 0
    BY DEF First
  <2> QED
    BY <1>3, <2>1, <2>2 DEF Holds
<1>5. \A a \in Archive : WholeSlice(a)
  BY <1>1, <1>4 DEF WholeSlice, OneAppends, Appending, InHand, Pods
<1>6. WholeUnlessRaced
  BY <1>2 DEF WholeUnlessRaced
<1> QED
  BY <1>5, <1>6, FilesFetchAssumption DEF FetchWhole

\* A goroutine that steps is not of an archive that was fetched.
LEMMA FetchedStays ==
  ASSUME WholeUnlessRaced, NEW CONSTANT l \in Lister, StepOf(l)
  PROVE  WholeUnlessRaced'
<1> SUFFICES ASSUME NEW a \in Archive, fetch'[a] = "ok"
             PROVE  /\ \A m \in Pods(a) : at'[m] = "done"
                    /\ raced'[a] \/ listed'[a] =
                         UNION {{found'[m][i] : i \in DOMAIN found'[m]} : m \in Pods(a)}
  BY DEF WholeUnlessRaced, Pods
<1>1. fetch[a] = "ok" /\ listed'[a] = listed[a]
  BY DEF StepOf
<1>2. \A m \in Pods(a) : at[m] = "done" /\ m \in Lister
  BY <1>1 DEF WholeUnlessRaced, Pods
<1>3. l \notin Pods(a)
  BY <1>2 DEF StepOf
<1>4. \A m \in Pods(a) : at'[m] = at[m] /\ found'[m] = found[m]
  BY <1>2, <1>3 DEF StepOf
<1>5. raced'[a] = raced[a]
  BY <1>3 DEF StepOf, Pods
<1>6. {{found'[m][i] : i \in DOMAIN found'[m]} : m \in Pods(a)}
        = {{found[m][i] : i \in DOMAIN found[m]} : m \in Pods(a)}
  BY <1>4
<1> QED
  BY <1>1, <1>2, <1>4, <1>5, <1>6 DEF WholeUnlessRaced

LEMMA WholeFetched ==
  ASSUME FetchTypes, FetchWhole, NEW CONSTANT a \in Archive, Fetched(a)
  PROVE  WholeUnlessRaced'
<1>1. UNCHANGED locals /\ fetch \in [Archive -> {"running", "ok", "err", "crash"}]
      /\ listed \in [Archive -> SUBSET File]
  BY DEF Fetched, FetchTypes, TypeOK
<1>2. ASSUME NEW b \in Archive, b # a
      PROVE  fetch'[b] = fetch[b] /\ listed'[b] = listed[b]
  BY <1>1, <1>2 DEF Fetched
<1>3. ASSUME fetch'[a] = "ok"
      PROVE  /\ \A l \in Pods(a) : at[l] = "done"
             /\ raced[a] \/ listed'[a] =
                  UNION {{found[l][i] : i \in DOMAIN found[l]} : l \in Pods(a)}
  <2>1. /\ \A l \in Pods(a) : at[l] \in {"done", "failed"}
        /\ ~SomeFailed(a) /\ listed'[a] = Files(a)
    BY <1>1, <1>3 DEF Fetched
  <2>2. \A l \in Pods(a) : at[l] = "done"
    BY <2>1 DEF SomeFailed
  <2>3. CASE a \notin Replicated
    BY <2>1, <2>2, <2>3 DEF Files
  <2>4. CASE a \in Replicated /\ ~raced[a]
    <3> DEFINE array == heap[a][header[a].ptr]
    <3>1. Holds(header[a], heap[a], FilesDone(a))
      BY <2>2, <2>4 DEF FetchWhole, WholeSlice, NoneStores
    <3>2. /\ header[a].len <= Len(array) /\ First(array, header[a].len) = FilesDone(a)
          /\ header[a].len \in Nat /\ array \in Seq(Entry)
      BY <3>1, HeadersAreRecords DEF Holds, FetchTypes, TypeOK
    <3>3. \A i \in 1..header[a].len : Slice(a)[i] = array[i]
      BY <3>2 DEF Slice, Read
    <3>4. DOMAIN Slice(a) = 1..header[a].len
      BY DEF Slice
    <3>5. Files(a) = FilesDone(a)
      BY <2>4, <3>2, <3>3, <3>4 DEF Files, First
    <3>6. {m \in Pods(a) : at[m] = "done"} = Pods(a)
      BY <2>2
    <3> QED
      BY <2>1, <2>2, <3>5, <3>6 DEF FilesDone, Entries
  <2> QED
    BY <2>2, <2>3, <2>4
<1> QED
  BY <1>1, <1>2, <1>3 DEF FetchWhole, WholeUnlessRaced, locals, Pods

LEMMA WholeStep ==
  ASSUME FetchTypes, FetchWhole, Next
  PROVE  FetchWhole'
<1>1. ASSUME NEW l \in Lister, Step(l) PROVE FetchWhole'
  <2>1. StepOf(l)
    BY <1>1, StepFrame
  <2>2. WholeUnlessRaced'
    BY <2>1, FetchedStays DEF FetchWhole
  <2>3. Of[l] \in Replicated => WholeSlice(Of[l])'
    BY <1>1, <2>1, WholeListing, WholeLoad, WholeExtend, WholeStore DEF Step, FetchWhole
  <2>4. \A b \in Replicated : b # Of[l] => WholeSlice(b)'
    BY <2>1, WholeElsewhere DEF FetchWhole
  <2> QED
    BY <2>2, <2>3, <2>4 DEF FetchWhole
<1>2. ASSUME NEW a \in Archive, Fetched(a) PROVE FetchWhole'
  <2>1. WholeUnlessRaced'
    BY <1>2, WholeFetched
  <2>2. UNCHANGED locals
    BY <1>2 DEF Fetched
  <2>3. \A b \in Replicated : WholeSlice(b)'
    BY <2>2, WholeSame DEF FetchWhole, locals
  <2> QED
    BY <2>1, <2>3 DEF FetchWhole
<1> QED
  BY <1>1, <1>2 DEF Next

\* What holds of the lists while they are made, and holds again when they are
\* forgotten.
FetchInv == FetchTypes /\ FetchUnique /\ FetchWhole

LEMMA FetchInvInit == Init => FetchInv
BY TypesInit, UniqueInit, WholeInit DEF FetchInv

LEMMA FetchInvStep ==
  ASSUME FetchInv, [CopyNext]_copyVars
  PROVE  FetchInv'
<1>1. CASE FetchFiles
  BY <1>1, TypesStep, UniqueStep, WholeStep DEF FetchFiles, FetchInv
<1>2. CASE Pick
  <2>1. Init'
    BY <1>2 DEF Pick, Forgotten, Init, NoHeaders, NoArrays, Empty, Words
  <2>2. (Init => FetchInv)'
    BY FetchInvInit, PTL
  <2> QED
    BY <2>1, <2>2
<1>3. CASE UNCHANGED fetchVars
  <2>1. UNCHANGED <<header, heap, at, found, hand, todo, raced, listed, fetch>>
    BY <1>3 DEF fetchVars, locals
  <2>2. FetchTypes'
    BY <2>1 DEF FetchInv, FetchTypes, TypeOK
  <2>3. FetchUnique'
    BY <2>1 DEF FetchInv, FetchUnique, Distinct
  <2>4. FetchWhole'
    <3>1. \A b \in Replicated : WholeSlice(b)'
      BY <2>1, WholeSame DEF FetchInv, FetchWhole
    <3>2. WholeUnlessRaced'
      BY <2>1 DEF FetchInv, FetchWhole, WholeUnlessRaced, Pods
    <3> QED
      BY <3>1, <3>2 DEF FetchWhole
  <2> QED
    BY <2>2, <2>3, <2>4 DEF FetchInv
<1>4. FetchFiles \/ Pick \/ UNCHANGED fetchVars
  BY DEF CopyNext, PickNone, Caller, FilesFetched, Wait, StopApp, Report, Display, RunApp, Tick,
         Redraw, CtrlC, LoopEnds, SendStop, CopyOf, StartCopy, StatSource, AddWatch, CopyStep,
         copyVars
<1> QED
  BY <1>1, <1>2, <1>3, <1>4

LEMMA FetchInvariant == CopySpec => []FetchInv
<1>1. CopyInit => FetchInv
  BY FetchInvInit DEF CopyInit
<1> QED
  BY <1>1, FetchInvStep, PTL DEF CopySpec

\* However the goroutines that list a statefulset's pods race, no file is in
\* their slice twice.
THEOREM ListsHaveNoFileTwice == CopySpec => []NoFileTwice
<1>1. FetchInv => NoFileTwice
  BY UniqueSlice DEF FetchInv
<1> QED
  BY <1>1, FetchInvariant, PTL

\* An archive that was fetched without an error has every pod's list, and all
\* of their files unless two appends have overlapped.
THEOREM ListsAreWhole == CopySpec => []WholeUnlessRaced
<1>1. FetchInv => WholeUnlessRaced
  BY DEF FetchInv, FetchWhole
<1> QED
  BY <1>1, FetchInvariant, PTL

-----------------------------------------------------------------------------
(* CopyTypeOK *)

CopyTypes ==
  /\ phase \in {"fetch", "pick", "copy", "stop", "report", "done", "fatal", "dead"}
  /\ seen \in [File -> Seq(File)]
  /\ screen \in {"free", "held"}
  /\ runner \in {"none", "start", "loop", "send"}
  /\ ticker \in {"none", "select", "update"}

LEMMA CopyTypesInit == CopyInit => CopyTypes
<1> SUFFICES ASSUME CopyInit PROVE CopyTypes
  OBVIOUS
<1>1. seen \in [File -> Seq(File)]
  BY DEF CopyInit
<1> QED
  BY <1>1 DEF CopyInit, CopyTypes

LEMMA CopyTypesStep ==
  ASSUME CopyTypes, CopyInv, [CopyNext]_copyVars
  PROVE  CopyTypes'
<1>1. CASE FetchFiles
  BY <1>1 DEF FetchFiles, caller, copies, display, CopyTypes
<1>2. CASE Pick
  BY <1>2 DEF Pick, copies, CopyTypes
<1>3. CASE PickNone \/ FilesFetched \/ Wait
  BY <1>3 DEF PickNone, FilesFetched, Wait, AfterWait, copies, display, CopyTypes
<1>4. CASE StopApp \/ Report
  BY <1>4 DEF StopApp, Report, copies, display, CopyTypes
<1>5. CASE Display
  BY <1>5 DEF Display, RunApp, Tick, Redraw, CtrlC, LoopEnds, SendStop, caller, copies, CopyTypes
<1>6. ASSUME NEW f \in File, CopyOf(f) PROVE CopyTypes'
  <2>1. watches \in Seq(File)
    BY DEF CopyInv, WatchLists, WatchList
  <2> QED
    BY <1>6, <2>1 DEF CopyOf, StartCopy, StatSource, AddWatch, CopyStep, caller, display, CopyTypes
<1>7. CASE UNCHANGED copyVars
  BY <1>7 DEF copyVars, caller, copies, display, CopyTypes
<1> QED
  BY <1>1, <1>2, <1>3, <1>4, <1>5, <1>6, <1>7 DEF CopyNext, Caller

\* The lists, the copies and the display keep their types.
THEOREM CopyTypesCorrect == CopySpec => []CopyTypeOK
<1>1. FetchInv /\ CopyInv /\ CopyTypes => CopyTypeOK
  <2> SUFFICES ASSUME FetchInv, CopyInv, CopyTypes PROVE CopyTypeOK
    OBVIOUS
  <2>1. TypeOK
    BY DEF FetchInv, FetchTypes
  <2>2. /\ picked \in SUBSET File /\ doing \in [File -> CopyAts \cup {"idle"}]
        /\ progress \in [File -> 0..Size] /\ dst \in [File -> 0..Before]
    BY DEF CopyInv, Copies, Doings
  <2>3. watches \in Seq(File)
    BY DEF CopyInv, WatchLists, WatchList
  <2>4. reported \in Seq(File \X (0..Size))
    <3>1. CASE reported = <<>>
      BY <3>1
    <3>2. CASE reported # <<>>
      <4>1. reported = Lines
        BY <3>2 DEF CopyInv, Reports
      <4>2. \A i \in 1..Len(watches) :
              <<watches[i], progress[watches[i]]>> \in File \X (0..Size)
        BY <2>2, <2>3
      <4>3. Lines = [i \in 1..Len(watches) |-> <<watches[i], progress[watches[i]]>>]
        BY <2>3 DEF Lines
      <4>4. Len(watches) \in Nat
        BY <2>3
      <4> QED
        BY <4>1, <4>2, <4>3, <4>4
    <3> QED
      BY <3>1, <3>2
  <2> QED
    BY <2>1, <2>2, <2>3, <2>4 DEF CopyTypes, CopyTypeOK
<1> QED
  BY <1>1, CopyTypesInit, CopyTypesStep, Invariant, FetchInvariant, PTL DEF CopySpec
=============================================================================
