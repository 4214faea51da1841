------------------------------ MODULE FilesFetch ------------------------------
(***************************************************************************)
(* Listing the files of archives (schema/archive.go FilesFetch, called for *)
(* every archive at once by schema/archiveSet.go FilesFetch).  A pod or a  *)
(* local archive is one list.  A statefulset is a list per pod, each in a  *)
(* goroutine that appends to one slice, without a lock: the slice's header *)
(* is three words that are loaded and stored one by one.                   *)
(***************************************************************************)
EXTENDS Naturals, Sequences, FiniteSets

CONSTANTS
  Archive,     \* the archives of the set
  Lister,      \* who lists: the pods of statefulsets, and archives of one list
  Of,          \* Of[l]: the archive that l lists
  Replicated,  \* the archives of the statefulset scheme
  Local,       \* the archives of the local scheme
  Names,       \* Names[l]: the times of the names in l's folder, in ls's order
  NoDate,      \* the time of a name that carries none
  Nil, Junk    \* an entry of an array nobody wrote; one read outside an array

File  == UNION {{<<l, k>> : k \in DOMAIN Names[l]} : l \in Lister}
Words == {"ptr", "len", "cap"}
Pods(a) == {l \in Lister : Of[l] = a}

ASSUME FilesFetchAssumption ==
  /\ Of \in [Lister -> Archive] /\ DOMAIN Names = Lister
  /\ \A l \in Lister : Names[l] \in Seq(Nat \cup {NoDate})
  /\ NoDate \notin Nat
  /\ Replicated \subseteq Archive /\ Local \subseteq Archive \ Replicated
  /\ \A l, m \in Lister : Of[l] = Of[m] /\ l # m => Of[l] \in Replicated
  /\ Nil \notin File /\ Junk \notin File

VARIABLES
  header,  \* header[a]: the words of the slice that a's goroutines share
  heap,    \* heap[a]: the arrays that were made for it
  at,      \* at[l]: where the goroutine is
  found,   \* found[l]: the files of podArchive.Files
  hand,    \* hand[l]: the words the goroutine has in hand
  todo,    \* todo[l]: those it has still to load, or to store
  listed,  \* listed[a]: the Files of the archive, sorted by time
  fetch,   \* fetch[a]: what FilesFetch of the archive has come to
  raced    \* history: two appends of the archive have overlapped

locals    == <<header, heap, at, found, hand, todo, raced>>
fetchVars == <<locals, listed, fetch>>

Entry  == File \cup {Nil, Junk}
Header == [ptr : Nat, len : Nat, cap : Nat]
Empty  == [ptr |-> 1, len |-> 0, cap |-> 0]

\* An empty slice, to which the goroutines will append; its array has no room.
NoHeaders == [a \in Archive |-> Empty]
NoArrays  == [a \in Archive |-> << <<>> >>]

Init ==
  /\ header = NoHeaders /\ heap = NoArrays
  /\ at = [l \in Lister |-> "ls"] /\ found = [l \in Lister |-> <<>>]
  /\ hand = [l \in Lister |-> Empty] /\ todo = [l \in Lister |-> Words]
  /\ raced = [a \in Archive |-> FALSE]
  /\ listed = [a \in Archive |-> {}] /\ fetch = [a \in Archive |-> "running"]

-----------------------------------------------------------------------------
(* One goroutine *)

\* Mutant: a list that is asked for again is added to the first.
DatedTwice(l, n) ==
  {SelectSeq([k \in 1..(2 * n) |-> <<l, IF k > n THEN k - n ELSE k>>],
             LAMBDA f : Names[l][f[2]] # NoDate)}

\* The list of the files of the first n names in a folder, those with a date,
\* in ls's order.
Dated(l, n) ==
  LET dated == {k \in 1..n : Names[l][k] # NoDate}
  IN {list \in [1..Cardinality(dated) -> {<<l, k>> : k \in dated}] :
        \A i, j \in DOMAIN list : i < j => list[i][2] < list[j][2]}

\* The names a pod's list may bring: a stream that breaks cuts it short.
Lengths(l) == IF Of[l] \in Local THEN {Len(Names[l])} ELSE 0..Len(Names[l])

\* Ls, or ReadDir, and TimestampParseFromName of each name.  A list of one is
\* all its archive has.
ListFiles(l) ==
  /\ at[l] = "ls"
  /\ at' = [at EXCEPT ![l] = IF Of[l] \in Replicated THEN "load" ELSE "done"]
  /\ \E n \in Lengths(l) : \E list \in Dated(l, n) : found' = [found EXCEPT ![l] = list]
  /\ UNCHANGED <<header, heap, hand, todo, listed, fetch, raced>>

\* The pod is not found or refuses; its ls complains and ExecSync never
\* returns; a local folder that is not there ends the process.
ListFails(l) ==
  /\ at[l] = "ls"
  /\ at' \in {[at EXCEPT ![l] = end] :
                end \in IF Of[l] \in Local THEN {"fatal"} ELSE {"failed", "hung"}}
  /\ UNCHANGED <<header, heap, found, hand, todo, listed, fetch, raced>>

Appending(l) == at[l] \in {"append", "store"} \/ (at[l] = "load" /\ todo[l] # Words)

Overlaps(l) == \E m \in Pods(Of[l]) \ {l} : Appending(m)

\* What follows a word: the next one, or the next step with all words to do.
AfterWord(l, w, from, to) ==
  IF todo[l] = {w}
  THEN at' = [at EXCEPT ![l] = to] /\ todo' = [todo EXCEPT ![l] = Words]
  ELSE at' = [at EXCEPT ![l] = from] /\ todo' = [todo EXCEPT ![l] = @ \ {w}]

\* files = append(files, ...): the header is read, a word at a time ...
Load(l, w) ==
  /\ at[l] = "load" /\ w \in todo[l]
  /\ hand' = [hand EXCEPT ![l][w] = header[Of[l]][w]]
  /\ AfterWord(l, w, "load", "append")
  /\ raced' = [raced EXCEPT ![Of[l]] = @ \/ Overlaps(l)]
  /\ UNCHANGED <<header, heap, found, listed, fetch>>

Read(array, i) == IF i \in DOMAIN array THEN array[i] ELSE Junk

\* The room of a new array: what is needed or twice what there was, rounded up
\* to the allocator's next size (for at most 16 entries of 8 bytes).
Room(cap, need) ==
  LET n == IF need > 2 * cap THEN need ELSE 2 * cap
  IN IF n <= 4 THEN n ELSE n + (n % 2)

\* The array with the new entries behind its first len.
Extended(array, len, new, room) ==
  [i \in 1..room |-> IF i > len /\ i <= len + Len(new) THEN new[i - len]
                     ELSE IF i <= len THEN Read(array, i) ELSE Nil]

\* The same in place: what lies outside of the array is not written to it.
Overwritten(array, len, new) ==
  [i \in DOMAIN array |-> IF i > len /\ i <= len + Len(new) THEN new[i - len] ELSE array[i]]

\* ... the entries are put behind those there are, in a new array if there
\* is no room ...
Extend(l) ==
  LET a == Of[l]
      h == hand[l]
      need == h.len + Len(found[l])
      array == heap[a][h.ptr]
  IN /\ at[l] = "append" /\ at' = [at EXCEPT ![l] = "store"]
     /\ IF need <= h.cap
        THEN /\ heap' = [heap EXCEPT ![a][h.ptr] = Overwritten(array, h.len, found[l])]
             /\ hand' = [hand EXCEPT ![l].len = need]
        ELSE LET room == Room(h.cap, need)
             IN /\ heap' = [heap EXCEPT ![a] = Append(@, Extended(array, h.len, found[l], room))]
                /\ hand' = [hand EXCEPT ![l] =
                     [ptr |-> Len(heap[a]) + 1, len |-> need, cap |-> room]]
     /\ UNCHANGED <<header, found, todo, listed, fetch, raced>>

\* ... and the header is written, a word at a time.
Store(l, w) ==
  /\ at[l] = "store" /\ w \in todo[l]
  /\ header' = [header EXCEPT ![Of[l]][w] = hand[l][w]]
  /\ AfterWord(l, w, "store", "done")
  /\ UNCHANGED <<heap, found, hand, listed, fetch, raced>>

-----------------------------------------------------------------------------
(* The archive *)

\* The slice that Wait leaves.
Slice(a) == [i \in 1..header[a].len |-> Read(heap[a][header[a].ptr], i)]

\* Mutant: a pod that failed is passed over.
IgnoreFailure(a) == FALSE

SomeFailed(a) == \E l \in Pods(a) : at[l] = "failed"

Files(a) ==
  IF a \in Replicated THEN {Slice(a)[i] : i \in DOMAIN Slice(a)}
  ELSE UNION {{found[l][i] : i \in DOMAIN found[l]} : l \in Pods(a)}

AllFiles(a) == Files(a) \subseteq File

\* FilesFetch of an archive: Wait, the sort and a.Files.  An entry that is no
\* file ends the process as soon as it is looked at.
Fetched(a) ==
  /\ fetch[a] = "running"
  /\ \A l \in Pods(a) : at[l] \in {"done", "failed"}
  /\ IF SomeFailed(a)
     THEN fetch' = [fetch EXCEPT ![a] = "err"] /\ UNCHANGED listed
     ELSE IF AllFiles(a)
     THEN fetch' = [fetch EXCEPT ![a] = "ok"] /\ listed' = [listed EXCEPT ![a] = Files(a)]
     ELSE fetch' = [fetch EXCEPT ![a] = "crash"] /\ UNCHANGED listed
  /\ UNCHANGED locals

Step(l) ==
  \/ ListFiles(l) \/ ListFails(l) \/ Extend(l)
  \/ \E w \in Words : Load(l, w) \/ Store(l, w)

Next == (\E l \in Lister : Step(l)) \/ (\E a \in Archive : Fetched(a))

Spec == Init /\ [][Next]_fetchVars

-----------------------------------------------------------------------------
(* Properties *)

Ats == {"ls", "load", "append", "store", "done", "failed", "hung", "fatal"}

TypeOK ==
  /\ header \in [Archive -> Header]
  /\ \A a \in Archive : heap[a] \in Seq(Seq(Entry)) /\ header[a].ptr \in DOMAIN heap[a]
  /\ at \in [Lister -> Ats]
  /\ found \in [Lister -> Seq(File)]
  /\ hand \in [Lister -> Header]
  /\ \A l \in Lister : hand[l].ptr \in DOMAIN heap[Of[l]]
  /\ todo \in [Lister -> (SUBSET Words) \ {{}}]
  /\ listed \in [Archive -> SUBSET File]
  /\ fetch \in [Archive -> {"running", "ok", "err", "crash"}]
  /\ raced \in [Archive -> BOOLEAN]

\* However the goroutines race, no file is in the slice twice: a snapshot may
\* miss from the picker, but none is offered as two.
NoFileTwice ==
  \A a \in Archive : \A i, j \in DOMAIN Slice(a) :
    i # j /\ Slice(a)[i] \in File => Slice(a)[i] # Slice(a)[j]

\* An archive that was fetched without an error has a list of each of its
\* pods, and every file of those lists unless two appends overlapped.
WholeUnlessRaced ==
  \A a \in Archive : fetch[a] = "ok" =>
    /\ \A l \in Pods(a) : at[l] = "done"
    /\ raced[a] \/ listed[a] = UNION {{found[l][i] : i \in DOMAIN found[l]} : l \in Pods(a)}

\* "found %s/%s": every file that was found in a folder is in the list.
AllFilesListed ==
  \A a \in Archive : fetch[a] = "ok" =>
    \A l \in Pods(a) : \A i \in DOMAIN found[l] : found[l][i] \in listed[a]
=============================================================================
