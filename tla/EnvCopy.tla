------------------------------- MODULE EnvCopy -------------------------------
(***************************************************************************)
(* Copying a snapshot to another environment (schema/envCopy.go): list the *)
(* files, let the user pick a snapshot, copy its files all at once under a *)
(* progress display (ui/progressWatcher.go), stop the display and report.  *)
(* What a run that was killed or failed has written stays: a run may find  *)
(* any part of a file at its destination.                                  *)
(* Listing is FilesFetch, a copy is FileCopyAbs.                           *)
(***************************************************************************)
EXTENDS FilesFetch, FileCopyAbs

CONSTANTS
  Dst,      \* Dst[a]: the scheme of the destination archive, "none" if there is none
  Size,     \* chunks of every file
  Leftovers \* what earlier runs may have left at the destination

ASSUME EnvCopyAssumption ==
  /\ Dst \in [Archive -> {"local", "pod", "statefulset", "host", "none"}]
  /\ Size \in Nat /\ Leftovers \subseteq [File -> 0..(Size + 1)]

VARIABLES
  phase,     \* where the calling goroutine is
  picked,    \* the files of srcArchiveFileSet
  doing,     \* doing[f]: where the copy of f is
  progress,  \* progress[f]: Watch.Progress of f
  dst,       \* dst[f]: chunks of f at its destination, or Before: there is none
  watches,   \* ProgressWatcher.Watches
  seen,      \* seen[f]: the watches AddWatch of f has read
  screen,    \* whether the display's application holds the terminal
  runner,    \* the goroutine that runs the application
  ticker,    \* the goroutine that redraws it every tenth of a second
  reported   \* what was reported at the end

display  == <<screen, runner, ticker>>
copies   == <<doing, progress, dst, watches, seen>>
caller   == <<phase, picked, reported>>
copyVars == <<fetchVars, caller, copies, display>>

Before == Size + 1

\* The variables of FilesFetch once its result was used.
Forgotten ==
  /\ header' = NoHeaders /\ heap' = NoArrays
  /\ at' = [l \in Lister |-> "ls"] /\ found' = [l \in Lister |-> <<>>]
  /\ hand' = [l \in Lister |-> Empty] /\ todo' = [l \in Lister |-> Words]
  /\ raced' = [a \in Archive |-> FALSE]
  /\ listed' = [a \in Archive |-> {}] /\ fetch' = [a \in Archive |-> "running"]

CopyInit ==
  /\ Init /\ dst \in Leftovers
  /\ phase = "fetch" /\ picked = {} /\ reported = <<>>
  /\ doing = [f \in File |-> "idle"] /\ progress = [f \in File |-> 0]
  /\ watches = <<>> /\ seen = [f \in File |-> <<>>]
  /\ screen = "free" /\ runner = "none" /\ ticker = "none"

\* The process is there: it did not end, by itself or by one of its goroutines.
Alive ==
  /\ phase \notin {"done", "fatal", "dead"}
  /\ \A l \in Lister : at[l] # "fatal"
  /\ \A a \in Archive : fetch[a] # "crash"

-----------------------------------------------------------------------------
(* Picking *)

FetchFiles == phase = "fetch" /\ Next /\ UNCHANGED <<caller, copies, display>>

\* ArchiveSet.PickSnapshot: FilesFetch of all archives has returned.
FilesFetched ==
  /\ phase = "fetch" /\ \A a \in Archive : fetch[a] \in {"ok", "err"}
  /\ phase' = IF (\E a \in Archive : fetch[a] = "err") \/ \A a \in Archive : listed[a] = {}
              THEN "fatal" ELSE "pick"
  /\ UNCHANGED <<fetchVars, picked, reported, copies, display>>

Time(f) == Names[f[1]][f[2]]

\* A file of each archive that has one until t, the most recent.
IsSnapshot(files, t) ==
  \A a \in Archive :
    LET older == {f \in listed[a] : Time(f) <= t}
        chosen == files \cap listed[a]
    IN IF older = {} THEN chosen = {}
       ELSE \E f \in older : chosen = {f} /\ \A g \in older : Time(g) <= Time(f)

Offered == UNION {listed[a] : a \in Archive}

\* The user picks a row; the display is started.  The lists are not used again.
Pick ==
  /\ phase = "pick" /\ phase' = "copy"
  /\ \E f \in Offered : picked' \in {s \in SUBSET Offered : IsSnapshot(s, Time(f))}
  /\ runner' = "start" /\ ticker' = "select"
  /\ Forgotten /\ UNCHANGED <<reported, copies, screen>>

PickNone ==
  /\ phase = "pick" /\ phase' = "fatal"
  /\ UNCHANGED <<fetchVars, picked, reported, copies, display>>

-----------------------------------------------------------------------------
(* One copy *)

\* The loop over the picked files; one without a destination ends the process.
StartCopy(f) ==
  /\ phase = "copy" /\ f \in picked /\ doing[f] = "idle"
  /\ IF Dst[Of[f[1]]] = "none"
     THEN phase' = "fatal" /\ UNCHANGED doing
     ELSE doing' = [doing EXCEPT ![f] = "stat"] /\ UNCHANGED phase
  /\ UNCHANGED <<fetchVars, picked, reported, progress, dst, watches, seen, display>>

Copy(f) == [at |-> doing[f], written |-> dst[f], progress |-> progress[f]]

\* The source is found, or not, or that of a pod hangs; AddWatch of a source
\* that is found begins to append to the watches ...
StatSource(f) ==
  /\ \E end \in CopyAts :
       /\ CopyStat(Copy(f), [Copy(f) EXCEPT !.at = end])
       /\ end = "hung" => Of[f[1]] \notin Local
       /\ doing' = [doing EXCEPT ![f] = end]
       /\ seen' = IF end = "watch" THEN [seen EXCEPT ![f] = watches] ELSE seen
  /\ UNCHANGED <<fetchVars, caller, progress, dst, watches, display>>

\* ... and has appended; a watch of another copy added since is lost.
AddWatch(f) ==
  /\ \E end \in CopyAts :
       /\ CopyWatch(Copy(f), [Copy(f) EXCEPT !.at = end])
       /\ doing' = [doing EXCEPT ![f] = end]
  /\ watches' = Append(seen[f], f)
  /\ UNCHANGED <<fetchVars, caller, progress, dst, seen, display>>

CopyStates == [at : CopyAts, written : 0..Before, progress : 0..Size]

\* The steps of a copy after that.
CopyStep(f) ==
  /\ doing[f] \in CopyAts \ {"stat", "watch"}
  /\ \E d \in CopyStates :
       /\ FileCopyStep(Copy(f), d, Size, Dst[Of[f[1]]] = "local")
       /\ doing' = [doing EXCEPT ![f] = d.at]
       /\ dst' = [dst EXCEPT ![f] = d.written]
       /\ progress' = [progress EXCEPT ![f] = d.progress]
  /\ UNCHANGED <<fetchVars, caller, watches, seen, display>>

-----------------------------------------------------------------------------
(* The display *)

\* App.Run takes the terminal; without one Run panics.
RunApp ==
  /\ runner = "start"
  /\ \/ runner' = "loop" /\ screen' = "held" /\ UNCHANGED phase
     \/ phase' = "dead" /\ UNCHANGED <<runner, screen>>
  /\ UNCHANGED <<fetchVars, picked, reported, copies, ticker>>

Tick ==
  /\ ticker = "select" /\ ticker' = "update"
  /\ UNCHANGED <<fetchVars, caller, copies, screen, runner>>

\* The loop runs updateWatches.  A slice that a copy is appending to may have
\* an entry that is not written yet: what it does then is undefined.
Redraw ==
  /\ runner = "loop" /\ ticker = "update" /\ ticker' = "select"
  /\ \/ UNCHANGED phase
     \/ (\E f \in File : doing[f] = "watch") /\ phase' = "dead"
  /\ UNCHANGED <<fetchVars, picked, reported, copies, screen, runner>>

\* Ctrl-C ends the application, and nothing else.
CtrlC ==
  /\ screen = "held" /\ screen' = "free"
  /\ UNCHANGED <<fetchVars, caller, copies, runner, ticker>>

LoopEnds ==
  /\ runner = "loop" /\ screen = "free" /\ runner' = "send"
  /\ UNCHANGED <<fetchVars, caller, copies, screen, ticker>>

\* stopCh is taken between two updates only.
SendStop ==
  /\ runner = "send" /\ ticker = "select"
  /\ runner' = "none" /\ ticker' = "none"
  /\ UNCHANGED <<fetchVars, caller, copies, screen>>

-----------------------------------------------------------------------------
(* The end *)

\* Mutants: errors are not looked at; the copies are not waited for.
AfterWaitBlindly == "stop"
NotWaiting == {"setup", "copy", "failing", "ok", "err"}

AfterWait == IF \E f \in picked : doing[f] = "err" THEN "fatal" ELSE "stop"

Returned == {"ok", "err"}

\* errGroup.Wait, when every picked file has its goroutine.
Wait ==
  /\ phase = "copy" /\ \A f \in picked : doing[f] \in Returned
  /\ phase' = AfterWait
  /\ UNCHANGED <<fetchVars, picked, reported, copies, display>>

\* Mutant: the display is stopped and waited for.
StopAndJoin ==
  /\ phase = "stop" /\ runner = "none" /\ phase' = "report" /\ screen' = "free"
  /\ UNCHANGED <<fetchVars, picked, reported, copies, runner, ticker>>

\* App.Stop: an application that has not begun to run yet is not stopped.
StopApp ==
  /\ phase = "stop" /\ phase' = "report" /\ screen' = "free"
  /\ UNCHANGED <<fetchVars, picked, reported, copies, runner, ticker>>

\* Mutant: a chunk too much is reported.
LinesOff == [i \in DOMAIN watches |-> <<watches[i], progress[watches[i]] + 1>>]

Lines == [i \in DOMAIN watches |-> <<watches[i], progress[watches[i]]>>]

Report ==
  /\ phase = "report" /\ phase' = "done" /\ reported' = Lines
  /\ UNCHANGED <<fetchVars, picked, copies, display>>

CopyOf(f) == StartCopy(f) \/ StatSource(f) \/ AddWatch(f) \/ CopyStep(f)
Display == RunApp \/ Tick \/ Redraw \/ CtrlC \/ LoopEnds \/ SendStop
Caller == FilesFetched \/ Wait \/ StopApp \/ Report

CopyNext ==
  \/ Alive /\ (FetchFiles \/ Pick \/ PickNone \/ Caller \/ Display)
  \/ Alive /\ \E f \in File : CopyOf(f)

\* The goroutines that list and copy run, and so does the caller; a copy that
\* is failing may stay where it is.  Nothing is assumed of the user or of the
\* display.
CopySpec ==
  /\ CopyInit /\ [][CopyNext]_copyVars
  /\ WF_copyVars(Alive /\ FetchFiles)
  /\ WF_copyVars(Alive /\ \E f \in File : doing[f] # "failing" /\ CopyOf(f))
  /\ WF_copyVars(Alive /\ Caller)

-----------------------------------------------------------------------------
(* Properties *)

CopyTypeOK ==
  /\ TypeOK
  /\ phase \in {"fetch", "pick", "copy", "stop", "report", "done", "fatal", "dead"}
  /\ picked \in SUBSET File
  /\ doing \in [File -> CopyAts \cup {"idle"}]
  /\ progress \in [File -> 0..Size] /\ dst \in [File -> 0..Before]
  /\ watches \in Seq(File) /\ seen \in [File -> Seq(File)]
  /\ screen \in {"free", "held"}
  /\ runner \in {"none", "start", "loop", "send"}
  /\ ticker \in {"none", "select", "update"}
  /\ reported \in Seq(File \X (0..Size))

\* A command that is done has whole files of the snapshot at the destinations
\* that are local, also where an earlier run left a part of one.
DoneMeansWhole ==
  phase = "done" => \A f \in picked : Dst[Of[f[1]]] = "local" => dst[f] = Size

\* "report at the end": what is reported is the final state of a copy, of a
\* picked file, and of each one once at most; copies that add their watches at
\* the same time may be missing.
ReportIsFinal ==
  \A i \in DOMAIN reported :
    /\ reported[i][1] \in picked /\ reported[i][2] = Size
    /\ \A j \in DOMAIN reported : reported[j][1] = reported[i][1] => i = j

\* Unless the user is asked, a list or a copy hangs or a copy fails, the command
\* ends: the display, which may be stuck in its stop channel, never holds it up.
CommandEnds ==
  <>[](\/ ~Alive \/ phase = "pick"
       \/ \E l \in Lister : at[l] = "hung"
       \/ \E f \in File : doing[f] \in {"failing", "hung"})
=============================================================================
