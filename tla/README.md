# jerriedr: specifications, model checks and proofs

jerriedr is a command-line tool that backs up and restores *jerrie* services:
it asks services for snapshots, lists and copies the archive files, and restores
an environment from a chosen snapshot. All of its own code is Go under `src/cmd`
(about 3500 lines); everything else is vendored. The repository has no tests.
This directory models the core of that code in TLA+, checks it with TLC and
proves the safety properties with TLAPS.

## 1. The system

| Component | State | Operations | Talks to |
|---|---|---|---|
| EnvRestore (`schema/envRestore.go`) | the picked files, the phase it is in | pick, prepare all endpoints, stage and restore one file at a time, reset raft and restart | ServiceSet, Service, ArchiveSet |
| Service (`schema/service.go`) | what a spec says of it | StartStop, WaitForDrain, RequestsInFlight, Reset, Stage, Restore, RAFTReset, Snap, fan-out over pods | servers by HTTP, Kubernetes services, kube commands |
| ServiceSet (`schema/serviceSet.go`) | the services | ServiceGetByName, DoOncePerEndpoint | Service |
| ArchiveSet and picker (`schema/archiveSet.go`, `archiveFileSet.go`, `archiveFileSetPicker.go`, `archive.go`) | files per archive, seek time, last set, rows | FilesFetch, SeekTo, ArchiveFileSetGetNext, ArchiveSetPut, render, Select | kube `ls`, local directories, the terminal |
| kube commands (`kube/kube.go`) | pipes between goroutines | Exec, ExecSync, Ls, MkDir, Ln, Rm, Stat, MD5Sum | the Kubernetes exec stream |
| FileRead (`kube/kube.go`) | bytes so far, hash | stat, hash, resumed `tail` | Exec, ExecSync |
| ArchiveFileCopy (`schema/archiveFileCopy.go`) | two pipes, three goroutines, a file | copy from a pod or a local file to a local file, pod or statefulset; the help names hosts too | FileRead, FileWrite, ProgressWatcher |
| Archive.FilesFetch (`schema/archive.go`) | a slice that the goroutines of a statefulset's pods share | list each pod, append, sort | kube `ls`, local directories |
| EnvCopy (`schema/envCopy.go`) | the picked files, an error group | list, pick, copy all files at once, report | ArchiveSet, ArchiveFileCopy, ProgressWatcher |
| ProgressWatcher (`ui/progressWatcher.go`) | the watches, a stop channel, an application that holds the terminal | AddWatch, redraw, stop | the copies, the terminal |
| EnvSnap and Snap (`schema/envSnap.go`, `schema/service.go`) | one goroutine per service | parse, forward, post, join | Service, port forwards |
| Port forward (`kube/kube.go`) | three goroutines, a stop and a ready channel | forward, stop on Ctrl-C | the Kubernetes API |
| Specs (`Service.Parse`, `Archive.Parse`, `ServicePodGet`, `PodArchiveGet`) | none | parse, derive those of a pod | every command |
| Raft index commands, time filters, tar helpers, log streams, liveness server | | | see section 7 |

The hard behaviours: goroutines joined by `errgroup.Wait` and unbuffered
`io.Pipe`s; a counter added to by several goroutines without a lock; requests
whose reply is lost after the server acted; errors that are logged and then
overwritten; a command that dies in the middle and is run again on servers that
hold a part of another snapshot; files that change while they are read; time
boundaries of the picker. `PROJECT.json` lists each one at its line under
"hazards", with the properties that watch it or why none does.

What makes each component correct:

- **EnvRestore**: a server is emptied before it loads anything, unless it answers
  with the one error that the code ignores; it never mixes two snapshots; each file is loaded once, on the servers it is meant for, and
  the command says it is done only then; it always ends.
- **Draining**: "drained" means that every pod answered, and answered zero.
- **Picker**: every snapshot is in some row; rows go back in time; what looks good
  is complete.
- **Commands on pods**: a call returns, its output is whole, a complaint is an
  error.
- **FileRead**: success means the bytes that were hashed; an untouched file is
  copied in the end.
- **ArchiveFileCopy**: success means that all was read, and of a local file that it
  is whole and flushed; the pipes never hold each other up.
- **FilesFetch**: no file is listed twice, and all are listed where no goroutine
  got in the way of another.
- **EnvCopy**: done means whole local files, over whatever an earlier run left; what is
  reported is final; the display never holds the command up.
- **EnvSnap**: done means that every server named was asked, and none is asked
  while a spec is wrong.
- **Specs**: a service has the fields its spec gives; what is derived for a pod
  can be read back.

## 2. Modules

| Module | Models | Correspondence |
|---|---|---|
| `EnvRestore` | EnvRestore, DoOncePerEndpoint and the Service operations it drives | one action per Service operation (`StartStop`, `WaitForDrain`, `Reset`, `StageLocal`/`StagePod`/`StageHost`, `Restore`, `RAFTReset`), `ForEachServicePod` for the join of a fan-out, `Pick`, `Prepared`, `NextFile`, `Restarted`, `Fatal` for the calling goroutine, `Crash` for a killed command; `ReplyIgnored` is the error that Reset drops |
| `RestoreAbs` | what a restore promises: wipe, load in order, done only when all is loaded; a server whose error to the wipe was ignored is `excused` and may keep what it held | abstract specification, implemented by `EnvRestore` through `Promise` and `KeepsPromise` |
| `Drain` | StartStop, WaitForDrain, RequestsInFlight | one process per pod goroutine, whose `n += m` is `LoadSum` then `StoreSum`; clients are `Arrive` and `Finish` |
| `ArchiveSet` | the walk of the picker over the files, its status and selection | a list of files per archive, sorted by most recent (`FilesFetch`, `Lists`); `ArchiveFileSetGetNext` is one turn of the loop in ArchiveSetPut, `Highlight`, `Select`, `Stop` are the user |
| `PodExec` | Exec and ExecSync | one action per step of each goroutine; a pipe is empty, offered or closed |
| `FileRead` | FileRead, Stat, MD5Sum | one action per command and per read; `Grow`, `Cut`, `Remove` are the pod |
| `ArchiveFileCopy` | ArchiveFileCopy, FileWrite | the caller (`OpenSource`, `AddWatch`, `Setup`, `Wait`), the source, progress and destination goroutines; a pod's stdin is `CopyStdin` |
| `FilesFetch` | Archive.FilesFetch of all archives at once | a goroutine per lister: `ListFiles`, then the append as `Load` (a word of the slice's header), `Extend`, `Store` (a word); `Fetched` is Wait, the sort and the result |
| `FileCopyAbs` | what a copy promises to its caller | abstract specification, implemented by `ArchiveFileCopy` through `Promised` and `KeepsPromise`, and run by `EnvCopy` |
| `EnvCopy` | EnvCopy, PickSnapshot as far as it tells, ProgressWatcher | extends `FilesFetch`; a goroutine per picked file (`StartCopy`, `StatSource`, `AddWatch`, `CopyStep`), the ticker and the runner of the display, the caller (`Wait`, `StopApp`, `Report`) |
| `Specs` | parsing and deriving specs | operators over specs split into parts and names |
| `EnvSnap` | prodServiceToProdSnap, EnvSnap, Service.Snap, PortForward | a goroutine per service: `Begin`, `ForwardReady`, `ForwardFails`, `ForwardHangs`, `Post`; `Interrupt` is Ctrl-C |
| `MCEnvRestore`, `MCDrain`, `MCArchiveSet`, `MCEnvCopy`, `MCEnvSnap` | instances for TLC | the specs of the commands; symmetry of pods; file names and times |
| `EnvRestoreProofs`, `DrainProofs`, `ArchiveSetProofs`, `PodExecProofs`, `FileReadProofs`, `ArchiveFileCopyProofs`, `EnvCopyProofs`, `EnvSnapProofs` | theorems | extend the module they are about |

Composition: `EnvCopy` runs `FilesFetch` and several copies of `FileCopyAbs`,
which `ArchiveFileCopy` is shown to implement; `EnvRestore` implements
`RestoreAbs`; `EnvSnap` parses with `Specs`. `ArchiveFileCopy` takes reading its
source as chunks that arrive, fail or never come: a pod's `stat` and `md5sum` may
hang and a file that was cut is asked for again and again, as `FileRead` shows
(`ReadHangs`). `FileWrite` is what `PodExec` gives for a command that only
complains: an error, or none if the stream broke before the complaint.

### Abstractions

- *EnvRestore.* A server's data is what it has loaded (`loads`) and whether it
  holds anything that is not of the picked snapshot (`old`); the restore handler
  of a server is external and taken to load every file its restore folder links
  to. A request is atomic at the server, but its reply may be lost, and it may
  not arrive. The error of a reset that has "file already closed" in it is ignored
  whether the server was emptied or not; a server that was not is `unwiped`, and
  moves there from `old`, so that the properties can tell it from one that nobody
  asked. The folder of a statefulset's pod is not followed, since no code
  touches it. `Pick` is a new run: what servers hold from before is old from
  then on, and links become `Stale`. A killed process leaves the requests the
  servers already handled as done. A service of the pod scheme is reachable when
  its port is forwarded by hand, since its spec names no host; its `StagePod`
  takes the behaviour of ExecSync from `PodExec`: a stream that breaks hides a
  command that did nothing, and a complaint makes the call hang (`"hung"`).
- *Drain.* What a pod answered is kept in `m` so that properties can speak of it.
  A service whose selector asks for the Pause key matches no pod.
- *ArchiveSet.* Times count milliseconds. A name may carry a fraction of a second
  (RFC 3339 as Go parses it), so files may be any number of milliseconds apart.
  What FilesFetch found is any sorted list per archive of some of its files, those
  of all pods of a statefulset among them; files of the same time, of one pod or of
  two, are in any order, since the sort is not stable. The moment the picker is
  filled at is a whole millisecond: rounding it up changes no comparison with the
  times of files.
- *PodExec.* The chunks of an output are counted, not told apart. The command
  itself ends on its own; the stream may break at any moment.
- *FileRead.* Every byte is a different number, so that a repeated or missing
  byte is seen; a hash is the content it is the hash of. A change of the file
  reaches a `tail` that runs only if it has not read past it yet.
- *ArchiveFileCopy.* Chunks are counted; a write to a pipe is offered, then
  taken. A file that grows or changes under the read is a source that fails, as its
  hash then does. Nobody waits for the goroutine that copies to a pod's stdin, so
  it may go on after Exec has returned, or stop.
- *FilesFetch.* A file is a lister and a place in its `ls`; a name without a date
  is skipped. The three words of a slice's header are loaded and stored one by
  one in any order, which the memory model allows of a race. Copying the entries
  and growing an array (whose room follows the runtime's size classes for
  pointers) is one step; what a mixed-up header lets a goroutine write outside of
  its array is dropped, and what is read there is `Junk`. Looking at an entry
  that is not a file ends the process, as a nil pointer does.
- *EnvCopy.* The picker's walk is `ArchiveSet`'s subject: here it is a set of
  files that is a snapshot of some moment. The list of watches is read in one
  step and appended to in another, so that a watch may be lost; a redraw in
  between may meet an entry that is half written, which is undefined and here
  may end the process. A run begins with what earlier ones left at the
  destination. The lists are forgotten once a snapshot is picked.
- *Specs and EnvSnap.* A spec is a sequence of parts and a part a sequence of
  names; `\o` joins a statefulset's name and the number of its pod; the service of a local
  archive is the whole part, with every "/" in it. The server
  takes a request or does not, and the reply may be lost.

## 3. Runs

All runs use `CHECK_DEADLOCK FALSE`: each models a command that ends, and what
must not be stuck is stated as a liveness property instead.

| Run | Bounds | Shows |
|---|---|---|
| `restore_dev` | 3 local services on 2 processes, 2 faults, 2 runs | `NoMixedData`, `RestoredExactly`, `NoAbortWithoutFault`, `RunEnds`, and `KeepsPromise` (refinement of `RestoreAbs`) |
| `restore_mixed` | a statefulset of 2 pods, a pod, a host, a local service whose archive is elsewhere, an archive without destination; 1 fault, 1 run | `ResetBeforeRestore` for every scheme |
| `drain_pods` | 2 pods, 2 polls, 2 requests in flight | `DrainedMeansAnswered`, `BusyMeansSeen`, `WaitEnds` |
| `seek_files` | 3 archives, one with 4 files on 2 pods, two of them of the same time, and two with 4 and 3 files; the latest of each a millisecond before the first seek and two files of different archives a millisecond apart | `RowsGoBack`, `EveryFileOffered`, `LooksGoodMeansComplete` |
| `exec_any` | 3 chunks of stdout, 2 of stderr, refusals and breaks | `ComplaintsReported`, `WholeOutput`, `ExecEnds`, `SuccessReturns` |
| `read_file` | 4 bytes, 2 changes, 2 breaks | `PrefixOfFile`, `OkMeansHashed`, `UntouchedSucceeds`, `UntouchedEnds` |
| `copy_file` | 4 chunks, each scheme of the source and of the destination, faults | `OkMeansWhole`, `ClosedMeansSent`, `CleanCopyEnds`, and `KeepsPromise` (refinement of `FileCopyAbs`) |
| `env_copy` | a statefulset of 2 pods with 5 and 1 dated files copied to a local archive, a local archive copied to a pod; files of one chunk, nothing or emptied files at the destination | `NoFileTwice`, `WholeUnlessRaced`, `DoneMeansWhole`, `ReportIsFinal`, `CommandEnds` |
| `snap_env` | two services, one right and one right, changed in any part (an empty name among them), cut, too long, or an archive's spec | `DoneMeansSnapped`, `NoneAskedUnparsed`, `ParsedAsWritten`, `PodArchiveParses`, `SnapEnds` |

The runs also check the type invariants, except that `restore_mixed`, `drain_pods` and
`seek_files` leave theirs to the proofs.

Why the bounds are enough: two processes with a shared endpoint on one of them
are the least for which DoOncePerEndpoint merges some services and not others,
and three files the least with one before and one after the current one; two
runs let a second restore meet what the first left, and two faults let a fault
of one run meet one of the next. Two pods are the least that race. Three archives
let a set miss one file while two others tell it apart in time, and files a
millisecond apart let the walk step by a millisecond, stop at one and pass over one. Two breaks are a
resumption of a resumption. In `env_copy` five files give an array of six entries'
room, so that the append of one more file is made in place, beside those that
need a new array; two copies are the least that race for the watches; with one
chunk a copy has a beginning, a middle and an end, and `Leftovers` gives it a file
that an earlier run had emptied, or none. In `snap_env` two services let one be
asked while the other fails. Faults, runs, changes, breaks, polls, requests and
chunks are bounded by the constants `MaxFaults`, `MaxRuns`, `MaxChanges`,
`MaxBreaks`, `MaxPolls` (20 in the code), `MaxInFlight`, `MaxOut`, `MaxErr`,
`MaxSize`, `MaxTotal`, `Size`, `Leftovers` and `Commands`.

Fairness: weak fairness of each goroutine and of the calling one, which Go's
scheduler gives, and of a command or a request that was sent (it is answered or
fails; `http.Post` sets no time limit, so this is an assumption about servers
and the network). No fairness is assumed of clients, of the user, of the pods
that change files, of a stream that may break or of a process that may be killed.
In `Drain` one `WF` covers the caller, since it is at one place at a time. In
`EnvCopy` none is assumed of the display, of the user at the picker, or of a copy
that has failed, since `ArchiveFileCopy` may then never return; a list or the `stat`
of a source that hangs is a place of its own (`"hung"`). In `EnvSnap` the goroutines
as a whole are fair, and a forward is ready, fails or hangs for good: `SnapEnds` says
that only one that hangs itself is waited for. In `ArchiveFileCopy` nothing is
assumed of the goroutine that copies to a pod's stdin.

## 4. Disagreements found

The first three have a run of their own, which TLC must end with a counterexample.
The other five state what should hold as a property that no run checks, and the
configuration that is named shows that it does not.

| Configuration | Where | What happens |
|---|---|---|
| `restore_prod_prepare` | serviceSet.go:63 | statefulset specs have no host, so all have the key `:10000` and only the first is drained and reset: not "all endpoints" (`AllPrepared`) |
| `drain_race` | service.go:335 | the sum of requests in flight loses an update: drained while busy (`DrainedMeansEmpty`) |
| `exec_hang` | kube.go:310 | ExecSync hangs when the command complains (`SyncEnds`) |
| `restore_ignored` | service.go:431 | a reset answered with an error that has "file already closed" in it passes, and the server keeps its data (`ResetCleans`) |
| `seek_skip` | archiveFileSet.go:39 | a file exactly a millisecond older than the seek time is passed over for an older one of another archive, and its archive's files in between get no row (`SnapshotsOffered`) |
| `read_cut` | kube.go:427 | FileRead retries for ever on a file that was cut, though no connection fails (`TransferEnds`) |
| `copy_pod` | kube.go:277 | the error of a stream is overwritten, so a copy to a pod reports success with nothing written (`OkMeansWritten`) |
| `copy_host` | archiveFileCopy.go:157 | no branch handles a host, so nobody reads the pipe and the copy never returns (`CopyReturns`) |

The modules keep what the code does in these places too; none has a run of its
own:

- archiveFileCopy.go:53: a source that fails leaves both pipes open, so a local
  destination waits for more and the copy never returns (`AfterFailure`); in
  `EnvCopy` such a copy stays `"failing"`, and so does the command.
- archiveFileCopy.go:146: a copy of an empty file to a statefulset of no replicas
  reports success although nothing was written (`Setup`), and so does one to a host.
- archiveFileCopy.go:44: the `stat` of a source on a pod hangs when it complains, and
  so do the copy and the command (`OpenSource`, `StatSource`).
- archiveFileCopy.go:29-93: a source on a host is neither looked up nor read, and its
  pipes are never closed (`OpenSource`). FilesFetch lists no files of a host either,
  so `EnvCopy` meets none.
- archive.go:328: of two files of the same time, of two pods of a statefulset, only
  one is ever offered (`Offered`).
- archiveFileCopy.go:166: the destination has its final name from the start and an
  earlier copy is emptied before the new one is there (`Leftovers`, `CopySetup`).
- archive.go:238: the pods of a statefulset append to one slice without a lock,
  so that files are lost (`AllFilesListed` says what should hold and does not;
  `WholeUnlessRaced` what does), or an entry is nil and the sort panics.
- archive.go:98: a pod archive spec without the pod panics (`ArchiveParsing`).
- archive.go:128: the empty service of a host archive is accepted, since Host is
  looked at twice (`Needed`).
- service.go:296: the Spec made for a pod's service has a part less than Parse
  wants, so it cannot be read back; `PodArchiveParses` holds for archives.
- A service spec with more than three kube names, or with an empty name for its
  container, is accepted (`ParsedAsWritten` leaves them out, `Complete`).
- progressWatcher.go:43: copies that add their watches at the same time lose some
  of them, so that the report at the end misses files (`AddWatch`).
- progressWatcher.go: an application that is stopped before it runs is not
  stopped; Ctrl-C ends the display and nothing else; without a terminal the
  display panics (`StopApp`, `CtrlC`, `RunApp`).
- kube.go:646: while a port is being forwarded Ctrl-C stops the forwards and not
  the command (`Interrupt`); kube.go:658: a forward that fails ends the process in
  the middle of the snapshots of other services (`ForwardFails`); kube.go:663: one
  whose dial hangs is waited for for ever (`ForwardHangs`).
- archiveFileCopy.go:64 of `src/cmd`: the error of the copy is not looked at.
- service.go:288: the service made for a pod has no RestoreURL, so the restore of
  a statefulset posts to an empty path and the command gives up (`PostedURL`).
- service.go:450: Stage of a statefulset resets its pods and stages nothing
  (`Reset` is enabled by the operation `"stage"`).
- service.go:486: on a pod the restore folder is linked into itself, not the
  archive file (`SelfLink` in `StagePod`).
- service.go:548: StartStop sets the Pause key to start and deletes it to stop
  (`Pausing`).
- kube.go:277: the error of a stream is overwritten, so an output cut short is
  returned without an error (`broke` in `StreamReturns`), and an `rm` that did
  nothing passes (`left` in `StagePod`).
- kube.go:359: FileWrite uses `>` without a shell, so it never writes anything
  (`FileWrite`).
- archiveFileSetPicker.go:94: files exactly one second apart look good
  (`EvaluatedStatus`).
- archiveFileCopy.go:123: the pod of a statefulset is looked up by the name of
  the statefulset (`Setup`).

## 5. Proofs

| Theorem | Assumptions | Says |
|---|---|---|
| `EnvRestoreProofs!TypeCorrect` | those of the constants | `[]TypeOK` |
| `EnvRestoreProofs!ResetIsFirst` | `SupportedSchemes`, `EndpointIsServer` | `[]ResetBeforeRestore` |
| `EnvRestoreProofs!DataIsNotMixed`, `RestoreIsExact` | the same | `[]NoMixedData`, `[]RestoredExactly` |
| `EnvRestoreProofs!ImplementsRestore` | the same | `KeepsPromise` |
| `EnvRestoreProofs!AbortNeedsFault` | `Restorable` | `[]NoAbortWithoutFault` |
| `DrainProofs!TypeCorrect`, `DrainedIsAnswered`, `BusyIsSeen` | those of the constants | `[]TypeOK`, `[]DrainedMeansAnswered`, `[]BusyMeansSeen` |
| `DrainProofs!OneServerDrains` | not a statefulset | `[]DrainedMeansEmpty` |
| `ArchiveSetProofs!TypeCorrect`, `RowsAreOrdered`, `FilesAreOffered`, `LooksGoodIsComplete` | those of the constants | `[]TypeOK`, `[]RowsGoBack`, `[]EveryFileOffered`, `[]LooksGoodMeansComplete` |
| `PodExecProofs!TypeCorrect`, `ComplaintsAreReported`, `OutputIsWhole` | those of the constants | `[]TypeOK`, `[]ComplaintsReported`, `[]WholeOutput` |
| `FileReadProofs!TypeCorrect`, `OkIsHashed`, `ReadsPrefix`, `UntouchedIsCopied` | those of the constants | `[]TypeOK`, `[]OkMeansHashed`, `[]PrefixOfFile`, `[]UntouchedSucceeds` |
| `ArchiveFileCopyProofs!TypeCorrect`, `OkIsWhole`, `ClosedIsSent`, `ImplementsCopy` | those of the constants | `[]TypeOK`, `[]OkMeansWhole`, `[]ClosedMeansSent`, `KeepsPromise` |
| `EnvCopyProofs!DoneIsWhole`, `ReportIsTrue` | those of the constants | `[]DoneMeansWhole`, `[]ReportIsFinal` |
| `EnvCopyProofs!ListsHaveNoFileTwice`, `ListsAreWhole`, `CopyTypesCorrect` | those of the constants | `[]NoFileTwice`, `[]WholeUnlessRaced`, `[]CopyTypeOK` |
| `EnvSnapProofs!TypeCorrect`, `NoneIsAskedUnparsed`, `DoneIsSnapped`, `SpecsAreParsed` | those of the constants | `[]TypeOK`, `[]NoneAskedUnparsed`, `[]DoneMeansSnapped`, `[]ParsedAsWritten` |
| `EnvSnapProofs!PodSpecsAreReadBack` | `PodsHaveNames` | `[]PodArchiveParses` |

The inductive invariants:

- **`ResetInv`** (EnvRestore). That a server which restores is empty of old data
  does not follow from the state of its service alone: a local service was reset
  by another service's goroutine, the one that stands for its endpoint, in an
  earlier phase. `PhaseOps` says which services have a goroutine in each phase;
  `ResetSoFar` that a fan-out without an error has emptied the servers it called;
  `LocalsReset` carries the result of the preparation through the loading;
  `StagedAtOnce` and `FolderReady` say that a restore never meets a link to
  another snapshot. The step from the preparation to the loading needs
  `OneOfEndpoint`: every picked service shares its endpoint with one that was
  prepared, the least index with that endpoint.
  `EndpointIsServer` (local services with the same host and port are one process)
  is true of any machine; without it the preparation misses servers.
  `SupportedSchemes` excludes the pod scheme, which the commands never configure
  and whose folder may keep a stale link when an `rm` failed unnoticed. Statefulsets are
  included: Stage resets each of their pods, so the theorem holds for them in
  spite of `restore_prod_prepare`. A server that answered its reset with the ignored
  error is in `unwiped` from then on and not in `old`; each of the four theorems says
  what it says but for those, and `restore_ignored` shows one.
- **`ExactInv`** (EnvRestore, on top of `ResetInv`). While the files are loaded,
  each server has loaded the files before the one in hand once, and that one when
  its restore has returned (`CountsRight`), unless the run is one that will not go
  on (`GivesUp`): a restore whose reply was lost may have loaded the file, but its
  error stays in `bad` and ends the run. `InHandReady` keeps the link that is
  restored from pointing anywhere else. `LoadedAll` carries the counts to the end
  and `RaftSoFar` says that a fan-out of raft resets without an error reached who
  it called; `OneOfEndpoint` again brings that to every picked service. A
  statefulset with pods never gets past its restore, which is posted to no path
  (`FailsToRestore`), so for those no run is ever done and the theorem is about
  the local services.
- **The refinement of `RestoreAbs`** (EnvRestore). `Status` is what a caller sees of
  the phase and `Content` what a server holds: the files it has loaded, and `Stale`
  for anything from before; the servers in `unwiped` are the ones it excuses. With `ResetInv`, `ExactInv` and `BadIsLate` (a fan-out
  that has failed has called somebody, so that no error comes from nothing) a reset
  that reaches its server is `Wipe`, one whose error is ignored is `Excuse`, a restore that does is `LoadNext`, whether its
  reply comes or not, the end of a run is `End`, `Pick` is
  `Begin`, and every other step is a stutter. That the step of a restore is
  in the order of the snapshot is `CountsRight`; that `End` finds all loaded is
  `LoadedAll`.
- **`QuietInv`** (EnvRestore). As long as nothing has failed no operation has an
  error and none hangs (`Quiet`), and only the file in hand is staged and restored
  (`HandOnly`), so that the stage it meets is that of an archive which `Restorable`
  speaks of: it has a destination, whose path the server serves and whose Stage
  looks where the files are. Statefulsets do not qualify: their restore posts to no
  path (section 4), and neither do hosts, whose Stage returns an error.
- **`DrainInv`** (Drain). Between polls no goroutine runs (`Quiet`), who has not
  scraped has no number (`NotYetAsked`), and a sum above zero, in the variable or
  in a goroutine's register, has a pod that answered above zero (`SumIsSeen`):
  the race can lose counts but not make them up. For one server `OneSum` adds
  that the sum is zero or the answer.
- **`RowsInv`, `PassedOffered`, `StatusInv`** (ArchiveSet). The seek time is
  above no file of the last set and each row has a file older than any of the row
  before (`Walk`, `RowsBehind`); every file at or above the seek time is in a row,
  or one of its archive and time is, or it is older than a file of its archive that is
  a millisecond before another (`PassedOffered`): the step of the walk can pass over
  no other, since the first file of a list before a time is its latest. The status shown is that of the row
  highlighted, and a set with one file of each archive it has, as many as there
  are archives, has all of them.
- **`ExecInv`** (PodExec). No chunk is lost or made up on its way (`Counted`); a
  stderr that is closed means that the stream has ended with nothing left in
  stdout's pipe (`Settled`); and each goroutine goes by what the one before it has
  returned, from Exec's verdict to the result of ExecSync (`Verdicts`).
- **`ReadInv`** (FileRead). The number of bytes that is compared with the size is
  the length of what was kept (`CountIsLength`), success is the verdict of a
  comparison (`OkIsVerdict`), and as long as nothing changed the file what was
  kept is its beginning (`Untouched`, `FreshLeft`), which a resumed `tail`
  continues at the next byte.
- **`CopyInv`** (ArchiveFileCopy). A chunk is on its way in a pipe or it has
  arrived (`Counted`); a pipe is offered or closed only where the source is in the
  matching place (`Pipes`); a file that is being flushed has all that came through
  the pipe (`Destination`). Success needs the progress goroutine to have
  seen its pipe closed, and so the source to have ended; only a local destination ends
  without an error by way of the flush. The refinement goes action by
  action: `Running` says that a goroutine which still has something to do belongs to
  a copy that has not returned, so that what it does is a step `FileCopyAbs` allows.
- **`CopyInv`** (EnvCopy). Only picked files are copied (`Copies`); the caller goes
  on only when every copy said ok, and `FileCopyAbs` lets none to a local archive say
  it before its file is whole (`OkWhole`); a list of watches, also the one a copy is about to
  extend, has only copies that have added theirs, each once (`WatchLists`), which is
  why losing a watch is all that the race can do.
- **`FetchInv`** (the listing in EnvCopy, from `FilesFetch`). A file is in no array
  twice, and a goroutine that has not extended an array yet has none of its files in
  any (`FetchUnique`); since the pods' folders are apart, `Extended` keeps that
  whatever mixture of words its slice's header is, so `NoFileTwice` survives the race.
  `FetchWhole` is about archives without one: then one goroutine appends at a time
  (`OneAppends`), the words it has loaded are the slice's and those it has stored are
  its own (`InHand`), and between the stores the slice has the files of all that are
  done (`WholeSlice`, `Holds`). `FetchTypes` keeps the lengths and addresses in
  range. The invariant holds again when the lists are forgotten.
- **`SnapInv`** (EnvSnap). The services are the parses of the first specs, all right
  (`Parsed`); who has said ok asked its server (`AskedAfter`). `ParsedServer` shows
  for each scheme that the server of the parsed service is the one the spec names, and
  `WrittenBack` that every other part is in its place too: the spec that is written
  from the service is the one it was parsed from. Trying to prove that showed
  `ParsedAsWritten` to be wrong as it was first stated: `ns/name/` is accepted, and
  its service is that of `ns/name`. It now leaves out parts that are not `Complete`,
  and `snap_env` has such a spec. `StatefulsetArchive` and `PodArchive` do the same
  for the archives; `PodsHaveNames`, that a name with an ordinal is not the empty
  string, is true of strings but has to be assumed, since TLAPS takes strings as
  atoms.

With `ImplementsCopy`, what `EnvCopyProofs` proves of copies that keep the promise of
`FileCopyAbs` holds of `ArchiveFileCopy`.

Every invariant that a passing run checks, both refinements included, is stated by a
theorem above. Only model-checked are the liveness properties `RunEnds`, `WaitEnds`,
`ExecEnds`, `SuccessReturns`, `UntouchedEnds`, `CleanCopyEnds`, `CommandEnds` and
`SnapEnds`: liveness under fairness is out of the prover's reach. So is that the
list of a folder exists: `Dated` is the set of the enumerations of the dated names in
order, which has one member (a filter of a sequence, `SelectSeq`, is a recursion over
data about which nothing could be proved), and that it is never empty is seen by
`env_copy`, where every `ListFiles` fires.

## 6. Running

    tlc -workers 2 -config restore_dev.cfg MCEnvRestore.tla
    tlapm EnvRestoreProofs.tla

## 7. Not modelled

Every component that holds state between two steps is modelled. What is left has
none of its own, or is not reached by any command:

- *Time filters*: no command adds one, and `Archive.Filter` is never called.
- *Raft index commands*: one read or write of a local store each, by a library.
- *Kube lookups*: single calls of the Kubernetes client, whose failure is an
  outcome in the modules that call them.
- *Tar helpers*: never called.
- *`kube/stream.go`*: `StreamAllToLog` copies what a port forward prints to the log.
- *Liveness server*: answers every request alike.
- *Command line*: the wiring of flags and loggers; the specs that the commands
  hold are the instances of the MC modules.
- *Formatting*: the rows of the picker and of the display, the log.
- *Vendored code*: external; the modules say what is assumed of it.
