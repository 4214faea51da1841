--------------------------- MODULE ArchiveFileCopy ---------------------------
(***************************************************************************)
(* Copying one archive file (schema/archiveFileCopy.go): a goroutine that  *)
(* reads the source and writes each chunk to the destination's pipe and    *)
(* then to the progress pipe, one that counts what comes out of the        *)
(* progress pipe, one that writes the destination, and the caller that     *)
(* sets them up and waits for them all.  A write to a pipe waits until it  *)
(* is read; a pipe gives no end of file until it is closed.                *)
(***************************************************************************)
EXTENDS FileCopyAbs, Sequences

CONSTANTS
  MaxTotal,  \* bound: chunks of the source file
  Sources,   \* the schemes the source may have
  Schemes,   \* the schemes the destination may have
  Replicas,  \* replicas of a statefulset destination
  Faults     \* whether reading, writing and setting up may fail or hang

ASSUME CopyAssumption ==
  /\ MaxTotal \in Nat /\ Replicas \in Nat
  /\ Sources \cup Schemes \subseteq {"local", "pod", "statefulset", "host"}
  /\ Faults \in BOOLEAN

VARIABLES
  from,      \* the scheme of the source
  scheme,    \* the scheme of the destination
  total,     \* chunks of the source file
  sent,      \* chunks the source goroutine has written to both pipes
  src,       \* where the source goroutine is
  pipe,      \* the pipes to the destination and to the progress reader
  progress,  \* chunks counted by the progress goroutine
  prog,      \* whether it still reads
  dst,       \* where the caller is, then the goroutine that writes the destination
  taken,     \* chunks it took from its pipe
  written,   \* chunks in the destination file, or Before: as it was before
  synced,    \* the destination file is on the disk as it is
  result     \* what ArchiveFileCopy has returned

file   == <<from, scheme, total>>
source == <<file, sent, src>>
counts == <<progress, prog>>
target == <<dst, taken, written, synced>>
vars   == <<source, pipe, counts, target, result>>

Before == MaxTotal + 1

TypeOK ==
  /\ from \in Sources /\ scheme \in Schemes
  /\ total \in 0..MaxTotal /\ sent \in 0..MaxTotal
  /\ src \in {"none", "read", "first", "second", "closeDst", "done", "failed", "hung"}
  /\ pipe \in [{"dst", "progress"} -> {"empty", "offered", "closed"}]
  /\ progress \in 0..MaxTotal /\ prog \in {"none", "read", "done"}
  /\ dst \in {"open", "watch", "setup", "copy", "sync", "close",
              "done", "failed", "none", "hung"}
  /\ taken \in 0..MaxTotal /\ written \in 0..Before
  /\ synced \in BOOLEAN
  /\ result \in {"running", "ok", "err"}

Init ==
  /\ from \in Sources /\ scheme \in Schemes
  /\ total \in 0..MaxTotal /\ sent = 0 /\ src = "none"
  /\ pipe = [p \in {"dst", "progress"} |-> "empty"]
  /\ progress = 0 /\ prog = "none"
  /\ dst = "open" /\ taken = 0 /\ written = Before /\ synced = TRUE
  /\ result = "running"

-----------------------------------------------------------------------------
(* The caller sets up the source *)

\* The source is looked up, and read in a goroutine of its own from then on.
\* There is no copy from a statefulset; a host's file is neither looked up nor
\* read; a pod's stat may complain, and ExecSync then never returns.
OpenSource ==
  /\ dst = "open"
  /\ \/ /\ from \in {"local", "pod"} /\ src' = "read"
        /\ dst' = "watch" /\ UNCHANGED result
     \/ from = "host" /\ dst' = "watch" /\ UNCHANGED <<src, result>>
     \/ /\ from = "statefulset" \/ (Faults /\ from # "host")
        /\ dst' = "none" /\ result' = "err" /\ UNCHANGED src
     \/ Faults /\ from = "pod" /\ dst' = "hung" /\ UNCHANGED <<src, result>>
  /\ UNCHANGED <<file, sent, pipe, counts, taken, written, synced>>

\* The watch is added and the progress goroutine begins to read.
AddWatch ==
  /\ dst = "watch" /\ dst' = "setup" /\ prog' = "read"
  /\ UNCHANGED <<source, pipe, progress, taken, written, synced, result>>

-----------------------------------------------------------------------------
(* The source goroutine *)

\* splitWriter: the order in which a chunk is written to the pipes.
SplitWriter == <<"dst", "progress">>

Read ==
  /\ src = "read" /\ sent < total
  /\ src' = "first" /\ pipe' = [pipe EXCEPT ![SplitWriter[1]] = "offered"]
  /\ UNCHANGED <<file, sent, counts, target, result>>

WroteFirst ==
  /\ src = "first" /\ pipe[SplitWriter[1]] = "empty"
  /\ src' = "second" /\ pipe' = [pipe EXCEPT ![SplitWriter[2]] = "offered"]
  /\ UNCHANGED <<file, sent, counts, target, result>>

WroteSecond ==
  /\ src = "second" /\ pipe[SplitWriter[2]] = "empty"
  /\ src' = "read" /\ sent' = sent + 1
  /\ UNCHANGED <<file, pipe, counts, target, result>>

\* Mutant: the end of a failed source looks like the end of the file.
CloseOnFailure == [p \in {"dst", "progress"} |-> "closed"]

\* What a source goroutine that fails does to the pipes: it leaves them open.
AfterFailure == pipe

ReadFails ==
  /\ Faults /\ src = "read"
  /\ src' = "failed" /\ pipe' = AfterFailure
  /\ UNCHANGED <<file, sent, counts, target, result>>

\* FileRead of a pod: stat or md5sum complains and ExecSync never returns, or
\* the file was cut and is asked for again and again.
ReadHangs ==
  /\ Faults /\ from = "pod" /\ src = "read" /\ src' = "hung"
  /\ UNCHANGED <<file, sent, pipe, counts, target, result>>

CloseProgress ==
  /\ src = "read" /\ sent = total
  /\ src' = "closeDst" /\ pipe' = [pipe EXCEPT !["progress"] = "closed"]
  /\ UNCHANGED <<file, sent, counts, target, result>>

\* Mutant: the pipe to the destination stays open.
LeaveDst ==
  /\ src = "closeDst" /\ src' = "done"
  /\ UNCHANGED <<file, sent, pipe, counts, target, result>>

CloseDst ==
  /\ src = "closeDst"
  /\ src' = "done" /\ pipe' = [pipe EXCEPT !["dst"] = "closed"]
  /\ UNCHANGED <<file, sent, counts, target, result>>

-----------------------------------------------------------------------------
(* The progress goroutine *)

Progress ==
  /\ prog = "read"
  /\ \/ /\ pipe["progress"] = "offered"
        /\ pipe' = [pipe EXCEPT !["progress"] = "empty"] /\ progress' = progress + 1
        /\ UNCHANGED prog
     \/ /\ pipe["progress"] = "closed"
        /\ prog' = "done" /\ UNCHANGED <<pipe, progress>>
  /\ UNCHANGED <<source, target, result>>

-----------------------------------------------------------------------------
(* The destination *)

\* A local file is opened and truncated.  A statefulset destination looks up
\* a pod of the statefulset's own name, which there is not, once per replica.
\* For a host nothing is set up: nobody reads the pipe.
Setup ==
  /\ dst = "setup"
  /\ \/ /\ scheme = "local"
        /\ dst' = "copy" /\ written' = 0 /\ synced' = FALSE /\ UNCHANGED result
     \/ /\ scheme = "pod" /\ dst' = "copy" /\ UNCHANGED <<written, synced, result>>
     \/ /\ scheme = "statefulset" /\ dst' = "none"
        /\ result' = IF Replicas = 0 THEN result ELSE "err"
        /\ UNCHANGED <<written, synced>>
     \/ scheme = "host" /\ dst' = "none" /\ UNCHANGED <<written, synced, result>>
     \/ /\ Faults /\ scheme # "host"
        /\ dst' = "none" /\ result' = "err" /\ UNCHANGED <<written, synced>>
  /\ UNCHANGED <<source, pipe, counts, taken>>

\* A chunk is taken from the pipe and written, or the write fails.
CopyChunk ==
  /\ scheme = "local" /\ dst = "copy" /\ pipe["dst"] = "offered"
  /\ pipe' = [pipe EXCEPT !["dst"] = "empty"] /\ taken' = taken + 1
  /\ \/ written' = written + 1 /\ UNCHANGED dst
     \/ Faults /\ dst' = "failed" /\ UNCHANGED written
  /\ UNCHANGED <<source, counts, synced, result>>

\* Mutants: the file is not flushed; the last step is unknown.
AfterStepUnflushed == [copy |-> "close", sync |-> "close", close |-> "done"]
AfterStepClosed == [copy |-> "sync", sync |-> "close", close |-> "closed"]

\* What follows the end of the copy, the flush and the closing of the file.
AfterStep == [copy |-> "sync", sync |-> "close", close |-> "done"]

Finish ==
  /\ scheme = "local"
  /\ dst \in {"sync", "close"} \/ (dst = "copy" /\ pipe["dst"] = "closed")
  /\ \/ dst' = AfterStep[dst] /\ synced' = (synced \/ dst = "sync")
     \/ Faults /\ dst' = "failed" /\ UNCHANGED synced
  /\ UNCHANGED <<source, pipe, counts, taken, written, result>>

\* FileWrite: no shell makes ">" a redirection, so cat takes it for a file
\* that is not there, writes nothing and complains.  The stream may break
\* before the complaint arrives, and Exec then returns no error.
FileWrite ==
  /\ scheme = "pod" /\ dst = "copy"
  /\ dst' = "failed" \/ (Faults /\ dst' = "done")
  /\ UNCHANGED <<source, pipe, counts, taken, written, synced, result>>

\* A goroutine of Exec's stream copies the pipe to cat's stdin, which nobody
\* reads.  Nobody waits for it: it may go on when Exec has returned, or stop.
CopyStdin ==
  /\ scheme = "pod" /\ dst \in {"copy", "failed", "done"} /\ pipe["dst"] = "offered"
  /\ pipe' = [pipe EXCEPT !["dst"] = "empty"] /\ taken' = taken + 1
  /\ UNCHANGED <<source, counts, dst, written, synced, result>>

-----------------------------------------------------------------------------
AnyError == src = "failed" \/ dst = "failed"

\* Mutant: the error is not looked at.
WaitBlindly ==
  /\ result = "running" /\ dst \in {"none", "done", "failed"}
  /\ src \in {"none", "done", "failed"} /\ prog = "done"
  /\ result' = "ok"
  /\ UNCHANGED <<source, pipe, counts, target>>

\* Wait returns when every goroutine has, with the first error.
Wait ==
  /\ result = "running" /\ dst \in {"none", "done", "failed"}
  /\ src \in {"none", "done", "failed"} /\ prog = "done"
  /\ result' = IF AnyError THEN "err" ELSE "ok"
  /\ UNCHANGED <<source, pipe, counts, target>>

Source ==
  Read \/ WroteFirst \/ WroteSecond \/ ReadFails \/ ReadHangs \/ CloseProgress \/ CloseDst
Target == CopyChunk \/ Finish \/ FileWrite
Caller == OpenSource \/ AddWatch \/ Setup \/ Wait

Next == Source \/ Progress \/ Target \/ CopyStdin \/ Caller

\* Every goroutine and the caller run; nothing is assumed of the one that copies
\* to a pod's stdin.
Spec ==
  /\ Init /\ [][Next]_vars
  /\ WF_vars(Source) /\ WF_vars(Progress) /\ WF_vars(Target) /\ WF_vars(Caller)

-----------------------------------------------------------------------------
(* Properties *)

\* A copy that is reported as done is counted in full, and to a local file
\* whole and flushed, whatever failed on the way.
OkMeansWhole ==
  result = "ok" =>
    /\ progress = total
    /\ scheme = "local" => written = total /\ synced

\* "FileWrite copies content ... to a file on a pod": a copy that is reported as
\* done is whole, also on a pod.
OkMeansWritten == result = "ok" => written = total

\* The local file that is flushed and closed has every chunk the source had
\* sent.
ClosedMeansSent ==
  scheme = "local" /\ dst \in {"close", "done"} =>
    src \notin {"failed", "hung"} /\ written = sent

\* Something went wrong that the copy can meet: a read or a write that fails
\* or hangs, a stream to a pod that broke.
Broken ==
  \/ src \in {"failed", "hung"} \/ dst \in {"failed", "hung"}
  \/ scheme = "pod" /\ dst = "done"

\* Nothing reads the source, or nothing reads the pipe to the destination.
Unattended == from = "host" \/ dst = "none"

\* Where the copy is, for those who call it.
Promised ==
  [at |-> IF result # "running" THEN result
          ELSE IF dst = "open" THEN "stat"
          ELSE IF dst \in {"watch", "hung"} THEN dst
          ELSE IF Broken \/ Unattended THEN "failing"
          ELSE IF dst = "setup" THEN "setup" ELSE "copy",
   written |-> written, progress |-> progress]

\* The copy does what FileCopyAbs promises to EnvCopy: in particular it never
\* says "ok" of a local file that is not whole or of one that is not counted,
\* and it empties a file that is there once, before it writes.
KeepsPromise ==
  [][\/ Promised' = Promised
     \/ FileCopyStep(Promised, Promised', total, scheme = "local")]_vars

\* As long as neither the source nor the destination fails or is on a host,
\* ArchiveFileCopy returns: no goroutine holds another up for ever.
CleanCopyEnds == <>(result # "running" \/ Broken \/ Unattended)

\* "Archives can be in kube, on hosts, or local": a copy that meets no failure
\* returns, whatever the archives are.
CopyReturns == <>(result # "running" \/ Broken)
=============================================================================
