------------------------ MODULE ArchiveFileCopyProofs ------------------------
(***************************************************************************)
(* What is proved of ArchiveFileCopy for files of any length, sources and  *)
(* destinations of any scheme and any failures: TypeOK, what success and a *)
(* closed file mean, and that it implements FileCopyAbs.                   *)
(***************************************************************************)
EXTENDS ArchiveFileCopy, TLAPS

\* A chunk that was offered to a pipe is on its way.
OnTheWay(p) == IF pipe[p] = "offered" THEN 1 ELSE 0

\* What the source has begun to write and what has come out of its pipes.
Counted ==
  /\ taken + OnTheWay("dst") = IF src \in {"first", "second"} THEN sent + 1 ELSE sent
  /\ progress + OnTheWay("progress") = IF src = "second" THEN sent + 1 ELSE sent
  /\ sent <= total
  /\ src \in {"first", "second"} => sent < total
  /\ src \in {"closeDst", "done"} => sent = total

\* The pipes are as the source leaves them.
Pipes ==
  /\ pipe["dst"] = "offered" => src = "first"
  /\ pipe["progress"] = "offered" => src = "second"
  /\ pipe["dst"] = "closed" <=> src = "done"
  /\ pipe["progress"] = "closed" <=> src \in {"closeDst", "done"}
  /\ prog = "done" => pipe["progress"] = "closed"
  /\ from = "host" \/ dst = "open" => src = "none"
  /\ src = "none" => pipe["dst"] = "empty" /\ pipe["progress"] = "empty"

\* Where the caller is before a goroutine writes the destination.
Unwritten == {"open", "watch", "setup", "none", "hung"}

\* What the destination has come to.
Destination ==
  /\ dst \in Unwritten => taken = 0
  /\ dst \in {"sync", "close", "done"} => scheme \in {"local", "pod"}
  /\ scheme = "local" /\ dst \in {"sync", "close", "done"} => pipe["dst"] = "closed"
  /\ scheme = "local" /\ dst \in {"close", "done"} => synced
  /\ scheme = "local" /\ dst \in {"copy", "sync", "close", "done"} => written = taken
  /\ scheme = "pod" => dst \notin {"sync", "close"}

\* What the caller returns, and when.
Results ==
  /\ result = "ok" => src = "done" /\ prog = "done" /\ dst \in {"none", "done"}
  /\ result = "err" => dst = "none" \/ (prog = "done" /\ dst \in {"done", "failed"})
  /\ scheme = "local" /\ dst = "none" => result = "err"

CopyInv == TypeOK /\ Counted /\ Pipes /\ Destination /\ Results

-----------------------------------------------------------------------------
(* The invariant *)

LEMMA InvInit == Init => CopyInv
<1> SUFFICES ASSUME Init PROVE CopyInv
  OBVIOUS
<1> USE CopyAssumption DEF Init
<1>1. synced \in BOOLEAN
  BY Zenon
<1>2. TypeOK
  BY <1>1 DEF TypeOK, Before
<1>3. Counted /\ Pipes /\ Destination /\ Results
  BY DEF Counted, OnTheWay, Pipes, Destination, Unwritten, Results
<1> QED
  BY <1>2, <1>3 DEF CopyInv

LEMMA SourceStep == CopyInv /\ Source => CopyInv'
<1> SUFFICES ASSUME CopyInv, Source PROVE CopyInv'
  OBVIOUS
<1> USE CopyAssumption
        DEF CopyInv, TypeOK, Counted, OnTheWay, Pipes, Destination, Unwritten, Results, Before,
            Unwritten, file, counts, target
<1>1. CASE Read
  BY <1>1 DEF Read, SplitWriter
<1>2. CASE WroteFirst
  BY <1>2 DEF WroteFirst, SplitWriter
<1>3. CASE WroteSecond
  BY <1>3 DEF WroteSecond, SplitWriter
<1>4. CASE ReadFails
  BY <1>4 DEF ReadFails, AfterFailure
<1>5. CASE ReadHangs
  BY <1>5 DEF ReadHangs
<1>6. CASE CloseProgress
  BY <1>6 DEF CloseProgress
<1>7. CASE CloseDst
  BY <1>7 DEF CloseDst
<1> QED
  BY <1>1, <1>2, <1>3, <1>4, <1>5, <1>6, <1>7 DEF Source

LEMMA ProgressStep == CopyInv /\ Progress => CopyInv'
BY CopyAssumption
   DEF CopyInv, TypeOK, Counted, OnTheWay, Pipes, Destination, Unwritten, Results, Before,
       Progress, source, file, target

LEMMA CallerStep == CopyInv /\ Caller => CopyInv'
<1> SUFFICES ASSUME CopyInv, Caller PROVE CopyInv'
  OBVIOUS
<1> USE CopyAssumption
        DEF CopyInv, TypeOK, Counted, OnTheWay, Pipes, Destination, Unwritten, Results, Before
<1>1. CASE OpenSource
  <2>1. /\ UNCHANGED <<file, sent, pipe, counts, taken, written, synced>>
        /\ dst = "open" /\ src = "none" /\ result = "running"
    BY <1>1 DEF OpenSource
  <2>2. CASE src' = "read" /\ dst' = "watch" /\ UNCHANGED result /\ from # "host"
    BY <2>1, <2>2 DEF file, counts
  <2>3. CASE dst' \in {"watch", "hung"} /\ UNCHANGED <<src, result>>
    BY <2>1, <2>3 DEF file, counts
  <2>4. CASE dst' = "none" /\ result' = "err" /\ UNCHANGED src
    BY <2>1, <2>4 DEF file, counts
  <2> QED
    BY <1>1, <2>2, <2>3, <2>4 DEF OpenSource
<1>2. CASE AddWatch
  BY <1>2 DEF AddWatch, source, file
<1>3. CASE Setup
  <2>1. UNCHANGED <<source, pipe, counts, taken>> /\ dst = "setup"
    BY <1>3 DEF Setup
  <2>2. written' \in 0..Before /\ result' \in {"running", "ok", "err"}
    BY <1>3 DEF Setup
  <2>3. synced' \in BOOLEAN
    BY <1>3, Zenon DEF Setup
  <2>4. CASE dst' = "copy" /\ (scheme = "local" => written' = 0) /\ UNCHANGED result
    BY <2>1, <2>2, <2>3, <2>4 DEF source, file, counts
  <2>5. CASE dst' = "none" /\ result' \in {result, "err"} /\ (scheme = "local" => result' = "err")
    BY <2>1, <2>2, <2>3, <2>5 DEF source, file, counts
  <2> QED
    BY <1>3, <2>4, <2>5 DEF Setup
<1>4. CASE Wait
  BY <1>4 DEF Wait, AnyError, source, file, counts, target
<1> QED
  BY <1>1, <1>2, <1>3, <1>4 DEF Caller

LEMMA TargetStep == CopyInv /\ (Target \/ CopyStdin) => CopyInv'
<1> SUFFICES ASSUME CopyInv, Target \/ CopyStdin PROVE CopyInv'
  OBVIOUS
<1> USE CopyAssumption
        DEF CopyInv, TypeOK, Counted, OnTheWay, Pipes, Destination, Unwritten, Results, Before,
            source, file, counts
<1>1. CASE CopyChunk
  BY <1>1 DEF CopyChunk
<1>2. CASE Finish
  <2>1. /\ dst' \in {AfterStep[dst], "failed"} /\ dst \in {"copy", "sync", "close"}
        /\ pipe["dst"] = "closed" /\ scheme = "local"
        /\ UNCHANGED <<source, pipe, counts, taken, written, result>>
    BY <1>2 DEF Finish
  <2>2. /\ dst = "copy" => AfterStep[dst] = "sync"
        /\ dst = "sync" => AfterStep[dst] = "close"
        /\ dst = "close" => AfterStep[dst] = "done"
    BY DEF AfterStep
  <2>3. synced' \in BOOLEAN /\ (dst' \in {"close", "done"} => synced')
    BY <1>2, <2>1, <2>2 DEF Finish
  <2> QED
    BY <2>1, <2>2, <2>3
<1>3. CASE FileWrite
  BY <1>3 DEF FileWrite
<1>4. CASE CopyStdin
  BY <1>4 DEF CopyStdin
<1> QED
  BY <1>1, <1>2, <1>3, <1>4 DEF Target

LEMMA InvStep == CopyInv /\ [Next]_vars => CopyInv'
<1> SUFFICES ASSUME CopyInv, [Next]_vars PROVE CopyInv'
  OBVIOUS
<1>1. CASE UNCHANGED vars
  BY <1>1 DEF vars, source, file, counts, target, CopyInv, TypeOK, Counted, OnTheWay,
              Pipes, Destination, Unwritten, Results
<1> QED
  BY <1>1, SourceStep, ProgressStep, CallerStep, TargetStep DEF Next

LEMMA Invariant == Spec => []CopyInv
BY InvInit, InvStep, PTL DEF Spec

-----------------------------------------------------------------------------
(* The theorems *)

\* Every variable stays in its range: no more is taken, counted or written
\* than the source has.
THEOREM TypeCorrect == Spec => []TypeOK
<1>1. CopyInv => TypeOK
  BY DEF CopyInv
<1> QED
  BY <1>1, Invariant, PTL

\* A copy that is reported as done is counted in full, and to a local file
\* whole and flushed, whatever the schemes and the failures.
THEOREM OkIsWhole == Spec => []OkMeansWhole
<1>1. CopyInv => OkMeansWhole
  BY DEF CopyInv, TypeOK, Counted, OnTheWay, Pipes, Destination, Unwritten, Results, OkMeansWhole
<1> QED
  BY <1>1, Invariant, PTL

\* A local file that is flushed and closed has all that the source had sent, and
\* the source did not fail or hang.
THEOREM ClosedIsSent == Spec => []ClosedMeansSent
<1>1. CopyInv => ClosedMeansSent
  BY DEF CopyInv, TypeOK, Counted, OnTheWay, Pipes, Destination, Unwritten, ClosedMeansSent
<1> QED
  BY <1>1, Invariant, PTL

-----------------------------------------------------------------------------
(* The refinement *)

\* Where the copy is, as FileCopyAbs names it.
At == IF result # "running" THEN result
      ELSE IF dst = "open" THEN "stat"
      ELSE IF dst \in {"watch", "hung"} THEN dst
      ELSE IF Broken \/ Unattended THEN "failing"
      ELSE IF dst = "setup" THEN "setup" ELSE "copy"

\* A step that FileCopyAbs allows, or none.
Allowed == Promised' = Promised \/ FileCopyStep(Promised, Promised', total, scheme = "local")

Copy(at, bytes, count) == [at |-> at, written |-> bytes, progress |-> count]

LEMMA PromisedIs ==
  Promised = Copy(At, written, progress) /\ Promised' = Copy(At', written', progress')
BY DEF Promised, At, Copy

\* The steps of FileCopyAbs, field by field.
LEMMA AbstractSteps ==
  ASSUME NEW CONSTANT w, NEW CONSTANT p, NEW CONSTANT t, NEW CONSTANT at
  PROVE  /\ at \in {"watch", "err", "hung"} => CopyStat(Copy("stat", w, p), Copy(at, w, p))
         /\ at \in {"setup", "failing"} => CopyWatch(Copy("watch", w, p), Copy(at, w, p))
         /\ CopySetup(Copy("setup", w, p), Copy("copy", 0, p), TRUE)
         /\ CopySetup(Copy("setup", w, p), Copy("copy", w, p), FALSE)
         /\ w < t => CopyWrite(Copy("copy", w, p), Copy("copy", w + 1, p), t, TRUE)
         /\ at \in {"copy", "failing"} /\ p < t => CopyCount(Copy(at, w, p), Copy(at, w, p + 1), t)
         /\ CopySucceeds(Copy("copy", t, t), Copy("ok", t, t), t, TRUE)
         /\ CopySucceeds(Copy("failing", w, t), Copy("ok", w, t), t, FALSE)
         /\ at \in {"setup", "copy"} =>
              \A local : CopyBreaks(Copy(at, w, p), Copy("failing", w, p), local)
         /\ CopyBreaks(Copy("failing", w, p), Copy("failing", 0, p), TRUE)
         /\ at \in {"setup", "failing"} => CopyFails(Copy(at, w, p), Copy("err", w, p))
<1>1. ASSUME at \in {"watch", "err", "hung"}
      PROVE  CopyStat(Copy("stat", w, p), Copy(at, w, p))
  BY <1>1 DEF CopyStat, Copy
<1>2. ASSUME at \in {"setup", "failing"} PROVE CopyWatch(Copy("watch", w, p), Copy(at, w, p))
  BY <1>2 DEF CopyWatch, Copy
<1>3. /\ CopySetup(Copy("setup", w, p), Copy("copy", 0, p), TRUE)
      /\ CopySetup(Copy("setup", w, p), Copy("copy", w, p), FALSE)
  BY DEF CopySetup, Copy
<1>4. ASSUME w < t PROVE CopyWrite(Copy("copy", w, p), Copy("copy", w + 1, p), t, TRUE)
  BY <1>4 DEF CopyWrite, Copy
<1>5. ASSUME at \in {"copy", "failing"}, p < t
      PROVE  CopyCount(Copy(at, w, p), Copy(at, w, p + 1), t)
  BY <1>5 DEF CopyCount, Copy
<1>6. /\ CopySucceeds(Copy("copy", t, t), Copy("ok", t, t), t, TRUE)
      /\ CopySucceeds(Copy("failing", w, t), Copy("ok", w, t), t, FALSE)
  BY DEF CopySucceeds, Copy
<1>7. ASSUME at \in {"setup", "copy"}, NEW local
      PROVE  CopyBreaks(Copy(at, w, p), Copy("failing", w, p), local)
  BY <1>7 DEF CopyBreaks, Copy
<1>8. CopyBreaks(Copy("failing", w, p), Copy("failing", 0, p), TRUE)
  BY DEF CopyBreaks, Copy
<1>9. ASSUME at \in {"setup", "failing"} PROVE CopyFails(Copy(at, w, p), Copy("err", w, p))
  BY <1>9 DEF CopyFails, Copy
<1> QED
  BY <1>1, <1>2, <1>3, <1>4, <1>5, <1>6, <1>7, <1>8, <1>9

\* A step that leaves the three fields alone is none.
LEMMA Stutter ==
  ASSUME At' = At, written' = written, progress' = progress
  PROVE  Allowed
BY PromisedIs DEF Allowed

\* A step that makes the copy fail keeps the other two.
LEMMA Breaking ==
  ASSUME At \in {"setup", "copy"}, At' = "failing", UNCHANGED <<written, progress>>
  PROVE  Allowed
BY PromisedIs, AbstractSteps DEF Allowed, FileCopyStep

\* As long as one of its goroutines has something to do the copy has not
\* returned, unless it never began to write.
LEMMA Running ==
  ASSUME CopyInv
  PROVE  /\ dst \in {"open", "watch", "setup", "copy", "sync", "close", "hung"} =>
              result = "running"
         /\ pipe["progress"] = "offered" =>
              result = "running" /\ dst \notin Unwritten
         /\ pipe["dst"] = "offered" => src = "first"
BY CopyAssumption
   DEF CopyInv, TypeOK, Counted, OnTheWay, Pipes, Destination, Unwritten, Results, Before

LEMMA SourcePromise ==
  ASSUME CopyInv, Source
  PROVE  Allowed
<1>1. CASE ReadFails \/ ReadHangs
  <2>1. /\ UNCHANGED <<from, scheme, written, progress, dst, result>>
        /\ src = "read" /\ src' \in {"failed", "hung"} /\ result \in {"running", "ok", "err"}
    BY <1>1 DEF ReadFails, ReadHangs, file, counts, target, CopyInv, TypeOK
  <2>2. CASE At \in {"setup", "copy"}
    <3>1. At' = "failing"
      BY <2>1, <2>2 DEF At, Broken, Unattended
    <3> QED
      BY <2>1, <2>2, <3>1, Breaking
  <2>3. CASE At \notin {"setup", "copy"}
    <3>1. At' = At
      BY <2>1, <2>3 DEF At, Broken, Unattended
    <3> QED
      BY <2>1, <3>1, Stutter
  <2> QED
    BY <2>2, <2>3
<1>2. CASE Read \/ WroteFirst \/ WroteSecond \/ CloseProgress \/ CloseDst
  <2>1. /\ UNCHANGED <<from, scheme, written, progress, dst, result>>
        /\ src \notin {"failed", "hung"} /\ src' \notin {"failed", "hung"}
    BY <1>2 DEF Read, WroteFirst, WroteSecond, CloseProgress, CloseDst, file, counts, target
  <2> QED
    BY <2>1, Stutter DEF At, Broken, Unattended
<1> QED
  BY <1>1, <1>2 DEF Source

LEMMA ProgressPromise ==
  ASSUME CopyInv, Progress
  PROVE  Allowed
<1>1. UNCHANGED <<from, scheme, src, dst, written, result>> /\ At' = At
  BY DEF Progress, source, file, target, At, Broken, Unattended
<1>2. CASE progress' = progress
  BY <1>1, <1>2, Stutter
<1>3. CASE pipe["progress"] = "offered" /\ progress' = progress + 1
  <2>1. At \in {"copy", "failing"}
    BY <1>3, Running DEF At, Unwritten
  <2>2. progress < total
    BY <1>3, CopyAssumption DEF CopyInv, TypeOK, Counted, OnTheWay, Pipes
  <2>3. CopyCount(Promised, Promised', total)
    BY <1>1, <1>3, <2>1, <2>2, PromisedIs, AbstractSteps
  <2> QED
    BY <2>3 DEF Allowed, FileCopyStep
<1> QED
  BY <1>2, <1>3 DEF Progress

LEMMA SourceSetPromise ==
  ASSUME CopyInv, OpenSource \/ AddWatch
  PROVE  Allowed
<1>1. UNCHANGED <<written, progress>> /\ result = "running"
  BY Running DEF OpenSource, AddWatch, counts
<1>2. CASE OpenSource
  <2>1. At = "stat"
    BY <1>1, <1>2 DEF OpenSource, At
  <2>2. At' \in {"watch", "err", "hung"}
    BY <1>1, <1>2 DEF OpenSource, At
  <2>3. CopyStat(Promised, Promised')
    BY <1>1, <2>1, <2>2, PromisedIs, AbstractSteps
  <2> QED
    BY <2>3 DEF Allowed, FileCopyStep
<1>3. CASE AddWatch
  <2>1. At = "watch"
    BY <1>1, <1>3 DEF AddWatch, At
  <2>2. At' \in {"setup", "failing"}
    BY <1>1, <1>3 DEF AddWatch, At
  <2>3. CopyWatch(Promised, Promised')
    BY <1>1, <2>1, <2>2, PromisedIs, AbstractSteps
  <2> QED
    BY <2>3 DEF Allowed, FileCopyStep
<1> QED
  BY <1>2, <1>3

LEMMA SetupPromise ==
  ASSUME CopyInv, Setup
  PROVE  Allowed
<1>1. dst = "setup" /\ UNCHANGED <<from, scheme, src, progress>>
  BY DEF Setup, source, file, counts
<1>2. result = "running"
  BY <1>1, Running
<1> DEFINE sound == src \notin {"failed", "hung"} /\ from # "host"
<1>3. At = IF sound THEN "setup" ELSE "failing"
  BY <1>1, <1>2 DEF At, Broken, Unattended
<1>4. CASE dst' = "none" /\ result' = "err" /\ UNCHANGED written
  <2>1. At' = "err"
    BY <1>4 DEF At
  <2>2. CopyFails(Promised, Promised')
    BY <1>1, <1>3, <1>4, <2>1, PromisedIs, AbstractSteps
  <2> QED
    BY <2>2 DEF Allowed, FileCopyStep
<1>5. CASE dst' = "none" /\ UNCHANGED <<result, written>>
  <2>1. At' = "failing"
    BY <1>2, <1>5 DEF At, Unattended
  <2> QED
    BY <1>1, <1>3, <1>5, <2>1, Breaking, Stutter
<1>6. CASE dst' = "copy" /\ UNCHANGED result /\ written' = IF scheme = "local" THEN 0 ELSE written
  <2>1. At' = IF sound THEN "copy" ELSE "failing"
    BY <1>1, <1>2, <1>6 DEF At, Broken, Unattended
  <2>2. CASE sound
    <3>1. CopySetup(Promised, Promised', scheme = "local")
      BY <1>1, <1>3, <1>6, <2>1, <2>2, PromisedIs, AbstractSteps
    <3> QED
      BY <3>1 DEF Allowed, FileCopyStep
  <2>3. CASE ~sound /\ scheme = "local"
    <3>1. CopyBreaks(Promised, Promised', scheme = "local")
      BY <1>1, <1>3, <1>6, <2>1, <2>3, PromisedIs, AbstractSteps
    <3> QED
      BY <3>1 DEF Allowed, FileCopyStep
  <2>4. CASE ~sound /\ scheme # "local"
    BY <1>1, <1>3, <1>6, <2>1, <2>4, Stutter
  <2> QED
    BY <2>2, <2>3, <2>4
<1> QED
  BY <1>4, <1>5, <1>6 DEF Setup

LEMMA TargetPromise ==
  ASSUME CopyInv, Target
  PROVE  Allowed
<1>1. /\ dst \in {"copy", "sync", "close"} /\ result = "running"
      /\ UNCHANGED <<from, scheme, src, progress, result>>
  BY Running DEF Target, CopyChunk, Finish, FileWrite, source, file, counts
<1> DEFINE sound == src \notin {"failed", "hung"} /\ from # "host"
<1>2. At = IF sound THEN "copy" ELSE "failing"
  BY <1>1 DEF At, Broken, Unattended
<1>3. CASE (dst' = "failed" \/ (scheme = "pod" /\ dst' = "done")) /\ UNCHANGED written
  <2>1. At' = "failing"
    BY <1>1, <1>3 DEF At, Broken
  <2> QED
    BY <1>1, <1>2, <1>3, <2>1, Breaking, Stutter
<1>4. CASE scheme = "local" /\ dst' \in {"copy", "sync", "close", "done"} /\ UNCHANGED written
  <2>1. At' = At
    BY <1>1, <1>2, <1>4 DEF At, Broken, Unattended
  <2> QED
    BY <1>1, <1>4, <2>1, Stutter
<1>5. CASE CopyChunk /\ written' = written + 1 /\ UNCHANGED dst
  <2>1. scheme = "local" /\ src = "first" /\ dst = "copy" /\ from # "host"
    BY <1>5, Running DEF CopyChunk, CopyInv, Pipes
  <2>2. At = "copy" /\ At' = "copy"
    BY <1>1, <1>5, <2>1 DEF At, Broken, Unattended
  <2>3. written < total
    BY <1>5, <2>1, CopyAssumption
       DEF CopyChunk, CopyInv, TypeOK, Counted, OnTheWay, Destination, Unwritten
  <2>4. CopyWrite(Promised, Promised', total, scheme = "local")
    BY <1>1, <1>5, <2>1, <2>2, <2>3, PromisedIs, AbstractSteps
  <2> QED
    BY <2>4 DEF Allowed, FileCopyStep
<1> QED
  BY <1>1, <1>3, <1>4, <1>5 DEF Target, CopyChunk, Finish, FileWrite, AfterStep

LEMMA WaitPromise ==
  ASSUME CopyInv, Wait
  PROVE  Allowed
<1>1. /\ result = "running" /\ dst \in {"none", "done", "failed"} /\ prog = "done"
      /\ UNCHANGED <<from, scheme, src, dst, written, progress>>
  BY DEF Wait, source, file, counts, target
<1>2. src = "done"
  BY <1>1, CopyAssumption DEF Wait, CopyInv, TypeOK, Pipes
<1>3. CASE AnyError
  <2>1. At = "failing" /\ At' = "err"
    BY <1>1, <1>3 DEF At, Wait, AnyError, Broken
  <2>2. CopyFails(Promised, Promised')
    BY <1>1, <2>1, PromisedIs, AbstractSteps
  <2> QED
    BY <2>2 DEF Allowed, FileCopyStep
<1>4. CASE ~AnyError
  <2>1. At' = "ok" /\ from # "host"
    BY <1>1, <1>2, <1>4 DEF At, Wait, CopyInv, Pipes
  <2>2. progress = total
    BY <1>2, CopyAssumption DEF CopyInv, TypeOK, Counted, OnTheWay, Pipes
  <2>3. CASE scheme = "local"
    <3>1. dst = "done"
      BY <1>1, <1>4, <2>3 DEF AnyError, CopyInv, Results
    <3>2. At = "copy" /\ written = total
      BY <1>1, <1>2, <2>1, <2>3, <3>1, CopyAssumption
         DEF At, Broken, Unattended, CopyInv, TypeOK, Counted, OnTheWay, Pipes, Destination
    <3>3. CopySucceeds(Promised, Promised', total, scheme = "local")
      BY <1>1, <2>1, <2>2, <2>3, <3>2, PromisedIs, AbstractSteps
    <3> QED
      BY <3>3 DEF Allowed, FileCopyStep
  <2>4. CASE scheme # "local"
    <3>1. At = "failing"
      BY <1>1, <1>4, <2>4 DEF At, AnyError, Broken, Unattended, CopyInv, Destination
    <3>2. CopySucceeds(Promised, Promised', total, scheme = "local")
      BY <1>1, <2>1, <2>2, <2>4, <3>1, PromisedIs, AbstractSteps
    <3> QED
      BY <3>2 DEF Allowed, FileCopyStep
  <2> QED
    BY <2>3, <2>4
<1> QED
  BY <1>3, <1>4

\* ArchiveFileCopy does what FileCopyAbs, which EnvCopy runs, promises.
THEOREM ImplementsCopy == Spec => KeepsPromise
<1>1. CopyInv /\ CopyStdin => Allowed
  BY Stutter DEF CopyStdin, source, file, counts, At, Broken, Unattended
<1>2. CopyInv /\ [Next]_vars => [Allowed]_vars
  BY <1>1, SourcePromise, ProgressPromise, SourceSetPromise, SetupPromise, TargetPromise,
     WaitPromise DEF Next, Caller
<1> QED
  BY <1>2, Invariant, PTL DEF Spec, KeepsPromise, Allowed
=============================================================================
