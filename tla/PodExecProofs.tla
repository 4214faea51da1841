---------------------------- MODULE PodExecProofs ----------------------------
(***************************************************************************)
(* What is proved of PodExec for outputs of any length: TypeOK, and that a *)
(* success of ExecSync means no complaint and, unless the stream broke,    *)
(* the whole output.                                                       *)
(***************************************************************************)
EXTENDS PodExec, TLAPS

\* A chunk that was offered is on its way: none is lost or made up.
OnTheWay(pipe) == IF pipe = "offered" THEN 1 ELSE 0

Counted ==
  /\ outLen + outLeft + OnTheWay(stdout) = outTotal
  /\ stderrLen + errLeft + OnTheWay(stderr) <= MaxErr

\* A stream whose stderr is closed has ended, with nothing on its way.
Settled ==
  stderr = "closed" =>
    stream = "ended" /\ (broke \/ CopiedAll) /\ stdout # "offered"

\* What each goroutine has returned, the next one goes by.
Verdicts ==
  /\ exec = "ok" => stderr = "closed" /\ stderrLen = 0
  /\ closer = "done" => exec = "ok"
  /\ stdout = "closed" => closer = "done"
  /\ readAll = "done" => stdout = "closed"
  /\ result = "ok" => readAll = "done"

ExecInv == TypeOK /\ Counted /\ Settled /\ Verdicts

LEMMA InvInit == Init => ExecInv
<1> SUFFICES ASSUME Init PROVE ExecInv
  OBVIOUS
<1>1. broke \in BOOLEAN
  BY Zenon DEF Init
<1>2. TypeOK
  BY <1>1, PodExecAssumption DEF Init, TypeOK, Pipe
<1>3. Counted /\ Settled /\ Verdicts
  BY PodExecAssumption DEF Init, Counted, OnTheWay, Settled, Verdicts
<1> QED
  BY <1>2, <1>3 DEF ExecInv

LEMMA InvStep == ExecInv /\ [Next]_vars => ExecInv'
<1> SUFFICES ASSUME ExecInv, [Next]_vars PROVE ExecInv'
  OBVIOUS
<1> USE PodExecAssumption
        DEF ExecInv, TypeOK, Pipe, Counted, OnTheWay, Settled, Verdicts, CopiedAll
<1>1. CASE Start
  BY <1>1 DEF Start, syncVars
<1>2. CASE CopyOut
  BY <1>2 DEF CopyOut, execVars, syncVars
<1>3. CASE CopyErr
  BY <1>3 DEF CopyErr, execVars, syncVars
<1>4. CASE Break
  BY <1>4 DEF Break, execVars, syncVars
<1>5. CASE StreamReturns
  BY <1>5 DEF StreamReturns, execVars, syncVars
<1>6. CASE StderrRead
  BY <1>6 DEF StderrRead, StderrReadable, syncVars
<1>7. CASE ExecReturns
  BY <1>7 DEF ExecReturns, StderrVerdict, streamVars, syncVars
<1>8. CASE CloseStdout
  BY <1>8 DEF CloseStdout, AfterExec, execVars
<1>9. CASE ReadAll
  BY <1>9 DEF ReadAll, execVars
<1>10. CASE ExecSyncReturns
  BY <1>10 DEF ExecSyncReturns, streamVars, execVars
<1>11. CASE UNCHANGED vars
  BY <1>11 DEF vars, streamVars, execVars, syncVars
<1> QED
  BY <1>1, <1>2, <1>3, <1>4, <1>5, <1>6, <1>7, <1>8, <1>9, <1>10, <1>11
  DEF Next, Stream, Sync

LEMMA Invariant == Spec => []ExecInv
<1>1. Init => ExecInv
  BY InvInit
<1>2. ExecInv /\ [Next]_vars => ExecInv'
  BY InvStep
<1> QED
  BY <1>1, <1>2, PTL DEF Spec

\* Every variable stays in its range: no pipe is left in between, and no more
\* is read than was written.
THEOREM TypeCorrect == Spec => []TypeOK
<1>1. ExecInv => TypeOK
  BY DEF ExecInv
<1> QED
  BY <1>1, Invariant, PTL

\* A command that complained on stderr is never reported as a success,
\* whatever it writes to stdout and wherever its stream breaks.
THEOREM ComplaintsAreReported == Spec => []ComplaintsReported
<1>1. ExecInv => ComplaintsReported
  BY DEF ExecInv, TypeOK, Settled, Verdicts, CopiedAll, ComplaintsReported
<1> QED
  BY <1>1, Invariant, PTL

\* The output of a success is all that the command wrote, of any length,
\* unless the stream broke.
THEOREM OutputIsWhole == Spec => []WholeOutput
<1>1. ExecInv => WholeOutput
  BY DEF ExecInv, TypeOK, Counted, OnTheWay, Settled, Verdicts, CopiedAll, WholeOutput
<1> QED
  BY <1>1, Invariant, PTL
=============================================================================
