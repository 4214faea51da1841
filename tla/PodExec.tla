------------------------------- MODULE PodExec -------------------------------
(***************************************************************************)
(* Running a command on a pod: Exec and ExecSync (kube/kube.go).  The      *)
(* goroutines of ExecSync and of Exec are joined by two io.Pipes, on which *)
(* a write waits until it is read; the command writes any mix of stdout    *)
(* and stderr, and its stream may break.                                   *)
(***************************************************************************)
EXTENDS Naturals

CONSTANTS
  MaxOut,   \* bound: chunks a command writes to stdout
  MaxErr,   \* bound: chunks it writes to stderr
  Refused   \* whether the executor may fail to be made

ASSUME PodExecAssumption == MaxOut \in Nat /\ MaxErr \in Nat /\ Refused \in BOOLEAN

VARIABLES
  outLeft, errLeft,  \* what the command has yet to write
  broke,             \* the stream broke, or the command ended with an error
  stream,            \* the goroutine of Exec that runs exec.Stream
  stdout, stderr,    \* the pipes
  stderrLen,         \* what the goroutine of Exec that reads stderr has
  exec,              \* what Exec has returned
  closer,            \* the goroutine of ExecSync that calls Exec
  readAll,           \* the goroutine of ExecSync that reads stdout
  outLen, outTotal,  \* what it has read, and what the command writes
  result             \* what ExecSync has returned

streamVars == <<outLeft, errLeft, broke, stream, stdout, stderr>>
execVars   == <<stderrLen, exec>>
syncVars   == <<closer, readAll, outLen, result>>
vars       == <<streamVars, execVars, syncVars, outTotal>>

Pipe == {"empty", "offered", "closed"}

TypeOK ==
  /\ outLeft \in 0..MaxOut /\ errLeft \in 0..MaxErr
  /\ broke \in BOOLEAN
  /\ stream \in {"start", "copy", "ended"}
  /\ stdout \in Pipe /\ stderr \in Pipe
  /\ stderrLen \in 0..MaxErr
  /\ exec \in {"running", "ok", "err"}
  /\ closer \in {"exec", "done", "failed"}
  /\ readAll \in {"read", "done"}
  /\ outLen \in 0..MaxOut /\ outTotal \in 0..MaxOut
  /\ result \in {"running", "ok", "err"}

Init ==
  /\ outTotal \in 0..MaxOut /\ outLeft = outTotal /\ errLeft \in 0..MaxErr
  /\ broke = FALSE /\ stream = "start" /\ stdout = "empty" /\ stderr = "empty"
  /\ stderrLen = 0 /\ exec = "running"
  /\ closer = "exec" /\ readAll = "read" /\ outLen = 0 /\ result = "running"

-----------------------------------------------------------------------------
(* Exec *)

\* Exec starts its goroutines, or fails to make an executor.
Start ==
  /\ stream = "start"
  /\ \/ stream' = "copy" /\ UNCHANGED exec
     \/ Refused /\ stream' = "ended" /\ exec' = "err"
  /\ UNCHANGED <<outLeft, errLeft, broke, stdout, stderr, stderrLen, syncVars, outTotal>>

\* exec.Stream copies both outputs at once, each into its pipe.
CopyOut ==
  /\ stream = "copy" /\ ~broke /\ outLeft > 0 /\ stdout = "empty"
  /\ stdout' = "offered" /\ outLeft' = outLeft - 1
  /\ UNCHANGED <<errLeft, broke, stream, stderr, execVars, syncVars, outTotal>>

CopyErr ==
  /\ stream = "copy" /\ ~broke /\ errLeft > 0 /\ stderr = "empty"
  /\ stderr' = "offered" /\ errLeft' = errLeft - 1
  /\ UNCHANGED <<outLeft, broke, stream, stdout, execVars, syncVars, outTotal>>

Break ==
  /\ stream = "copy" /\ ~broke
  /\ broke' = TRUE
  /\ UNCHANGED <<outLeft, errLeft, stream, stdout, stderr, execVars, syncVars, outTotal>>

\* Mutant: the copy of stdout is not waited for.
StderrCopied == errLeft = 0

CopiedAll == outLeft = 0 /\ errLeft = 0

\* exec.Stream returns.  Its error is logged and overwritten; stderr is closed.
StreamReturns ==
  /\ stream = "copy"
  /\ broke \/ CopiedAll
  /\ stdout # "offered" /\ stderr # "offered"
  /\ stream' = "ended" /\ stderr' = "closed"
  /\ UNCHANGED <<outLeft, errLeft, broke, stdout, execVars, syncVars, outTotal>>

\* Mutant: stderr is read after the stream.
StderrReadLast == stderr = "offered" /\ stream = "ended"

\* The goroutine that reads stderr reads from the start.
StderrReadable == stderr = "offered"

StderrRead ==
  /\ StderrReadable
  /\ stderr' = "empty" /\ stderrLen' = stderrLen + 1
  /\ UNCHANGED <<outLeft, errLeft, broke, stream, stdout, exec, syncVars, outTotal>>

\* Mutant: stderr is read and forgotten.
NoVerdict == "ok"

\* Exec fails if anything was read from stderr.
StderrVerdict == IF stderrLen > 0 THEN "err" ELSE "ok"

\* Both goroutines of Exec have ended.
ExecReturns ==
  /\ exec = "running" /\ stream = "ended" /\ stderr = "closed"
  /\ exec' = StderrVerdict
  /\ UNCHANGED <<streamVars, stderrLen, syncVars, outTotal>>

-----------------------------------------------------------------------------
(* ExecSync *)

\* Mutants: stdout is never closed, or left half closed.
NeverClose(verdict) == stdout
HalfClose(verdict) == "closing"

\* stdout is closed only when Exec succeeded.
AfterExec(verdict) == IF verdict = "ok" THEN "closed" ELSE stdout

CloseStdout ==
  /\ closer = "exec" /\ exec # "running"
  /\ closer' = IF exec = "ok" THEN "done" ELSE "failed"
  /\ stdout' = AfterExec(exec)
  /\ UNCHANGED <<outLeft, errLeft, broke, stream, stderr, execVars, readAll, outLen, result, outTotal>>

ReadAll ==
  /\ readAll = "read"
  /\ \/ /\ stdout = "offered" /\ stdout' = "empty" /\ outLen' = outLen + 1
        /\ UNCHANGED readAll
     \/ /\ stdout = "closed" /\ readAll' = "done"
        /\ UNCHANGED <<stdout, outLen>>
  /\ UNCHANGED <<outLeft, errLeft, broke, stream, stderr, execVars, closer, result, outTotal>>

ExecSyncReturns ==
  /\ result = "running" /\ closer # "exec" /\ readAll = "done"
  /\ result' = IF closer = "failed" THEN "err" ELSE "ok"
  /\ UNCHANGED <<streamVars, execVars, closer, readAll, outLen, outTotal>>

Stream == Start \/ CopyOut \/ CopyErr \/ StreamReturns
Sync   == CloseStdout \/ ExecSyncReturns

Next == Stream \/ Break \/ StderrRead \/ ExecReturns \/ Sync \/ ReadAll

\* Every goroutine runs and the command ends; the stream need not break.
Spec ==
  /\ Init /\ [][Next]_vars
  /\ WF_vars(Stream) /\ WF_vars(StderrRead) /\ WF_vars(ExecReturns)
  /\ WF_vars(Sync) /\ WF_vars(ReadAll)

-----------------------------------------------------------------------------
(* Properties *)

\* Exec itself always returns, however much the command writes to stdout and
\* stderr in whatever order: neither pipe can hold the other up.
ExecEnds == <>(exec # "running")

\* A command that complained on stderr is never reported as a success.
ComplaintsReported == result = "ok" => stderrLen = 0 /\ (errLeft = 0 \/ broke)

\* What ExecSync returns as a success is all that the command wrote, unless
\* the stream broke.
WholeOutput == result = "ok" /\ ~broke => outLen = outTotal

\* An Exec that succeeded is returned from: its output is read to the end and
\* the pipe of it is closed, also when the stream broke.
SuccessReturns == exec = "ok" ~> result # "running"

\* "returns the output from stdout or err as a string and err": ExecSync
\* returns, whatever Exec does.
SyncEnds == <>(result # "running")
=============================================================================
