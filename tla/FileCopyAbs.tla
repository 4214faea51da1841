----------------------------- MODULE FileCopyAbs -----------------------------
(***************************************************************************)
(* What copying one archive file promises to those who call it.  A copy    *)
(* is where it is, the chunks its destination file has and the chunks the  *)
(* progress has counted.  A copy that meets a failure, or a destination    *)
(* that is not local, may report it, report success all the same, or never *)
(* return; so may never one whose source is on a pod that does not answer  *)
(* as expected.  ArchiveFileCopy is shown to implement this and EnvCopy    *)
(* runs several of it.                                                     *)
(***************************************************************************)
EXTENDS Naturals

CopyAts == {"stat", "watch", "setup", "copy", "failing", "hung", "ok", "err"}

\* The source is looked up.
CopyStat(c, d) ==
  c.at = "stat" /\ \E at \in {"watch", "err", "hung"} : d = [c EXCEPT !.at = at]

\* The watch is added; what reads the source may have failed by then.
CopyWatch(c, d) ==
  c.at = "watch" /\ \E at \in {"setup", "failing"} : d = [c EXCEPT !.at = at]

\* The destination is ready: a local file is emptied.
CopySetup(c, d, local) ==
  /\ c.at = "setup"
  /\ \/ local /\ d = [at |-> "copy", written |-> 0, progress |-> c.progress]
     \/ ~local /\ d = [c EXCEPT !.at = "copy"]

\* Only a local destination is ever written.
CopyWrite(c, d, total, local) ==
  /\ local /\ c.at = "copy" /\ c.written < total
  /\ d = [c EXCEPT !.written = @ + 1]

CopyCount(c, d, total) ==
  /\ c.at \in {"copy", "failing"} /\ c.progress < total
  /\ d = [c EXCEPT !.progress = @ + 1]

\* Success is reported of a file that is counted in full, and if it is local
\* whole; if it is not, nothing was written.
CopySucceeds(c, d, total, local) ==
  /\ IF local THEN c.at = "copy" /\ c.written = total ELSE c.at = "failing"
  /\ c.progress = total
  /\ d = [c EXCEPT !.at = "ok"]

\* The source or the destination fails; the latter may be emptied after it.
CopyBreaks(c, d, local) ==
  \/ c.at \in {"setup", "copy"} /\ d = [c EXCEPT !.at = "failing"]
  \/ local /\ c.at = "failing" /\ d = [c EXCEPT !.written = 0]

CopyFails(c, d) ==
  c.at \in {"setup", "failing"} /\ d = [c EXCEPT !.at = "err"]

FileCopyStep(c, d, total, local) ==
  \/ CopyStat(c, d) \/ CopyWatch(c, d)
  \/ CopySetup(c, d, local) \/ CopyWrite(c, d, total, local) \/ CopyCount(c, d, total)
  \/ CopySucceeds(c, d, total, local) \/ CopyBreaks(c, d, local) \/ CopyFails(c, d)
=============================================================================
