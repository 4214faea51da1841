------------------------------- MODULE FileRead -------------------------------
(***************************************************************************)
(* Copying a file off a pod: FileRead (kube/kube.go) asks for the size and *)
(* the hash of the file, runs tail from the first byte it does not have,   *)
(* and does so again until it has as many bytes as the file had, while the *)
(* file may grow, be cut or be removed.  Exec is as PodExec has it: a      *)
(* stream that breaks ends the attempt without an error, and a command     *)
(* that complains on stderr fails it.                                      *)
(***************************************************************************)
EXTENDS Naturals, Sequences

CONSTANTS
  MaxSize,     \* bound: bytes of the file
  MaxChanges,  \* bound: changes of the file by the pod
  MaxBreaks    \* bound: streams that break

ASSUME FileReadAssumption ==
  MaxSize \in Nat /\ MaxChanges \in Nat /\ MaxBreaks \in Nat

VARIABLES
  file,         \* the file on the pod: its bytes, or Gone
  pc,           \* where FileRead is
  srcFileSize,  \* from Stat
  srcMD5,       \* the content MD5Sum hashed
  m,            \* bytes transferred
  dst,          \* the bytes written to dst, which the hasher saw too
  tail,         \* what the running tail has yet to send
  changes, breaks, fresh

vars == <<file, pc, srcFileSize, srcMD5, m, dst, tail, changes, breaks, fresh>>

Gone  == <<0>>
Bytes == 1..(MaxSize + MaxChanges)
Steps == {"stat", "md5", "exec", "copy", "check", "ok", "err", "hung"}

\* No hash yet, or the empty answer of an md5sum whose stream broke.
NoHash == <<0>>

TypeOK ==
  /\ file \in Seq(Bytes) \cup {Gone}
  /\ pc \in Steps
  /\ srcFileSize \in Nat
  /\ srcMD5 \in Seq(Bytes) \cup {NoHash}
  /\ m \in Nat
  /\ dst \in Seq(Bytes)
  /\ tail \in Seq(Bytes)
  /\ changes \in 0..MaxChanges /\ breaks \in 0..MaxBreaks
  /\ fresh \in Bytes \cup {MaxSize + MaxChanges + 1}

\* Every byte of the file is told apart from every other one.
Init ==
  /\ \E size \in 0..MaxSize : file = [i \in 1..size |-> i] /\ fresh = size + 1
  /\ pc = "stat" /\ srcFileSize = 0 /\ srcMD5 = NoHash
  /\ m = 0 /\ dst = <<>> /\ tail = <<>>
  /\ changes = 0 /\ breaks = 0

local == <<pc, srcFileSize, srcMD5, m, dst>>

-----------------------------------------------------------------------------
(* The pod: a backup being written grows; a file may be cut or removed.     *)
(* A tail that runs and has come to the end of the file may see the change, *)
(* or may have read that far before it; one that is past the end sees none. *)

AtEnd == pc = "copy" /\ m + Len(tail) = Len(file)

Grow ==
  /\ file # Gone /\ changes < MaxChanges /\ Len(file) < MaxSize
  /\ file' = Append(file, fresh) /\ fresh' = fresh + 1
  /\ tail' \in IF AtEnd THEN {tail, Append(tail, fresh)} ELSE {tail}
  /\ changes' = changes + 1
  /\ UNCHANGED <<local, breaks>>

Cut ==
  /\ file # Gone /\ file # <<>> /\ changes < MaxChanges
  /\ file' = SubSeq(file, 1, Len(file) - 1)
  /\ tail' \in IF AtEnd /\ tail # <<>> THEN {tail, SubSeq(tail, 1, Len(tail) - 1)} ELSE {tail}
  /\ changes' = changes + 1
  /\ UNCHANGED <<local, breaks, fresh>>

Remove ==
  /\ file # Gone /\ changes < MaxChanges
  /\ file' = Gone /\ changes' = changes + 1
  /\ UNCHANGED <<local, tail, breaks, fresh>>

-----------------------------------------------------------------------------
(* FileRead *)

\* Stat and MD5Sum go through ExecSync, which never returns when the command
\* complains, here because the file is gone, and returns an empty answer when
\* the stream broke.  Stat cannot parse that one, MD5Sum takes it for a hash.
Stat ==
  /\ pc = "stat"
  /\ \/ /\ file # Gone /\ pc' = "md5" /\ srcFileSize' = Len(file)
        /\ UNCHANGED breaks
     \/ /\ file = Gone /\ pc' = "hung" /\ UNCHANGED <<srcFileSize, breaks>>
     \/ /\ breaks < MaxBreaks /\ breaks' = breaks + 1
        /\ pc' = "err" /\ UNCHANGED srcFileSize
  /\ UNCHANGED <<file, srcMD5, m, dst, tail, changes, fresh>>

MD5Sum ==
  /\ pc = "md5"
  /\ \/ /\ file # Gone /\ pc' = "exec" /\ srcMD5' = file
        /\ UNCHANGED breaks
     \/ /\ file = Gone /\ pc' = "hung" /\ UNCHANGED <<srcMD5, breaks>>
     \/ /\ breaks < MaxBreaks /\ breaks' = breaks + 1
        /\ pc' = "exec" /\ UNCHANGED srcMD5
  /\ UNCHANGED <<file, srcFileSize, m, dst, tail, changes, fresh>>

\* Mutant: tail counts from one, and so does the caller.
FromNext(n) == SubSeq(file, n + 1, Len(file))

\* tail -c +(m+1): the file from its byte m+1 on.
From(n) == SubSeq(file, n, Len(file))

\* An attempt begins: tail opens the file, or complains that it is gone, which
\* is not noticed when the stream breaks first.
Exec ==
  /\ pc = "exec"
  /\ \/ file # Gone /\ pc' = "copy" /\ tail' = From(m + 1) /\ UNCHANGED breaks
     \/ file = Gone /\ pc' = "err" /\ UNCHANGED <<tail, breaks>>
     \/ /\ file = Gone /\ breaks < MaxBreaks /\ breaks' = breaks + 1
        /\ pc' = "check" /\ UNCHANGED tail
  /\ UNCHANGED <<file, srcFileSize, srcMD5, m, dst, changes, fresh>>

\* A read of the pipe: some bytes go to the hasher and to dst.
Forward ==
  /\ pc = "copy" /\ tail # <<>>
  /\ \E o \in 1..Len(tail) :
       /\ dst' = dst \o SubSeq(tail, 1, o)
       /\ tail' = SubSeq(tail, o + 1, Len(tail))
       /\ m' = m + o
  /\ UNCHANGED <<file, pc, srcFileSize, srcMD5, changes, breaks, fresh>>

\* The pipe is closed when tail has sent everything or the stream broke.
EndOfStream ==
  /\ pc = "copy"
  /\ \/ tail = <<>> /\ UNCHANGED breaks
     \/ breaks < MaxBreaks /\ breaks' = breaks + 1
  /\ pc' = "check" /\ tail' = <<>>
  /\ UNCHANGED <<file, srcFileSize, srcMD5, m, dst, changes, fresh>>

\* Mutants: the hashes are not compared; a short transfer is not resumed; a
\* whole one is; the step after is unknown.
VerdictBySize == IF m < srcFileSize THEN "exec" ELSE "ok"
VerdictAtOnce == IF m >= srcFileSize /\ dst = srcMD5 THEN "ok" ELSE "err"
VerdictNever  == IF m <= srcFileSize THEN "exec" ELSE IF dst = srcMD5 THEN "ok" ELSE "err"
VerdictDone   == "done"

\* All the bytes: compare the hashes.  Fewer: try again from where it ended.
Verdict ==
  IF m < srcFileSize THEN "exec" ELSE IF dst = srcMD5 THEN "ok" ELSE "err"

Check ==
  /\ pc = "check"
  /\ pc' = Verdict
  /\ UNCHANGED <<file, srcFileSize, srcMD5, m, dst, tail, changes, breaks, fresh>>

Transfer == Stat \/ MD5Sum \/ Exec \/ Forward \/ EndOfStream \/ Check

Next == Transfer \/ Grow \/ Cut \/ Remove

\* FileRead goes on; the pod does nothing it must, and streams need not break.
Spec == Init /\ [][Next]_vars /\ WF_vars(Transfer)

-----------------------------------------------------------------------------
(* Properties *)

\* A resumed transfer repeats no byte and skips none, wherever the streams
\* broke: what dst has of an untouched file is its first m bytes.
PrefixOfFile == changes = 0 => dst = SubSeq(file, 1, m)

\* What FileRead reports as copied is the file as it stood when it was
\* hashed, whatever happened to it since.
OkMeansHashed == pc = "ok" => dst = srcMD5 /\ Len(dst) >= srcFileSize

\* A file nobody touches is copied: once its size and hash are known, only a
\* change of the file makes FileRead fail, however often the stream breaks.
UntouchedSucceeds == pc = "err" /\ srcMD5 # NoHash => changes > 0

\* While nobody touches the file a transfer that began ends: after the last
\* of its streams that break, one brings the rest.
UntouchedEnds == pc = "exec" ~> (pc \in {"ok", "err"} \/ changes > 0)

\* "If the connection fails due to a premature EOF, we retry. otherwise, we
\* fail": a transfer that began ends, also when the pod has cut the file.
TransferEnds == pc = "exec" ~> pc \in {"ok", "err"}
=============================================================================
