------------------------------ MODULE RestoreAbs ------------------------------
(***************************************************************************)
(* What the restore of an environment promises, whatever it is made of: a  *)
(* server is wiped before it loads anything, loads the files meant for it  *)
(* in the order of the snapshot, and the run is called done only when      *)
(* every server of a picked service holds exactly its files.  A run may    *)
(* fail at any time and leave what it has done.  A server that answers its *)
(* wipe with the error that is ignored is excused: it may keep what it     *)
(* held before.                                                            *)
(***************************************************************************)
EXTENDS Naturals, Sequences

CONSTANTS Service, Archive, Server, Servers, Old

VARIABLES status, snapshot, content, excused
absVars == <<status, snapshot, content, excused>>

\* The files among the first n of the snapshot that are meant for server v.
MeantFor(v, n) == {snapshot[i] : i \in {k \in 1..n : v \in Servers[snapshot[k]]}}

Destinations == UNION {Servers[snapshot[i]] : i \in DOMAIN snapshot}

\* What server v may keep.
Kept(v) == IF v \in excused THEN {Old} ELSE {}

AbsInit ==
  /\ status = "idle" /\ snapshot = <<>> /\ excused = {}
  /\ content \in [Server -> SUBSET {Old}]

Begin ==
  /\ status # "running"
  /\ snapshot' \in Seq(Archive)
  /\ content' = [v \in Server |-> IF content[v] = {} THEN {} ELSE {Old}]
  /\ excused' = {}
  /\ \/ status' = "running" /\ \A i \in DOMAIN snapshot' : snapshot'[i] \in Service
     \/ status' = "failed"

Wipe(v) ==
  /\ status = "running"
  /\ content' = [content EXCEPT ![v] = {}]
  /\ excused' = excused \ {v}
  /\ UNCHANGED <<status, snapshot>>

\* The error of v is ignored.
Excuse(v) ==
  /\ status = "running"
  /\ excused' = excused \cup {v}
  /\ UNCHANGED <<status, snapshot, content>>

LoadNext(v, k) ==
  /\ status = "running"
  /\ content[v] \ Kept(v) = MeantFor(v, k - 1) /\ v \in Servers[snapshot[k]]
  /\ content' = [content EXCEPT ![v] = @ \cup {snapshot[k]}]
  /\ UNCHANGED <<status, snapshot, excused>>

End ==
  /\ status = "running"
  /\ \/ status' = "failed"
     \/ /\ status' = "done"
        /\ \A v \in Destinations : content[v] \ Kept(v) = MeantFor(v, Len(snapshot))
  /\ UNCHANGED <<snapshot, content, excused>>

AbsNext ==
  \/ Begin
  \/ \E v \in Server : Wipe(v) \/ Excuse(v) \/ \E k \in DOMAIN snapshot : LoadNext(v, k)
  \/ End

AbsSpec == AbsInit /\ [][AbsNext]_absVars
=============================================================================
