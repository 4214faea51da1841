------------------------------ MODULE EnvRestore ------------------------------
(***************************************************************************)
(* The restore of an environment from one snapshot: EnvRestore             *)
(* (schema/envRestore.go) and the Service operations it drives             *)
(* (schema/service.go): StartStop, WaitForDrain, Reset, Stage, Restore and *)
(* RAFTReset, once per endpoint or once per picked file, with the fan-out  *)
(* to the pods of a statefulset, partial failures, and a command that      *)
(* dies at any step and is run again.                                      *)
(***************************************************************************)
EXTENDS Naturals, Sequences, FiniteSets

CONSTANTS
  Service,      \* the names of the destination services
  Archive,      \* the names of the source archives (ServiceName of each)
  Server,       \* the running servers: pods, or the local process
  Scheme,       \* Scheme[s]: the scheme of the spec of service s
  Endpoint,     \* Endpoint[s]: the key Host:Port of service s
  Servers,      \* Servers[s]: the servers that answer for service s
  RestoreURL,   \* RestoreURL[s]: the restore path the spec of s names
  ServedURLs,   \* the paths the servers have a handler for
  NoURL,        \* the empty path
  Local,        \* the machine the command runs on
  ArchiveAt,    \* ArchiveAt[a]: where the files of a are: a pod, or Local
  SelfLink,     \* a link to the restore folder itself
  Stale,        \* a link to the file of another snapshot
  MaxFaults,    \* bound: external failures in a behaviour
  MaxRuns       \* bound: times the command is run

Schemes == {"statefulset", "pod", "host", "local"}

ASSUME ConstantsAssumption ==
  /\ IsFiniteSet(Archive)
  /\ Scheme \in [Service -> Schemes]
  /\ Servers \in [Service -> SUBSET Server]
  /\ \A s \in Service : Scheme[s] # "statefulset" => \E v \in Server : Servers[s] = {v}
  /\ NoURL \notin ServedURLs
  /\ {SelfLink, Stale} \cap Archive = {} /\ SelfLink # Stale
  /\ Local \notin Server
  /\ MaxFaults \in Nat
  /\ MaxRuns \in Nat

VARIABLES
  phase,     \* where EnvRestore is
  picked,    \* the archives of srcArchiveFileSet.ArchiveFiles, in order
  cur,       \* index of the file being staged and restored
  op,        \* op[s]: the operation the goroutine for service s is in
  pend,      \* pend[s]: the servers the fan-out of op[s] has not called yet
  bad,       \* bad[s]: some call of the fan-out failed
  selector,  \* selector[s]: the Pause key in the Kubernetes service's selector
  old,       \* servers that hold data that is not of the picked snapshot
  unwiped,   \* servers that hold such data and that the command takes for wiped
  loads,     \* loads[v][a]: times server v has loaded the file of archive a
  folder,    \* folder[v]: what the restore folder of server v links to
  raftReset, \* servers whose raft was reset since they last loaded data
  faults, runs

cli    == <<phase, picked, cur, op, pend, bad>>
stored == <<old, unwiped, loads, folder, raftReset>>
vars   == <<cli, selector, stored, faults, runs>>

FanOps == {"reset", "stage", "restore", "raft"}
Ops    == FanOps \cup {"none", "stop", "drain", "start", "ok", "err", "hung"}
Phases == {"idle", "prepare", "load", "restart", "done", "fatal"}
Links  == Archive \cup {SelfLink, Stale}
NoLoad == [a \in Archive |-> 0]

TypeOK ==
  /\ phase \in Phases
  /\ picked \in Seq(Archive)
  /\ cur \in Nat
  /\ op \in [Service -> Ops]
  /\ pend \in [Service -> SUBSET Server]
  /\ bad \in [Service -> BOOLEAN]
  /\ selector \in [Service -> {"unset", "Pause"}]
  /\ old \in SUBSET Server /\ unwiped \in SUBSET Server
  /\ loads \in [Server -> [Archive -> Nat]]
  /\ folder \in [Server -> SUBSET Links]
  /\ raftReset \in SUBSET Server
  /\ faults \in 0..MaxFaults
  /\ runs \in 0..MaxRuns

-----------------------------------------------------------------------------
(* Helpers *)

\* The snapshots the picker offers: at most one file of each archive, in the
\* order of their times, which says nothing of the names.
Snapshots == {q \in UNION {[1..n -> Archive] : n \in 1..Cardinality(Archive)} :
                \A i, j \in DOMAIN q : q[i] = q[j] => i = j}

PickedServices == {picked[i] : i \in DOMAIN picked}

\* Mutant: one endpoint stands for all.
OnlyFirstEndpoint(q) == {q[1]}

\* DoOncePerEndpoint: the first service of q on each Host:Port.
OncePerEndpoint(q) ==
  {q[i] : i \in {k \in DOMAIN q :
                   \A j \in 1..(k - 1) : Endpoint[q[j]] # Endpoint[q[k]]}}

\* Mutant: no service is posted its path.
NoPostedURL(s) == NoURL

\* ServicePodGet copies no RestoreURL into the service of a pod.
PostedURL(s) == IF Scheme[s] = "statefulset" THEN NoURL ELSE RestoreURL[s]

\* Mutant: the folder is not emptied.
StagedOnTop(v, a) == folder[v] \cup {a}

\* What Stage leaves in the folder of local server v: one link.
Staged(v, a) == {a}

\* What the server loads: every file its restore folder has a link to.
Loaded(v) == [a \in Archive |-> loads[v][a] + IF a \in folder[v] THEN 1 ELSE 0]

Running == phase \in {"prepare", "load", "restart"}
Fault   == faults < MaxFaults /\ faults' = faults + 1

\* Goroutines for the services S, each starting with operation first.
StartOps(S, first) ==
  /\ op'   = [s \in Service |-> IF s \in S THEN first ELSE "none"]
  /\ pend' = [s \in Service |-> IF s \in S THEN Servers[s] ELSE {}]
  /\ bad'  = [s \in Service |-> FALSE]

StopOps == StartOps({}, "none")

SetOp(s, next) ==
  /\ op'   = [op EXCEPT ![s] = next]
  /\ pend' = [pend EXCEPT ![s] = Servers[s]]
  /\ bad'  = [bad EXCEPT ![s] = FALSE]

Init ==
  /\ phase = "idle" /\ picked = <<>> /\ cur = 0
  /\ op = [s \in Service |-> "none"]
  /\ pend = [s \in Service |-> {}]
  /\ bad = [s \in Service |-> FALSE]
  /\ \E key \in {"unset", "Pause"} :
       selector = [s \in Service |-> IF Scheme[s] = "statefulset" THEN key ELSE "unset"]
  /\ old = Server /\ unwiped = {}
  /\ loads = [v \in Server |-> NoLoad]
  /\ \E left \in {{}, {Stale}} : folder = [v \in Server |-> left]
  /\ raftReset = {}
  /\ faults = 0 /\ runs = 0

-----------------------------------------------------------------------------
(* The command starts: the user picks a snapshot, every file of it must    *)
(* have a destination service.  What servers hold or link to now is not of *)
(* this snapshot.                                                          *)
Pick(q) ==
  /\ phase \in {"idle", "done", "fatal"} /\ runs < MaxRuns
  /\ runs' = runs + 1
  /\ picked' = q /\ cur' = 1
  /\ old' = old \cup unwiped \cup {v \in Server : loads[v] # NoLoad}
  /\ unwiped' = {}
  /\ loads' = [v \in Server |-> NoLoad]
  /\ folder' = [v \in Server |-> IF folder[v] \subseteq {SelfLink} THEN folder[v] ELSE {Stale}]
  /\ IF \A i \in DOMAIN q : q[i] \in Service
     THEN phase' = "prepare" /\ StartOps(OncePerEndpoint(q), "stop")
     ELSE phase' = "fatal" /\ StopOps
  /\ UNCHANGED <<selector, raftReset, faults>>

\* The process is killed; requests the servers already handled stay done.
Crash ==
  /\ Running /\ Fault
  /\ phase' = "fatal" /\ StopOps
  /\ UNCHANGED <<picked, cur, selector, stored, runs>>

-----------------------------------------------------------------------------
(* Service operations *)

\* StartStop: start = FALSE deletes the Pause key, start = TRUE sets it.
\* The result of Update is dropped, so a failed update changes nothing and
\* goes on; a failed get ends the goroutine.
StartStop(s, start) ==
  /\ op[s] = IF start THEN "start" ELSE "stop"
  /\ LET next == IF start THEN "ok" ELSE "drain"
     IN IF Scheme[s] = "statefulset"
        THEN \/ /\ selector' = [selector EXCEPT ![s] = IF start THEN "Pause" ELSE "unset"]
                /\ SetOp(s, next)
                /\ UNCHANGED faults
             \/ Fault /\ SetOp(s, next) /\ UNCHANGED selector
             \/ Fault /\ SetOp(s, "err") /\ UNCHANGED selector
        ELSE SetOp(s, next) /\ UNCHANGED <<selector, faults>>
  /\ UNCHANGED <<phase, picked, cur, stored, runs>>

\* WaitForDrain: a poll sees no request in flight, or the twenty polls run
\* out or one of them fails.
WaitForDrain(s) ==
  /\ op[s] = "drain"
  /\ \/ SetOp(s, "reset") /\ UNCHANGED faults
     \/ Fault /\ SetOp(s, "err")
  /\ UNCHANGED <<phase, picked, cur, selector, stored, runs>>

\* One call of a fan-out returns: with success or, whatever the server did,
\* with an error (the reply may be lost).
Reply(s, v, ok) ==
  /\ pend' = [pend EXCEPT ![s] = @ \ {v}]
  /\ bad'  = [bad EXCEPT ![s] = @ \/ ~ok]
  /\ IF ok THEN UNCHANGED faults ELSE Fault
  /\ UNCHANGED <<phase, picked, cur, op, selector, runs>>

\* A call returns with an error that has "file already closed" in its text:
\* Reset ignores it.
ReplyIgnored(s, v) ==
  /\ pend' = [pend EXCEPT ![s] = @ \ {v}]
  /\ Fault
  /\ UNCHANGED <<phase, picked, cur, op, bad, selector, runs>>

\* Reset of one server.  It is also what Stage does to a statefulset.  The
\* server is emptied, whatever it answers; or it answers with an error and is
\* not; or with one that is ignored, and holds on to what it held.
Reset(s, v) ==
  /\ op[s] = "reset" \/ (op[s] = "stage" /\ Scheme[s] = "statefulset")
  /\ v \in pend[s]
  /\ \/ /\ old' = old \ {v} /\ unwiped' = unwiped \ {v}
        /\ loads' = [loads EXCEPT ![v] = NoLoad]
        /\ \E ok \in BOOLEAN : Reply(s, v, ok)
     \/ Reply(s, v, FALSE) /\ UNCHANGED <<old, unwiped, loads>>
     \/ /\ old' = old \ {v} /\ unwiped' = unwiped \cup ({v} \cap old)
        /\ ReplyIgnored(s, v)
        /\ UNCHANGED loads
  /\ UNCHANGED <<folder, raftReset>>

\* Restore of one server: a path without a handler is answered with 404.
Restore(s, v) ==
  /\ op[s] = "restore" /\ v \in pend[s]
  /\ \/ /\ PostedURL(s) \in ServedURLs
        /\ loads' = [loads EXCEPT ![v] = Loaded(v)]
        /\ IF Stale \in folder[v]
           THEN old' = old \cup {v} /\ unwiped' = unwiped \ {v}
           ELSE UNCHANGED <<old, unwiped>>
        /\ raftReset' = raftReset \ {v}
        /\ \E ok \in BOOLEAN : Reply(s, v, ok)
     \/ /\ PostedURL(s) \in ServedURLs
        /\ Reply(s, v, FALSE)
        /\ UNCHANGED <<old, unwiped, loads, raftReset>>
     \/ /\ PostedURL(s) \notin ServedURLs
        /\ pend' = [pend EXCEPT ![s] = @ \ {v}]
        /\ bad' = [bad EXCEPT ![s] = TRUE]
        /\ UNCHANGED <<phase, picked, cur, op, selector, runs, faults>>
        /\ UNCHANGED <<old, unwiped, loads, raftReset>>
  /\ UNCHANGED folder

RAFTReset(s, v) ==
  /\ op[s] = "raft" /\ v \in pend[s]
  /\ \/ /\ raftReset' = raftReset \cup {v}
        /\ \E ok \in BOOLEAN : Reply(s, v, ok)
     \/ Reply(s, v, FALSE) /\ UNCHANGED raftReset
  /\ UNCHANGED <<old, unwiped, loads, folder>>

\* Mutant: a fan-out that succeeded leads nowhere.
AfterFanDone == [reset |-> "done", stage |-> "done", restore |-> "done", raft |-> "done"]

\* The operation that follows a fan-out that succeeded.
AfterFan == [reset |-> "ok", stage |-> "restore", restore |-> "ok", raft |-> "start"]

\* Mutant: the errors of the fan-out are dropped.
JoinedNoError(s) == AfterFan[op[s]]

\* Wait returns the first error of the fan-out, if there is one.
Joined(s) == IF bad[s] THEN "err" ELSE AfterFan[op[s]]

\* ForEachServicePod: Wait returns once every goroutine has; or the replica
\* count cannot be read and no pod is called.
ForEachServicePod(s) ==
  /\ op[s] \in FanOps
  /\ \/ pend[s] = {} /\ SetOp(s, Joined(s)) /\ UNCHANGED faults
     \/ /\ Scheme[s] = "statefulset" /\ pend[s] = Servers[s]
        /\ Fault /\ SetOp(s, "err")
  /\ UNCHANGED <<phase, picked, cur, selector, stored, runs>>

\* Stage on a local service takes local archives only: the folder is
\* emptied, made again and given one link; each of these may fail.
StageLocal(s, a) ==
  /\ op[s] = "stage" /\ Scheme[s] = "local"
  /\ \E v \in Servers[s] :
       \/ /\ ArchiveAt[a] = Local
          /\ folder' = [folder EXCEPT ![v] = Staged(v, a)]
          /\ SetOp(s, "restore") /\ UNCHANGED faults
       \/ /\ ArchiveAt[a] # Local
          /\ folder' = [folder EXCEPT ![v] = {}]
          /\ SetOp(s, "err") /\ UNCHANGED faults
       \/ /\ \E left \in {folder[v], {}} : folder' = [folder EXCEPT ![v] = left]
          /\ Fault /\ SetOp(s, "err")
  /\ UNCHANGED <<phase, picked, cur, selector, old, unwiped, loads, raftReset, runs>>

\* Stage on a pod takes the pod's own archive only, and links the restore
\* folder into itself.  Each command goes through ExecSync: when its stream
\* breaks nobody notices that it did nothing, and when it complains on stderr
\* ExecSync never returns.
StagePod(s, a) ==
  /\ op[s] = "stage" /\ Scheme[s] = "pod"
  /\ \E v \in Servers[s] : \E left \in {{}, folder[v]}, link \in {{}, {SelfLink}} :
       \/ /\ ArchiveAt[a] = v
          /\ folder' = [folder EXCEPT ![v] = left \cup link]
          /\ IF left = {} /\ link # {} THEN UNCHANGED faults ELSE Fault
          /\ SetOp(s, "restore")
       \/ /\ ArchiveAt[a] # v
          /\ folder' = [folder EXCEPT ![v] = left]
          /\ IF left = {} THEN UNCHANGED faults ELSE Fault
          /\ SetOp(s, "err")
       \/ /\ folder' = [folder EXCEPT ![v] = left]
          /\ Fault
          /\ \E out \in {"err", "hung"} : SetOp(s, out)
  /\ UNCHANGED <<phase, picked, cur, selector, old, unwiped, loads, raftReset, runs>>

StageHost(s) ==
  /\ op[s] = "stage" /\ Scheme[s] = "host"
  /\ SetOp(s, "err")
  /\ UNCHANGED <<phase, picked, cur, selector, stored, faults, runs>>

-----------------------------------------------------------------------------
(* EnvRestore moves on *)

\* Mutant: an error is not an end.
EndedWell == \A s \in Service : op[s] \in {"none", "ok"}

\* DoOncePerEndpoint, or the operations on the current file, have returned.
Ended == \A s \in Service : op[s] \in {"none", "ok", "err"}
Failed == \E s \in Service : op[s] = "err"

Fatal ==
  /\ Running /\ Ended /\ Failed
  /\ phase' = "fatal" /\ StopOps
  /\ UNCHANGED <<picked, cur, selector, stored, faults, runs>>

\* Every endpoint is prepared: start with the first file.
Prepared ==
  /\ phase = "prepare" /\ Ended /\ ~Failed
  /\ phase' = "load" /\ StartOps({picked[1]}, "stage")
  /\ UNCHANGED <<picked, cur, selector, stored, faults, runs>>

MoreFiles == cur < Len(picked)

\* The file is restored: the next one, or the restart of the endpoints.
NextFile ==
  /\ phase = "load" /\ Ended /\ ~Failed
  /\ cur' = cur + 1
  /\ IF MoreFiles
     THEN StartOps({picked[cur + 1]}, "stage") /\ UNCHANGED phase
     ELSE StartOps(OncePerEndpoint(picked), "raft") /\ phase' = "restart"
  /\ UNCHANGED <<picked, selector, stored, faults, runs>>

Restarted ==
  /\ phase = "restart" /\ Ended /\ ~Failed
  /\ phase' = "done" /\ StopOps
  /\ UNCHANGED <<picked, cur, selector, stored, faults, runs>>

ServiceStep(s) ==
  \/ \E start \in BOOLEAN : StartStop(s, start)
  \/ WaitForDrain(s)
  \/ \E v \in Server : Reset(s, v) \/ Restore(s, v) \/ RAFTReset(s, v)
  \/ ForEachServicePod(s)
  \/ phase = "load" /\ (StageLocal(s, picked[cur]) \/ StagePod(s, picked[cur]))
  \/ StageHost(s)

EnvStep == Fatal \/ Prepared \/ NextFile \/ Restarted

Next ==
  \/ \E q \in Snapshots : Pick(q)
  \/ Crash
  \/ \E s \in Service : ServiceStep(s)
  \/ EnvStep

\* Every goroutine and the main one go on; nobody must start or kill a run.
Spec == Init /\ [][Next]_vars
FairSpec == Spec /\ WF_vars(EnvStep) /\ \A s \in Service : WF_vars(ServiceStep(s))

-----------------------------------------------------------------------------
(* Properties *)

\* Every server that holds data from before the run.
HoldsOld == old \cup unwiped

\* No server is asked to restore while it holds data from before the run:
\* EnvRestore resets every endpoint first, Stage resets every pod.  The one
\* way round it is the error of a reset that is ignored.
ResetBeforeRestore ==
  \A s \in Service : op[s] = "restore" => pend[s] \cap HoldsOld \subseteq unwiped

\* A server never holds a mix of the picked snapshot and of older data,
\* however many runs failed half way before this one, unless the error of its
\* reset in this run was ignored.
NoMixedData ==
  \A v \in Server : loads[v] # NoLoad /\ v \in HoldsOld => v \in unwiped

\* "this should basically clean the datasource": a service that was reset
\* without an error has no server left with data from before the run.
ResetCleans ==
  phase = "prepare" =>
    \A s \in Service : op[s] = "ok" => Servers[s] \cap HoldsOld = {}

\* What a finished restore promises: every server of a picked service was
\* emptied, or answered its reset with the error that is ignored; it loaded
\* each file meant for it exactly once and no other, and its raft was reset
\* after that.
RestoredExactly ==
  phase = "done" =>
    \A s \in PickedServices : \A v \in Servers[s] :
      /\ v \in HoldsOld => v \in unwiped
      /\ v \in raftReset
      /\ \A a \in Archive :
           loads[v][a] = IF a \in PickedServices /\ v \in Servers[a] THEN 1 ELSE 0

\* "Prepare all endpoints": when the first file is staged no server of a
\* picked service holds data from before the run that no reset was sent for.
AllPrepared ==
  phase = "load" => \A s \in PickedServices : Servers[s] \cap old = {}

\* "Restore actuates the actual loading of data after staging": the command
\* gives up on a staged service only when something outside it failed.
NoAbortWithoutFault == phase = "fatal" => faults > 0

\* What RestoreAbs sees of a run, and of a server: the files it has loaded,
\* and what it held before.
Status == IF Running THEN "running" ELSE IF phase = "fatal" THEN "failed" ELSE phase
Content == [v \in Server |-> {a \in Archive : loads[v][a] > 0}
                             \cup IF v \in HoldsOld THEN {Stale} ELSE {}]

\* EnvRestore keeps the promise of RestoreAbs.
Promise == INSTANCE RestoreAbs WITH
  Old <- Stale, snapshot <- picked, status <- Status, content <- Content, excused <- unwiped
KeepsPromise == Promise!AbsSpec

\* Every run of the command ends.
RunEnds == Running ~> phase \in {"done", "fatal"}
=============================================================================
