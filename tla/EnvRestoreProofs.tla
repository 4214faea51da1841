--------------------------- MODULE EnvRestoreProofs ---------------------------
(***************************************************************************)
(* What is proved of EnvRestore for every set of services, archives and    *)
(* servers, every number of runs and every failure: TypeOK, that no server *)
(* is told to load data, or ever holds it, on top of data from before the  *)
(* run, that a restore that is done has loaded each file once, that a run  *)
(* gives up only after a fault, and that EnvRestore implements RestoreAbs. *)
(***************************************************************************)
EXTENDS EnvRestore, FiniteSetTheorems, WellFoundedInduction, TLAPS

\* The file that is being restored is a picked one, and every picked file has
\* a destination.
FileInHand ==
  /\ phase = "prepare" => cur = 1 /\ picked # <<>>
  /\ phase = "load" => cur \in DOMAIN picked
  /\ Running => \A i \in DOMAIN picked : picked[i] \in Service

TypeInv == TypeOK /\ FileInHand

\* The destinations of the commands: no single pods, whose folder may keep
\* what an unnoticed failure left in it; services that share the Host:Port of
\* a local one are the services of its process.
SupportedSchemes == \A s \in Service : Scheme[s] # "pod"
EndpointIsServer ==
  \A s, t \in Service : Scheme[s] = "local" /\ Endpoint[s] = Endpoint[t] => Servers[s] = Servers[t]

\* Which services have a goroutine in which phase, and what it may be doing.
PhaseOps ==
  /\ \A s \in Service : pend[s] \subseteq Servers[s]
  /\ phase = "prepare" =>
       \A s \in Service : op[s] \in IF s \in OncePerEndpoint(picked)
                                 THEN {"stop", "drain", "reset", "ok", "err"} ELSE {"none"}
  /\ phase = "load" =>
       \A s \in Service : op[s] \in IF s = picked[cur]
                                 THEN {"stage", "restore", "ok", "err"} ELSE {"none"}
  /\ phase = "restart" => \A s \in Service : op[s] \in {"none", "raft", "start", "ok", "err"}
  /\ ~Running => \A s \in Service : op[s] = "none"

\* A fan-out of resets that has not failed has emptied the servers it called.
ResetSoFar(s) ==
  /\ op[s] \in {"reset", "stage"} /\ ~bad[s] => (Servers[s] \ pend[s]) \cap old = {}
  /\ phase = "prepare" /\ op[s] = "ok" => Servers[s] \cap old = {}
  /\ Scheme[s] = "statefulset" /\ op[s] = "restore" => Servers[s] \cap old = {}

\* Stage of a service that is no statefulset calls no server.
StagedAtOnce(s) == op[s] = "stage" /\ Scheme[s] # "statefulset" => pend[s] = Servers[s]

\* The folder of a local service that restores was just made.
FolderReady(s) ==
  op[s] = "restore" => /\ Scheme[s] \in {"local", "statefulset"}
                       /\ Scheme[s] = "local" => \A v \in Servers[s] : Stale \notin folder[v]

\* What the preparation is for: the servers of the local services are empty,
\* or hold what was loaded since.
LocalsReset ==
  phase = "load" =>
    \A s \in PickedServices : Scheme[s] = "local" => Servers[s] \cap old = {}

\* A server that has loaded a file holds no data from before the run that the
\* command knows of.
Unmixed == \A v \in Server : loads[v] # NoLoad => v \notin old

ResetInv ==
  /\ TypeInv /\ PhaseOps /\ LocalsReset /\ Unmixed
  /\ \A s \in Service : ResetSoFar(s) /\ StagedAtOnce(s) /\ FolderReady(s)

-----------------------------------------------------------------------------
(* TypeOK *)

LEMMA SnapshotType ==
  ASSUME NEW q \in Snapshots
  PROVE  q \in Seq(Archive) /\ q # <<>>
<1>1. Cardinality(Archive) \in Nat
  BY FS_CardinalityType, ConstantsAssumption
<1>2. PICK n \in 1..Cardinality(Archive) : q \in [1..n -> Archive]
  BY DEF Snapshots
<1> QED
  BY <1>1, <1>2

LEMMA TypeInit == Init => TypeInv
<1> SUFFICES ASSUME Init PROVE TypeInv
  OBVIOUS
<1> USE ConstantsAssumption DEF Init
<1>1. picked \in Seq(Archive) /\ cur \in Nat /\ phase \in Phases
  BY DEF Phases
<1>2. op \in [Service -> Ops] /\ pend \in [Service -> SUBSET Server]
  BY DEF Ops
<1>3. bad \in [Service -> BOOLEAN]
  BY Zenon
<1>4. selector \in [Service -> {"unset", "Pause"}]
  OBVIOUS
<1>5. loads \in [Server -> [Archive -> Nat]] /\ old \in SUBSET Server /\ raftReset \in SUBSET Server
  BY DEF NoLoad
<1>6. folder \in [Server -> SUBSET Links]
  BY DEF Links
<1>7. faults \in 0..MaxFaults /\ runs \in 0..MaxRuns
  OBVIOUS
<1>8. FileInHand
  BY DEF FileInHand, Running
<1> QED
  BY <1>1, <1>2, <1>3, <1>4, <1>5, <1>6, <1>7, <1>8 DEF TypeInv, TypeOK

\* The operations of a service are set to operations.
LEMMA SetOpType ==
  ASSUME TypeOK, NEW s \in Service, NEW next \in Ops, SetOp(s, next)
  PROVE  (op \in [Service -> Ops] /\ pend \in [Service -> SUBSET Server]
          /\ bad \in [Service -> BOOLEAN])'
BY ConstantsAssumption DEF TypeOK, SetOp

LEMMA StartOpsType ==
  ASSUME NEW S, NEW first \in Ops, StartOps(S, first)
  PROVE  (op \in [Service -> Ops] /\ pend \in [Service -> SUBSET Server]
          /\ bad \in [Service -> BOOLEAN])'
<1>1. "none" \in Ops
  BY DEF Ops
<1>2. op' \in [Service -> Ops] /\ pend' \in [Service -> SUBSET Server]
  BY <1>1, ConstantsAssumption DEF StartOps
<1>3. bad' \in [Service -> BOOLEAN]
  BY Zenon DEF StartOps
<1> QED
  BY <1>2, <1>3

LEMMA ReplyType ==
  ASSUME TypeOK, NEW s \in Service, NEW v \in Server, NEW ok \in BOOLEAN, Reply(s, v, ok)
  PROVE  /\ pend' \in [Service -> SUBSET Server] /\ bad' \in [Service -> BOOLEAN]
         /\ faults' \in 0..MaxFaults
         /\ UNCHANGED <<phase, picked, cur, op, selector, runs>>
<1>1. pend' \in [Service -> SUBSET Server]
  BY DEF TypeOK, Reply
<1>2. bad' \in [Service -> BOOLEAN]
  BY DEF TypeOK, Reply
<1>3. faults' \in 0..MaxFaults
  BY ConstantsAssumption DEF TypeOK, Reply, Fault
<1> QED
  BY <1>1, <1>2, <1>3 DEF Reply

LEMMA IgnoredType ==
  ASSUME TypeOK, NEW s \in Service, NEW v \in Server, ReplyIgnored(s, v)
  PROVE  /\ pend' \in [Service -> SUBSET Server] /\ bad' \in [Service -> BOOLEAN]
         /\ faults' \in 0..MaxFaults
         /\ UNCHANGED <<phase, picked, cur, op, selector, runs>>
BY ConstantsAssumption DEF TypeOK, ReplyIgnored, Fault

LEMMA FaultType == TypeOK /\ (Fault \/ UNCHANGED faults) => faults' \in 0..MaxFaults
BY ConstantsAssumption DEF TypeOK, Fault

LEMMA AfterFanType == \A s \in Service : op[s] \in FanOps => Joined(s) \in Ops
BY DEF FanOps, Joined, AfterFan, Ops

LEMMA PickType ==
  ASSUME TypeInv, NEW q \in Snapshots, Pick(q)
  PROVE  TypeInv'
<1>1. q \in Seq(Archive) /\ q # <<>>
  BY SnapshotType
<1>2. (op \in [Service -> Ops] /\ pend \in [Service -> SUBSET Server]
       /\ bad \in [Service -> BOOLEAN])'
  BY StartOpsType DEF Pick, StopOps, Ops
<1>3. folder' \in [Server -> SUBSET Links]
  BY DEF Pick, TypeInv, TypeOK, Links
<1>4. loads' \in [Server -> [Archive -> Nat]] /\ old' \in SUBSET Server
  BY DEF Pick, TypeInv, TypeOK, NoLoad
<1>5. runs' \in 0..MaxRuns
  BY ConstantsAssumption DEF Pick, TypeInv, TypeOK
<1>6. phase' \in Phases /\ picked' \in Seq(Archive) /\ cur' \in Nat
  BY <1>1 DEF Pick, Phases
<1>7. FileInHand'
  BY <1>1 DEF Pick, FileInHand, Running
<1> QED
  BY <1>2, <1>3, <1>4, <1>5, <1>6, <1>7 DEF Pick, TypeInv, TypeOK

\* What a step that leaves the phase and the picked files alone has to show.
LEMMA FileInHandKept ==
  ASSUME TypeInv, UNCHANGED <<phase, picked, cur>>
  PROVE  FileInHand'
BY DEF TypeInv, FileInHand, Running

LEMMA StartStopType ==
  ASSUME TypeInv, NEW s \in Service, NEW start \in BOOLEAN, StartStop(s, start)
  PROVE  TypeInv'
<1>1. UNCHANGED <<phase, picked, cur, old, unwiped, loads, folder, raftReset, runs>>
  BY DEF StartStop, stored
<1>2. (op \in [Service -> Ops] /\ pend \in [Service -> SUBSET Server]
       /\ bad \in [Service -> BOOLEAN])'
  <2>1. SetOp(s, "ok") \/ SetOp(s, "drain") \/ SetOp(s, "err")
    BY DEF StartStop
  <2>2. {"ok", "drain", "err"} \subseteq Ops
    BY DEF Ops
  <2> QED
    BY <2>1, <2>2, SetOpType DEF TypeInv
<1>3. faults' \in 0..MaxFaults
  BY FaultType DEF StartStop, TypeInv
<1>4. selector' \in [Service -> {"unset", "Pause"}]
  BY DEF StartStop, TypeInv, TypeOK
<1> QED
  BY <1>1, <1>2, <1>3, <1>4, FileInHandKept DEF TypeInv, TypeOK

LEMMA WaitForDrainType ==
  ASSUME TypeInv, NEW s \in Service, WaitForDrain(s)
  PROVE  TypeInv'
<1>1. UNCHANGED <<phase, picked, cur, selector, old, unwiped, loads, folder, raftReset, runs>>
  BY DEF WaitForDrain, stored
<1>2. (op \in [Service -> Ops] /\ pend \in [Service -> SUBSET Server]
       /\ bad \in [Service -> BOOLEAN])'
  <2>1. SetOp(s, "reset") \/ SetOp(s, "err")
    BY DEF WaitForDrain
  <2>2. {"reset", "err"} \subseteq Ops
    BY DEF Ops, FanOps
  <2> QED
    BY <2>1, <2>2, SetOpType DEF TypeInv
<1>3. faults' \in 0..MaxFaults
  BY FaultType DEF WaitForDrain, TypeInv
<1> QED
  BY <1>1, <1>2, <1>3, FileInHandKept DEF TypeInv, TypeOK

LEMMA ResetType ==
  ASSUME TypeInv, NEW s \in Service, NEW v \in Server, Reset(s, v)
  PROVE  TypeInv'
<1>1. /\ pend' \in [Service -> SUBSET Server] /\ bad' \in [Service -> BOOLEAN]
      /\ faults' \in 0..MaxFaults
      /\ UNCHANGED <<phase, picked, cur, op, selector, runs, folder, raftReset>>
  BY ReplyType, IgnoredType DEF Reset, TypeInv
<1>2. old' \in SUBSET Server /\ loads' \in [Server -> [Archive -> Nat]]
  <2>1. /\ old' = old \ {v} \/ old' = old
        /\ loads' = [loads EXCEPT ![v] = NoLoad] \/ loads' = loads
    BY DEF Reset
  <2>2. NoLoad \in [Archive -> Nat]
    BY DEF NoLoad
  <2> QED
    BY <2>1, <2>2 DEF TypeInv, TypeOK
<1>3. unwiped' \in SUBSET Server
  BY DEF Reset, TypeInv, TypeOK
<1> QED
  BY <1>1, <1>2, <1>3, FileInHandKept DEF TypeInv, TypeOK

LEMMA RestoreType ==
  ASSUME TypeInv, NEW s \in Service, NEW v \in Server, Restore(s, v)
  PROVE  TypeInv'
<1>1. /\ pend' \in [Service -> SUBSET Server] /\ bad' \in [Service -> BOOLEAN]
      /\ faults' \in 0..MaxFaults
      /\ UNCHANGED <<phase, picked, cur, op, selector, runs, folder>>
  <2>1. CASE \E ok \in BOOLEAN : Reply(s, v, ok)
    BY <2>1, ReplyType DEF Restore, TypeInv
  <2>2. CASE PostedURL(s) \notin ServedURLs
    BY <2>2, ReplyType DEF Restore, TypeInv, TypeOK
  <2> QED
    BY <2>1, <2>2 DEF Restore
<1>2. Loaded(v) \in [Archive -> Nat]
  BY DEF Loaded, TypeInv, TypeOK
<1>3. loads' \in [Server -> [Archive -> Nat]]
  BY <1>2 DEF Restore, TypeInv, TypeOK
<1>4. old' \in SUBSET Server /\ unwiped' \in SUBSET Server
  <2>1. old' \in {old, old \cup {v}} /\ unwiped' \in {unwiped, unwiped \ {v}}
    BY DEF Restore
  <2> QED
    BY <2>1 DEF TypeInv, TypeOK
<1>5. raftReset' \in SUBSET Server
  BY DEF Restore, TypeInv, TypeOK
<1> QED
  BY <1>1, <1>3, <1>4, <1>5, FileInHandKept DEF TypeInv, TypeOK

LEMMA RAFTResetType ==
  ASSUME TypeInv, NEW s \in Service, NEW v \in Server, RAFTReset(s, v)
  PROVE  TypeInv'
<1>1. PICK ok \in BOOLEAN : Reply(s, v, ok)
  BY DEF RAFTReset
<1>2. raftReset' \in SUBSET Server
  BY DEF RAFTReset, TypeInv, TypeOK
<1> QED
  BY <1>1, <1>2, ReplyType, FileInHandKept DEF RAFTReset, TypeInv, TypeOK

LEMMA ForEachServicePodType ==
  ASSUME TypeInv, NEW s \in Service, ForEachServicePod(s)
  PROVE  TypeInv'
<1>1. UNCHANGED <<phase, picked, cur, selector, old, unwiped, loads, folder, raftReset, runs>>
  BY DEF ForEachServicePod, stored
<1>2. Joined(s) \in Ops /\ "err" \in Ops
  BY AfterFanType DEF ForEachServicePod, Ops
<1>3. (op \in [Service -> Ops] /\ pend \in [Service -> SUBSET Server]
       /\ bad \in [Service -> BOOLEAN])'
  BY <1>2, SetOpType DEF ForEachServicePod, TypeInv
<1>4. faults' \in 0..MaxFaults
  BY FaultType DEF ForEachServicePod, TypeInv
<1> QED
  BY <1>1, <1>3, <1>4, FileInHandKept DEF TypeInv, TypeOK

LEMMA StageType ==
  ASSUME TypeInv, NEW s \in Service,
         \/ StageHost(s)
         \/ phase = "load" /\ (StageLocal(s, picked[cur]) \/ StagePod(s, picked[cur]))
  PROVE  TypeInv'
<1>1. UNCHANGED <<phase, picked, cur, selector, old, unwiped, loads, raftReset, runs>>
  BY DEF StageHost, StageLocal, StagePod, stored
<1>2. (op \in [Service -> Ops] /\ pend \in [Service -> SUBSET Server]
       /\ bad \in [Service -> BOOLEAN])'
  <2>1. SetOp(s, "restore") \/ SetOp(s, "err") \/ SetOp(s, "hung")
    BY DEF StageHost, StageLocal, StagePod
  <2>2. {"restore", "err", "hung"} \subseteq Ops
    BY DEF Ops, FanOps
  <2> QED
    BY <2>1, <2>2, SetOpType DEF TypeInv
<1>3. faults' \in 0..MaxFaults
  BY FaultType DEF StageHost, StageLocal, StagePod, TypeInv
<1>4. folder' \in [Server -> SUBSET Links]
  <2>1. CASE StageHost(s)
    BY <2>1 DEF StageHost, stored, TypeInv, TypeOK
  <2>2. CASE phase = "load" /\ StageLocal(s, picked[cur])
    <3>1. picked[cur] \in Archive
      BY <2>2 DEF TypeInv, TypeOK, FileInHand
    <3>2. PICK v \in Server, new \in SUBSET Links : folder' = [folder EXCEPT ![v] = new]
      <4>1. PICK v \in Servers[s] : \/ folder' = [folder EXCEPT ![v] = {picked[cur]}]
                                   \/ folder' = [folder EXCEPT ![v] = {}]
                                   \/ folder' = [folder EXCEPT ![v] = folder[v]]
        BY <2>2 DEF StageLocal, Staged
      <4>2. v \in Server /\ folder[v] \in SUBSET Links /\ {picked[cur]} \in SUBSET Links
        BY <3>1, ConstantsAssumption DEF TypeInv, TypeOK, Links
      <4> QED
        BY <4>1, <4>2
    <3> QED
      BY <3>2 DEF TypeInv, TypeOK
  <2>3. CASE phase = "load" /\ StagePod(s, picked[cur])
    <3>1. PICK v \in Servers[s] : \E left \in {{}, folder[v]}, link \in {{}, {SelfLink}} :
            folder' = [folder EXCEPT ![v] = left \cup link] \/ folder' = [folder EXCEPT ![v] = left]
      BY <2>3 DEF StagePod
    <3>2. v \in Server /\ folder[v] \in SUBSET Links /\ {SelfLink} \in SUBSET Links
      BY ConstantsAssumption DEF TypeInv, TypeOK, Links
    <3>3. PICK new \in SUBSET Links : folder' = [folder EXCEPT ![v] = new]
      BY <3>1, <3>2
    <3> QED
      BY <3>2, <3>3 DEF TypeInv, TypeOK
  <2> QED
    BY <2>1, <2>2, <2>3
<1> QED
  BY <1>1, <1>2, <1>3, <1>4, FileInHandKept DEF TypeInv, TypeOK

LEMMA EnvStepType ==
  ASSUME TypeInv, EnvStep
  PROVE  TypeInv'
<1>1. UNCHANGED <<picked, selector, old, unwiped, loads, folder, raftReset, faults, runs>>
  BY DEF EnvStep, Fatal, Prepared, NextFile, Restarted, stored
<1>2. (op \in [Service -> Ops] /\ pend \in [Service -> SUBSET Server]
       /\ bad \in [Service -> BOOLEAN])'
  <2>1. {"none", "stage", "raft"} \subseteq Ops
    BY DEF Ops, FanOps
  <2>2. CASE Fatal \/ Restarted
    BY <2>1, <2>2, StartOpsType DEF Fatal, Restarted, StopOps
  <2>3. CASE Prepared
    BY <2>1, <2>3, StartOpsType DEF Prepared
  <2>4. CASE NextFile
    BY <2>1, <2>4, StartOpsType DEF NextFile
  <2> QED
    BY <2>2, <2>3, <2>4 DEF EnvStep
<1>3. phase' \in Phases /\ cur' \in Nat
  BY DEF EnvStep, Fatal, Prepared, NextFile, Restarted, Phases, TypeInv, TypeOK
<1>4. FileInHand'
  <2>1. CASE Prepared
    BY <2>1 DEF Prepared, TypeInv, TypeOK, FileInHand, Running
  <2>2. CASE NextFile
    BY <2>2 DEF NextFile, MoreFiles, TypeInv, TypeOK, FileInHand, Running
  <2>3. CASE Fatal \/ Restarted
    BY <2>3 DEF Fatal, Restarted, FileInHand, Running
  <2> QED
    BY <2>1, <2>2, <2>3 DEF EnvStep
<1> QED
  BY <1>1, <1>2, <1>3, <1>4 DEF TypeInv, TypeOK

LEMMA TypeStep == TypeInv /\ [Next]_vars => TypeInv'
<1> SUFFICES ASSUME TypeInv, [Next]_vars PROVE TypeInv'
  OBVIOUS
<1>1. ASSUME NEW q \in Snapshots, Pick(q) PROVE TypeInv'
  BY <1>1, PickType
<1>2. CASE Crash
  <2>1. (op \in [Service -> Ops] /\ pend \in [Service -> SUBSET Server]
         /\ bad \in [Service -> BOOLEAN])'
    BY <1>2, StartOpsType DEF Crash, StopOps, Ops
  <2>2. faults' \in 0..MaxFaults
    BY <1>2, FaultType DEF Crash, TypeInv
  <2>3. FileInHand'
    BY <1>2 DEF Crash, FileInHand, Running
  <2> QED
    BY <1>2, <2>1, <2>2, <2>3 DEF Crash, stored, TypeInv, TypeOK, Phases
<1>3. ASSUME NEW s \in Service, ServiceStep(s) PROVE TypeInv'
  BY <1>3, StartStopType, WaitForDrainType, ResetType, RestoreType, RAFTResetType,
     ForEachServicePodType, StageType DEF ServiceStep
<1>4. CASE EnvStep
  BY <1>4, EnvStepType
<1>5. CASE UNCHANGED vars
  BY <1>5 DEF vars, cli, stored, TypeInv, TypeOK, FileInHand, Running
<1> QED
  BY <1>1, <1>2, <1>3, <1>4, <1>5 DEF Next

\* Every variable of EnvRestore stays in its range: in particular a file that
\* is staged is one of the picked ones.
THEOREM TypeCorrect == Spec => []TypeOK
<1>1. TypeInv => TypeOK
  BY DEF TypeInv
<1> QED
  BY <1>1, TypeInit, TypeStep, PTL DEF Spec

-----------------------------------------------------------------------------
(* Reset before restore *)

LEMMA ResetInit == Init => ResetInv
BY TypeInit DEF Init, ResetInv, PhaseOps, LocalsReset, Unmixed, ResetSoFar, StagedAtOnce,
   FolderReady, Running

\* A service goes on to its next operation.
LEMMA SetOpReset ==
  ASSUME ResetInv, TypeInv', NEW s \in Service, NEW next, SetOp(s, next), op[s] # "none",
         UNCHANGED <<phase, picked, cur, old, loads>>,
         UNCHANGED folder \/ phase = "load",
         phase = "prepare" => next \in {"drain", "reset", "ok", "err"},
         phase = "load" => next \in {"restore", "ok", "err"},
         phase = "restart" => next \in {"start", "ok", "err"},
         phase = "prepare" /\ next = "ok" => Servers[s] \cap old = {},
         next = "restore" => /\ Scheme[s] \in {"local", "statefulset"}
                             /\ Scheme[s] = "statefulset" => Servers[s] \cap old = {}
                             /\ Scheme[s] = "local" => \A v \in Servers[s] : Stale \notin folder'[v]
  PROVE  ResetInv'
<1>1. TypeOK /\ PhaseOps /\ Running
  BY DEF ResetInv, TypeInv, PhaseOps
<1>2. /\ op' = [op EXCEPT ![s] = next]
      /\ pend' = [pend EXCEPT ![s] = Servers[s]]
      /\ bad' = [bad EXCEPT ![s] = FALSE]
  BY DEF SetOp
<1>3. /\ op'[s] = next /\ pend'[s] = Servers[s] /\ bad'[s] = FALSE
      /\ \A t \in Service \ {s} : op'[t] = op[t] /\ pend'[t] = pend[t] /\ bad'[t] = bad[t]
  BY <1>1, <1>2 DEF TypeOK
<1>4. OncePerEndpoint(picked)' = OncePerEndpoint(picked) /\ Running' = Running
  BY DEF OncePerEndpoint, Running
<1>5. PhaseOps'
  BY <1>1, <1>3, <1>4 DEF PhaseOps
<1>6. LocalsReset' /\ Unmixed'
  BY DEF ResetInv, LocalsReset, Unmixed, PickedServices
<1>7. ResetSoFar(s)' /\ StagedAtOnce(s)' /\ FolderReady(s)'
  BY <1>1, <1>3, ConstantsAssumption DEF ResetSoFar, StagedAtOnce, FolderReady, Running
<1>8. ASSUME NEW t \in Service \ {s} PROVE ResetSoFar(t)' /\ StagedAtOnce(t)' /\ FolderReady(t)'
  <2>1. ResetSoFar(t) /\ StagedAtOnce(t) /\ FolderReady(t)
    BY DEF ResetInv
  <2>2. phase = "load" => op[t] = "none"
    BY <1>1 DEF PhaseOps
  <2> QED
    BY <1>3, <2>1, <2>2 DEF ResetSoFar, StagedAtOnce, FolderReady
<1> QED
  BY <1>5, <1>6, <1>7, <1>8 DEF ResetInv

\* A server replies to a service.
LEMMA ReplyReset ==
  ASSUME ResetInv, TypeInv', NEW s \in Service, NEW v \in Server,
         pend' = [pend EXCEPT ![s] = @ \ {v}],
         \A t \in Service \ {s} : bad'[t] = bad[t],
         bad[s] => bad'[s],
         UNCHANGED <<phase, picked, cur, op, folder>>,
         old' \subseteq old, Unmixed',
         op[s] \in {"reset", "stage"} /\ ~bad'[s] => v \notin old',
         op[s] = "stage" => Scheme[s] = "statefulset"
  PROVE  ResetInv'
<1>1. TypeOK /\ PhaseOps
  BY DEF ResetInv, TypeInv
<1>2. /\ pend'[s] = pend[s] \ {v}
      /\ \A t \in Service \ {s} : pend'[t] = pend[t]
  BY <1>1 DEF TypeOK
<1>3. PhaseOps'
  <2>1. OncePerEndpoint(picked)' = OncePerEndpoint(picked) /\ Running' = Running
    BY DEF OncePerEndpoint, Running
  <2>2. \A t \in Service : pend'[t] \subseteq Servers[t]
    BY <1>1, <1>2 DEF PhaseOps
  <2> QED
    BY <1>1, <2>1, <2>2 DEF PhaseOps
<1>4. LocalsReset'
  BY DEF ResetInv, LocalsReset, PickedServices
<1>5. ASSUME NEW t \in Service PROVE ResetSoFar(t)' /\ StagedAtOnce(t)' /\ FolderReady(t)'
  <2>1. ResetSoFar(t) /\ StagedAtOnce(t) /\ FolderReady(t)
    BY DEF ResetInv
  <2>2. CASE t = s
    BY <1>2, <2>1, <2>2 DEF ResetSoFar, StagedAtOnce, FolderReady
  <2>3. CASE t # s
    BY <1>2, <2>1, <2>3 DEF ResetSoFar, StagedAtOnce, FolderReady
  <2> QED
    BY <2>2, <2>3
<1> QED
  BY <1>3, <1>4, <1>5 DEF ResetInv

\* The command ends, or dies.
LEMMA StopReset ==
  ASSUME ResetInv, TypeInv', StopOps, phase' \in {"done", "fatal"}, Unmixed'
  PROVE  ResetInv'
<1>1. \A s \in Service : op'[s] = "none" /\ pend'[s] = {}
  BY DEF StopOps, StartOps
<1> QED
  BY <1>1 DEF ResetInv, PhaseOps, LocalsReset, ResetSoFar, StagedAtOnce, FolderReady, Running

LEMMA StartStopReset ==
  ASSUME ResetInv, TypeInv', NEW s \in Service, NEW start \in BOOLEAN, StartStop(s, start)
  PROVE  ResetInv'
<1>1. PICK next : SetOp(s, next) /\ next \in {"err", IF start THEN "ok" ELSE "drain"}
  BY DEF StartStop
<1>2. /\ op[s] = IF start THEN "start" ELSE "stop"
      /\ UNCHANGED <<phase, picked, cur, old, loads, folder>>
  BY DEF StartStop, stored
<1>3. phase = "prepare" => ~start
  BY <1>2 DEF ResetInv, PhaseOps
<1>4. phase = "load" => FALSE
  BY <1>2 DEF ResetInv, PhaseOps
<1>5. phase = "restart" => start
  BY <1>2 DEF ResetInv, PhaseOps
<1> QED
  BY <1>1, <1>2, <1>3, <1>4, <1>5, SetOpReset

LEMMA WaitForDrainReset ==
  ASSUME ResetInv, TypeInv', NEW s \in Service, WaitForDrain(s)
  PROVE  ResetInv'
<1>1. PICK next : SetOp(s, next) /\ next \in {"reset", "err"}
  BY DEF WaitForDrain
<1>2. op[s] = "drain" /\ UNCHANGED <<phase, picked, cur, old, loads, folder>>
  BY DEF WaitForDrain, stored
<1>3. phase \notin {"load", "restart"}
  BY <1>2 DEF ResetInv, PhaseOps
<1> QED
  BY <1>1, <1>2, <1>3, SetOpReset

LEMMA ForEachServicePodReset ==
  ASSUME ResetInv, TypeInv', NEW s \in Service, ForEachServicePod(s)
  PROVE  ResetInv'
<1>1. op[s] \in FanOps /\ UNCHANGED <<phase, picked, cur, old, loads, folder>>
  BY DEF ForEachServicePod, stored
<1>2. CASE SetOp(s, "err")
  BY <1>1, <1>2, SetOpReset DEF FanOps
<1>3. CASE pend[s] = {} /\ SetOp(s, AfterFan[op[s]]) /\ ~bad[s]
  <2>1. ResetSoFar(s) /\ StagedAtOnce(s) /\ PhaseOps
    BY DEF ResetInv
  <2>2. op[s] \in {"reset", "stage"} => Servers[s] \cap old = {}
    BY <1>3, <2>1 DEF ResetSoFar
  <2>3. op[s] = "stage" => Scheme[s] = "statefulset"
    <3>1. Scheme[s] # "statefulset" => Servers[s] # {}
      BY ConstantsAssumption
    <3> QED
      BY <1>3, <2>1, <3>1 DEF StagedAtOnce
  <2>4. CASE op[s] = "reset"
    BY <1>1, <1>3, <2>1, <2>2, <2>4, SetOpReset DEF AfterFan, PhaseOps
  <2>5. CASE op[s] = "stage"
    BY <1>1, <1>3, <2>1, <2>2, <2>3, <2>5, SetOpReset DEF AfterFan, PhaseOps
  <2>6. CASE op[s] = "restore"
    BY <1>1, <1>3, <2>1, <2>6, SetOpReset DEF AfterFan, PhaseOps
  <2>7. CASE op[s] = "raft"
    BY <1>1, <1>3, <2>1, <2>7, SetOpReset DEF AfterFan, PhaseOps
  <2> QED
    BY <1>1, <2>4, <2>5, <2>6, <2>7 DEF FanOps
<1> QED
  BY <1>2, <1>3 DEF ForEachServicePod, Joined

LEMMA StageReset ==
  ASSUME SupportedSchemes, ResetInv, TypeInv', NEW s \in Service,
         \/ StageHost(s)
         \/ phase = "load" /\ (StageLocal(s, picked[cur]) \/ StagePod(s, picked[cur]))
  PROVE  ResetInv'
<1>1. op[s] = "stage" /\ UNCHANGED <<phase, picked, cur, old, loads>>
  BY DEF StageHost, StageLocal, StagePod, stored
<1>2. phase = "load"
  BY <1>1 DEF ResetInv, PhaseOps, TypeInv, TypeOK, Phases, Running
<1>3. CASE SetOp(s, "err")
  BY <1>1, <1>2, <1>3, SetOpReset
<1>4. CASE StageLocal(s, picked[cur]) /\ SetOp(s, "restore") /\ ~SetOp(s, "err")
  <2>1. PICK v \in Servers[s] : folder' = [folder EXCEPT ![v] = {picked[cur]}]
    BY <1>4 DEF StageLocal, Staged
  <2>2. picked[cur] \in Archive /\ picked[cur] # Stale
    BY <1>2, ConstantsAssumption DEF ResetInv, TypeInv, TypeOK, FileInHand
  <2>3. Scheme[s] = "local"
    BY <1>4 DEF StageLocal
  <2>4. \A w \in Servers[s] : w = v
    BY <2>3, ConstantsAssumption
  <2>5. v \in Server
    BY ConstantsAssumption
  <2>6. \A w \in Servers[s] : Stale \notin folder'[w]
    BY <2>1, <2>2, <2>4, <2>5 DEF ResetInv, TypeInv, TypeOK
  <2> QED
    BY <1>1, <1>2, <1>4, <2>3, <2>6, SetOpReset
<1> QED
  BY <1>3, <1>4 DEF StageHost, StageLocal, StagePod, SupportedSchemes

LEMMA ResetReset ==
  ASSUME ResetInv, TypeInv', NEW s \in Service, NEW v \in Server, Reset(s, v)
  PROVE  ResetInv'
<1>1. /\ UNCHANGED <<phase, picked, cur, op, folder>>
      /\ pend' = [pend EXCEPT ![s] = @ \ {v}]
      /\ old' \in {old, old \ {v}}
      /\ loads' = loads \/ (loads' = [loads EXCEPT ![v] = NoLoad])
  BY DEF Reset, Reply, ReplyIgnored
<1>2. /\ \A t \in Service \ {s} : bad'[t] = bad[t]
      /\ bad[s] => bad'[s]
      /\ ~bad'[s] => old' = old \ {v}
  BY DEF Reset, Reply, ReplyIgnored, ResetInv, TypeInv, TypeOK
<1>3. Unmixed'
  BY <1>1 DEF ResetInv, TypeInv, TypeOK, Unmixed
<1>4. op[s] = "stage" => Scheme[s] = "statefulset"
  BY DEF Reset
<1> QED
  BY <1>1, <1>2, <1>3, <1>4, ReplyReset

LEMMA RAFTResetReset ==
  ASSUME ResetInv, TypeInv', NEW s \in Service, NEW v \in Server, RAFTReset(s, v)
  PROVE  ResetInv'
<1>1. PICK ok \in BOOLEAN : Reply(s, v, ok)
  BY DEF RAFTReset
<1>2. bad' = [bad EXCEPT ![s] = @ \/ ~ok] /\ pend' = [pend EXCEPT ![s] = @ \ {v}]
  BY <1>1 DEF Reply
<1>3. (\A t \in Service \ {s} : bad'[t] = bad[t]) /\ (bad[s] => bad'[s])
  BY <1>2 DEF ResetInv, TypeInv, TypeOK
<1>4. UNCHANGED <<phase, picked, cur, op, folder, old, loads>> /\ op[s] = "raft"
  BY <1>1 DEF Reply, RAFTReset
<1>5. Unmixed'
  BY <1>4 DEF ResetInv, Unmixed
<1> QED
  BY <1>2, <1>3, <1>4, <1>5, ReplyReset

LEMMA RestoreReset ==
  ASSUME SupportedSchemes, ResetInv, TypeInv', NEW s \in Service, NEW v \in Server, Restore(s, v)
  PROVE  ResetInv'
<1>1. op[s] = "restore" /\ v \in pend[s] /\ UNCHANGED <<phase, picked, cur, op, folder>>
  BY DEF Restore, Reply
<1>2. phase = "load" /\ s = picked[cur] /\ v \in Servers[s]
  BY <1>1 DEF ResetInv, PhaseOps, TypeInv, TypeOK, Phases, Running
<1>3. s \in PickedServices
  BY <1>2 DEF ResetInv, TypeInv, FileInHand, PickedServices
<1>4. pend' = [pend EXCEPT ![s] = @ \ {v}]
  BY DEF Restore, Reply
<1>5. (\A t \in Service \ {s} : bad'[t] = bad[t]) /\ (bad[s] => bad'[s])
  <2>1. PICK failed \in BOOLEAN : bad' = [bad EXCEPT ![s] = bad[s] \/ failed]
    BY DEF Restore, Reply, ResetInv, TypeInv, TypeOK
  <2> QED
    BY <2>1 DEF ResetInv, TypeInv, TypeOK
<1>6. CASE Scheme[s] = "statefulset"
  <2>1. UNCHANGED <<old, loads>>
    BY <1>6, ConstantsAssumption DEF Restore, PostedURL
  <2>2. Unmixed'
    BY <2>1 DEF ResetInv, Unmixed
  <2> QED
    BY <1>1, <1>4, <1>5, <2>1, <2>2, ReplyReset
<1>7. CASE Scheme[s] = "local"
  <2>1. v \notin old
    BY <1>2, <1>3, <1>7 DEF ResetInv, LocalsReset
  <2>2. Stale \notin folder[v]
    BY <1>1, <1>2, <1>7 DEF ResetInv, FolderReady
  <2>3. old' = old /\ (loads' = loads \/ loads' = [loads EXCEPT ![v] = Loaded(v)])
    BY <2>2 DEF Restore
  <2>4. Unmixed'
    BY <2>1, <2>3 DEF ResetInv, TypeInv, TypeOK, Unmixed
  <2> QED
    BY <1>1, <1>4, <1>5, <2>3, <2>4, ReplyReset
<1> QED
  BY <1>1, <1>6, <1>7 DEF ResetInv, FolderReady

\* Every picked service has one of the same endpoint that is prepared.
LEMMA OneOfEndpoint ==
  ASSUME TypeOK, NEW s \in PickedServices
  PROVE  \E t \in OncePerEndpoint(picked) : Endpoint[t] = Endpoint[s]
<1> DEFINE K == {k \in DOMAIN picked : Endpoint[picked[k]] = Endpoint[s]}
<1>1. K \subseteq Nat /\ K # {}
  BY DEF PickedServices, TypeOK
<1>2. PICK k \in K : \A j \in K : ~ (<<j, k>> \in OpToRel(<, Nat))
  <2> HIDE DEF K
  <2> QED
    BY <1>1, WFMin, NatLessThanWellFounded, Zenon
<1>3. \A j \in K : ~ (j < k)
  <2> HIDE DEF K
  <2>1. \A j \in K : j \in Nat /\ k \in Nat
    BY <1>1
  <2> QED
    BY <1>2, <2>1, Zenon DEF OpToRel
<1>4. k \in DOMAIN picked /\ Endpoint[picked[k]] = Endpoint[s]
  OBVIOUS
<1>5. \A j \in 1..(k - 1) : Endpoint[picked[j]] # Endpoint[picked[k]]
  <2> SUFFICES ASSUME NEW j \in 1..(k - 1), Endpoint[picked[j]] = Endpoint[picked[k]] PROVE FALSE
    OBVIOUS
  <2>1. DOMAIN picked = 1..Len(picked) /\ Len(picked) \in Nat
    BY DEF TypeOK
  <2>2. j \in K /\ j < k
    BY <1>4, <2>1
  <2> QED
    BY <1>3, <2>2
<1> QED
  BY <1>4, <1>5 DEF OncePerEndpoint

LEMMA PreparedReset ==
  ASSUME EndpointIsServer, ResetInv, TypeInv', Prepared
  PROVE  ResetInv'
<1>1. /\ phase = "prepare" /\ phase' = "load" /\ StartOps({picked[1]}, "stage")
      /\ Ended /\ ~Failed
      /\ UNCHANGED <<picked, cur, old, loads, folder>>
  BY DEF Prepared, stored
<1>2. cur = 1 /\ picked # <<>> /\ TypeOK
  BY <1>1 DEF ResetInv, TypeInv, FileInHand
<1>3. \A t \in OncePerEndpoint(picked) : t \in Service
  BY <1>1, <1>2 DEF ResetInv, TypeInv, TypeOK, FileInHand, OncePerEndpoint, Running
<1>4. \A t \in OncePerEndpoint(picked) : Servers[t] \cap old = {}
  <2> SUFFICES ASSUME NEW t \in OncePerEndpoint(picked) PROVE Servers[t] \cap old = {}
    OBVIOUS
  <2>1. op[t] \in {"stop", "drain", "reset", "ok", "err"}
    BY <1>1, <1>3 DEF ResetInv, PhaseOps
  <2>2. op[t] = "ok"
    BY <1>1, <1>3, <2>1 DEF Ended, Failed
  <2> QED
    BY <1>1, <1>3, <2>2 DEF ResetInv, ResetSoFar
<1>5. PickedServices \subseteq Service
  BY <1>1 DEF ResetInv, TypeInv, FileInHand, PickedServices, Running
<1>6. LocalsReset'
  <2> SUFFICES ASSUME NEW s \in PickedServices, Scheme[s] = "local"
               PROVE  Servers[s] \cap old = {}
    BY <1>1 DEF LocalsReset, PickedServices
  <2>1. PICK t \in OncePerEndpoint(picked) : Endpoint[t] = Endpoint[s]
    BY <1>2, OneOfEndpoint
  <2>2. Servers[t] = Servers[s]
    BY <1>3, <1>5, <2>1 DEF EndpointIsServer
  <2> QED
    BY <1>4, <2>2
<1>7. \A s \in Service : /\ op'[s] = (IF s = picked[1] THEN "stage" ELSE "none")
                         /\ pend'[s] = (IF s = picked[1] THEN Servers[s] ELSE {})
  BY <1>1 DEF StartOps
<1>8. PhaseOps'
  BY <1>1, <1>2, <1>7 DEF PhaseOps, Running
<1>9. \A s \in Service : ResetSoFar(s)' /\ StagedAtOnce(s)' /\ FolderReady(s)'
  BY <1>1, <1>7 DEF ResetSoFar, StagedAtOnce, FolderReady
<1> QED
  BY <1>1, <1>6, <1>8, <1>9 DEF ResetInv, Unmixed

LEMMA NextFileReset ==
  ASSUME ResetInv, TypeInv', NextFile
  PROVE  ResetInv'
<1>1. phase = "load" /\ UNCHANGED <<picked, old, loads, folder>> /\ cur' = cur + 1
  BY DEF NextFile, stored
<1>2. CASE phase' = "load" /\ StartOps({picked[cur + 1]}, "stage")
  <2>1. \A s \in Service : /\ op'[s] = (IF s = picked[cur + 1] THEN "stage" ELSE "none")
                           /\ pend'[s] = (IF s = picked[cur + 1] THEN Servers[s] ELSE {})
    BY <1>2 DEF StartOps
  <2>2. PhaseOps'
    BY <1>1, <1>2, <2>1 DEF PhaseOps, Running
  <2>3. \A s \in Service : ResetSoFar(s)' /\ StagedAtOnce(s)' /\ FolderReady(s)'
    BY <1>1, <1>2, <2>1 DEF ResetSoFar, StagedAtOnce, FolderReady
  <2> QED
    BY <1>1, <1>2, <2>2, <2>3 DEF ResetInv, LocalsReset, Unmixed, PickedServices
<1>3. CASE phase' = "restart" /\ StartOps(OncePerEndpoint(picked), "raft")
  <2>1. \A s \in Service : /\ op'[s] \in {"raft", "none"}
                           /\ pend'[s] \in {Servers[s], {}}
    BY <1>3 DEF StartOps
  <2>2. PhaseOps'
    BY <1>1, <1>3, <2>1 DEF PhaseOps, Running
  <2>3. \A s \in Service : ResetSoFar(s)' /\ StagedAtOnce(s)' /\ FolderReady(s)'
    BY <1>1, <1>3, <2>1 DEF ResetSoFar, StagedAtOnce, FolderReady
  <2> QED
    BY <1>1, <1>3, <2>2, <2>3 DEF ResetInv, LocalsReset, Unmixed
<1> QED
  BY <1>1, <1>2, <1>3 DEF NextFile

LEMMA PickReset ==
  ASSUME ResetInv, TypeInv', NEW q \in Snapshots, Pick(q)
  PROVE  ResetInv'
<1>1. Unmixed'
  BY DEF Pick, Unmixed, NoLoad
<1>2. CASE phase' = "fatal" /\ StopOps
  BY <1>1, <1>2, StopReset
<1>3. CASE phase' = "prepare" /\ StartOps(OncePerEndpoint(q), "stop")
  <2>1. \A s \in Service : /\ op'[s] = (IF s \in OncePerEndpoint(q) THEN "stop" ELSE "none")
                           /\ pend'[s] \in {Servers[s], {}}
    BY <1>3 DEF StartOps
  <2>2. OncePerEndpoint(picked)' = OncePerEndpoint(q)
    BY DEF Pick, OncePerEndpoint
  <2>3. PhaseOps'
    BY <1>3, <2>1, <2>2 DEF PhaseOps, Running
  <2>4. \A s \in Service : ResetSoFar(s)' /\ StagedAtOnce(s)' /\ FolderReady(s)'
    BY <2>1 DEF ResetSoFar, StagedAtOnce, FolderReady
  <2> QED
    BY <1>1, <1>3, <2>3, <2>4 DEF ResetInv, LocalsReset
<1> QED
  BY <1>2, <1>3 DEF Pick

LEMMA ResetStep ==
  ASSUME SupportedSchemes, EndpointIsServer
  PROVE  ResetInv /\ [Next]_vars => ResetInv'
<1> SUFFICES ASSUME ResetInv, [Next]_vars PROVE ResetInv'
  OBVIOUS
<1>0. TypeInv'
  BY TypeStep DEF ResetInv
<1>1. ASSUME NEW q \in Snapshots, Pick(q) PROVE ResetInv'
  BY <1>0, <1>1, PickReset
<1>2. CASE Crash \/ Fatal \/ Restarted
  <2>1. StopOps /\ phase' \in {"done", "fatal"} /\ UNCHANGED <<old, loads>>
    BY <1>2 DEF Crash, Fatal, Restarted, stored
  <2>2. Unmixed'
    BY <2>1 DEF ResetInv, Unmixed
  <2> QED
    BY <1>0, <2>1, <2>2, StopReset
<1>3. ASSUME NEW s \in Service, ServiceStep(s) PROVE ResetInv'
  BY <1>0, <1>3, StartStopReset, WaitForDrainReset, ResetReset, RestoreReset, RAFTResetReset,
     ForEachServicePodReset, StageReset DEF ServiceStep
<1>4. CASE Prepared
  BY <1>0, <1>4, PreparedReset
<1>5. CASE NextFile
  BY <1>0, <1>5, NextFileReset
<1>6. CASE UNCHANGED vars
  <2>1. UNCHANGED <<phase, picked, cur, op, pend, bad, old, loads, folder>>
    BY <1>6 DEF vars, cli, stored
  <2> QED
    BY <1>0, <2>1 DEF ResetInv, PhaseOps, LocalsReset, Unmixed, ResetSoFar, StagedAtOnce,
       FolderReady, Running, OncePerEndpoint, PickedServices
<1> QED
  BY <1>1, <1>2, <1>3, <1>4, <1>5, <1>6 DEF Next, EnvStep

\* On the destinations of the commands no server is told to restore while it
\* holds data from before the run, whatever failed, whatever reply was lost
\* and however many runs were cut short before, but for one whose reset in
\* this run was answered with the error that is ignored.
THEOREM ResetIsFirst ==
  SupportedSchemes /\ EndpointIsServer => (Spec => []ResetBeforeRestore)
<1> SUFFICES ASSUME SupportedSchemes, EndpointIsServer PROVE Spec => []ResetBeforeRestore
  OBVIOUS
<1>1. ResetInv => ResetBeforeRestore
  <2> SUFFICES ASSUME ResetInv, NEW s \in Service, op[s] = "restore"
               PROVE  Servers[s] \cap old = {} /\ pend[s] \subseteq Servers[s]
    BY DEF ResetBeforeRestore, HoldsOld
  <2>1. phase = "load" /\ s = picked[cur]
    BY DEF ResetInv, PhaseOps, TypeInv, TypeOK, Phases, Running
  <2>2. s \in PickedServices
    BY <2>1 DEF ResetInv, TypeInv, FileInHand, PickedServices
  <2>3. Scheme[s] \in {"local", "statefulset"}
    BY DEF ResetInv, FolderReady
  <2> QED
    BY <2>1, <2>2, <2>3 DEF ResetInv, PhaseOps, LocalsReset, ResetSoFar
<1> QED
  BY <1>1, ResetInit, ResetStep, PTL DEF Spec

\* On the destinations of the commands a server never holds a mix of the
\* picked snapshot and of older data, unless the error of its reset in this
\* run was ignored.
THEOREM DataIsNotMixed ==
  SupportedSchemes /\ EndpointIsServer => (Spec => []NoMixedData)
<1> SUFFICES ASSUME SupportedSchemes, EndpointIsServer PROVE Spec => []NoMixedData
  OBVIOUS
<1>1. ResetInv => NoMixedData
  BY DEF ResetInv, Unmixed, NoMixedData, HoldsOld
<1> QED
  BY <1>1, ResetInit, ResetStep, PTL DEF Spec
-----------------------------------------------------------------------------
(* Restored exactly *)

InHand == picked[cur]
FilesBefore == {picked[i] : i \in 1..(cur - 1)}

\* The file in hand is loaded at v.
AtServer(v) == op[InHand] = "ok" \/ (op[InHand] = "restore" /\ v \notin pend[InHand])

\* A statefulset of any pods, whose restore is posted to no path and fails.
FailsToRestore(s) == Scheme[s] = "statefulset" /\ Servers[s] # {}

\* The run will not go on, so what is loaded does not matter.
GivesUp == op[InHand] = "err" \/ (op[InHand] = "restore" /\ bad[InHand]) \/ FailsToRestore(InHand)

\* What each server has loaded: the files before, once, and the one in hand.
CountsRight ==
  \A v \in Server, a \in Archive :
    loads[v][a] = IF v \in Servers[a] /\ (a \in FilesBefore \/ (a = InHand /\ AtServer(v)))
                  THEN 1 ELSE 0

\* The preparation leaves servers that have loaded nothing.
EmptyAtFirst == phase = "prepare" => \A v \in Server : loads[v] = NoLoad

\* A local service that restores has a link to the file in hand only, and no
\* file of a statefulset's pods gets past its restore.
InHandReady ==
  /\ Scheme[InHand] = "local" /\ op[InHand] = "restore" =>
       \A v \in Servers[InHand] : folder[v] = {InHand}
  /\ FailsToRestore(InHand) =>
       /\ op[InHand] # "ok"
       /\ op[InHand] = "restore" => pend[InHand] = Servers[InHand] \/ bad[InHand]
  /\ op[InHand] = "ok" => Scheme[InHand] \in {"local", "statefulset"}

LoadedSoFar == phase = "load" =>
  /\ \A s \in FilesBefore : Scheme[s] = "local" \/ Servers[s] = {}
  /\ GivesUp \/ CountsRight
  /\ InHandReady

\* After the last file: what RestoredExactly says, but for raft.
LoadedAll == phase \in {"restart", "done"} =>
  /\ PickedServices \subseteq Service
  /\ \A s \in PickedServices :
       Servers[s] = {} \/ (Scheme[s] = "local" /\ Servers[s] \cap old = {})
  /\ \A v \in Server, a \in Archive :
       loads[v][a] = IF a \in PickedServices /\ v \in Servers[a] THEN 1 ELSE 0

\* A fan-out of raft resets that has not failed has reached who it called.
RaftSoFar == \A s \in OncePerEndpoint(picked) :
  /\ phase = "restart" =>
       /\ op[s] \in {"raft", "start", "ok", "err"}
       /\ op[s] = "raft" /\ ~bad[s] => Servers[s] \ pend[s] \subseteq raftReset
       /\ op[s] \in {"start", "ok"} => Servers[s] \subseteq raftReset
  /\ phase = "done" => Servers[s] \subseteq raftReset

PickedOnce == \A i, j \in DOMAIN picked : picked[i] = picked[j] => i = j

ExactInv == PickedOnce /\ EmptyAtFirst /\ LoadedSoFar /\ LoadedAll /\ RaftSoFar

LEMMA ExactInit == Init => ExactInv
BY DEF Init, ExactInv, PickedOnce, EmptyAtFirst, LoadedSoFar, LoadedAll, RaftSoFar, OncePerEndpoint

LEMMA PickExact ==
  ASSUME NEW q \in Snapshots, Pick(q)
  PROVE  ExactInv'
<1>1. picked' = q /\ phase' \in {"prepare", "fatal"} /\ loads' = [v \in Server |-> NoLoad]
  BY DEF Pick
<1>2. PickedOnce'
  BY <1>1 DEF PickedOnce, Snapshots
<1> QED
  BY <1>1, <1>2 DEF ExactInv, EmptyAtFirst, LoadedSoFar, LoadedAll, RaftSoFar

\* In the preparation nothing but the loads matters.
LEMMA PrepareExact ==
  ASSUME ResetInv, ExactInv, phase = "prepare", NEW s \in Service, ServiceStep(s)
  PROVE  ExactInv'
<1>1. op[s] \in {"stop", "drain", "reset", "ok", "err", "none"}
  BY DEF ResetInv, PhaseOps
<1>2. /\ UNCHANGED <<phase, picked>>
      /\ loads' = loads \/ \E v \in Server : loads' = [loads EXCEPT ![v] = NoLoad]
  BY <1>1 DEF ServiceStep, StartStop, WaitForDrain, Reset, Restore, RAFTReset, ForEachServicePod,
              StageHost, Reply, ReplyIgnored, stored
<1>3. EmptyAtFirst'
  BY <1>2 DEF ExactInv, EmptyAtFirst, ResetInv, TypeInv, TypeOK
<1> QED
  BY <1>2, <1>3 DEF ExactInv, PickedOnce, LoadedSoFar, LoadedAll, RaftSoFar

\* A step of the service of the file in hand.
LEMMA LoadKept ==
  ASSUME ExactInv, phase = "load", UNCHANGED <<phase, picked, cur>>,
         (GivesUp \/ CountsRight)', InHandReady'
  PROVE  ExactInv'
BY DEF ExactInv, PickedOnce, EmptyAtFirst, LoadedSoFar, LoadedAll, RaftSoFar, FilesBefore

LEMMA LoadExact ==
  ASSUME SupportedSchemes, ResetInv, ResetInv', ExactInv, phase = "load",
         NEW s \in Service, ServiceStep(s)
  PROVE  ExactInv'
<1>1. /\ TypeOK /\ TypeOK' /\ cur \in DOMAIN picked /\ InHand \in Service /\ InHand \in Archive
      /\ op[s] \in IF s = InHand THEN {"stage", "restore", "ok", "err"} ELSE {"none"}
      /\ pend[s] \subseteq Servers[s] /\ StagedAtOnce(s) /\ FolderReady(s)
  BY DEF ResetInv, TypeInv, TypeOK, FileInHand, PhaseOps, Running, InHand
<1>2. s = InHand /\ op[s] \in {"stage", "restore"}
  BY <1>1 DEF ServiceStep, StartStop, WaitForDrain, Reset, Restore, RAFTReset, ForEachServicePod,
              StageLocal, StagePod, StageHost, FanOps
<1>3. UNCHANGED <<phase, picked, cur>>
  BY <1>1, <1>2 DEF ServiceStep, StartStop, WaitForDrain, Reset, Restore, RAFTReset,
              ForEachServicePod, StageLocal, StagePod, StageHost, Reply, ReplyIgnored
<1>4. InHand' = InHand /\ FilesBefore' = FilesBefore
  BY <1>3 DEF InHand, FilesBefore
<1>5. InHand \notin FilesBefore
  BY <1>1 DEF InHand, FilesBefore, ExactInv, PickedOnce, TypeOK
<1>6. (GivesUp \/ CountsRight) /\ InHandReady
  BY DEF ExactInv, LoadedSoFar
<1>7. CASE SetOp(s, "err")
  <2>1. op'[s] = "err"
    BY <1>1, <1>7 DEF SetOp, TypeOK
  <2> QED
    BY <1>2, <1>3, <1>4, <2>1, LoadKept DEF GivesUp, InHandReady
<1>8. CASE op[s] = "stage" /\ SetOp(s, "restore") /\ UNCHANGED loads
           /\ (Scheme[s] = "local" => \A v \in Servers[s] : folder'[v] = {s})
  <2>1. op'[s] = "restore" /\ pend'[s] = Servers[s]
    BY <1>1, <1>8 DEF SetOp, TypeOK
  <2>2. CountsRight => CountsRight'
    BY <1>2, <1>4, <1>8, <2>1 DEF CountsRight, AtServer
  <2>3. GivesUp => GivesUp'
    BY <1>2, <1>4, <1>8, <2>1 DEF GivesUp
  <2>4. InHandReady'
    BY <1>2, <1>4, <1>8, <2>1 DEF InHandReady
  <2> QED
    BY <1>3, <1>6, <2>2, <2>3, <2>4, LoadKept
<1>9. ASSUME NEW v \in Server, Reset(s, v) PROVE ExactInv'
  <2>1. FailsToRestore(s) /\ op[s] = "stage" /\ UNCHANGED op
    BY <1>1, <1>2, <1>9 DEF Reset, Reply, ReplyIgnored, FailsToRestore
  <2> QED
    BY <1>2, <1>3, <1>4, <2>1, LoadKept DEF GivesUp, InHandReady, FailsToRestore
<1>10. ASSUME NEW v \in Server, Restore(s, v) PROVE ExactInv'
  <2>1. op[s] = "restore" /\ v \in pend[s] /\ UNCHANGED <<op, folder>>
    BY <1>10 DEF Restore, Reply
  <2>2. pend'[s] = pend[s] \ {v} /\ (bad[s] => bad'[s])
    BY <1>1, <1>10 DEF Restore, Reply, TypeOK
  <2>3. CASE Scheme[s] = "statefulset"
    <3>1. FailsToRestore(s) /\ bad'[s]
      BY <1>1, <1>10, <2>1, <2>3, ConstantsAssumption
         DEF Restore, PostedURL, FailsToRestore, TypeOK
    <3> QED
      BY <1>2, <1>3, <1>4, <2>1, <2>3, <3>1, LoadKept DEF GivesUp, InHandReady, FailsToRestore
  <2>4. CASE Scheme[s] = "local"
    <3>1. InHandReady'
      BY <1>2, <1>4, <1>6, <2>1, <2>4 DEF InHandReady, FailsToRestore
    <3>2. CASE bad'[s]
      BY <1>2, <1>3, <1>4, <2>1, <3>1, <3>2, LoadKept DEF GivesUp
    <3>3. CASE ~bad'[s]
      <4>1. loads' = [loads EXCEPT ![v] = Loaded(v)]
        BY <1>1, <1>10, <3>3 DEF Restore, Reply, TypeOK
      <4>2. Servers[s] = {v}
        BY <1>1, <2>1, <2>4, ConstantsAssumption
      <4>3. CountsRight
        BY <1>2, <1>6, <2>1, <2>2, <2>4, <3>3 DEF GivesUp, FailsToRestore
      <4>4. folder[v] = {s}
        BY <1>2, <1>6, <2>1, <2>4, <4>2 DEF InHandReady
      <4>5. \A a \in Archive : loads'[v][a] = loads[v][a] + IF a = s THEN 1 ELSE 0
        BY <1>1, <4>1, <4>4 DEF Loaded, TypeOK
      <4>6. \A w \in Server \ {v} : loads'[w] = loads[w] /\ w \notin Servers[s]
        BY <1>1, <4>1, <4>2 DEF TypeOK
      <4>7. ~AtServer(v) /\ AtServer(v)'
        BY <1>2, <1>4, <2>1, <2>2 DEF AtServer
      <4>8. \A a \in Archive :
              loads'[v][a] = IF v \in Servers[a] /\ (a \in FilesBefore \/ a = s) THEN 1 ELSE 0
        BY <1>2, <1>5, <4>2, <4>3, <4>5, <4>7 DEF CountsRight
      <4>9. \A w \in Server \ {v}, a \in Archive :
              loads'[w][a] = IF w \in Servers[a] /\ a \in FilesBefore THEN 1 ELSE 0
        BY <1>2, <4>3, <4>6 DEF CountsRight
      <4>10. CountsRight'
        BY <1>2, <1>4, <4>6, <4>7, <4>8, <4>9 DEF CountsRight
      <4> QED
        BY <1>3, <3>1, <4>10, LoadKept
    <3> QED
      BY <3>2, <3>3
  <2> QED
    BY <1>1, <2>1, <2>3, <2>4 DEF FolderReady
<1>11. CASE ForEachServicePod(s) /\ ~SetOp(s, "err")
  <2>1. pend[s] = {} /\ ~bad[s] /\ SetOp(s, AfterFan[op[s]]) /\ UNCHANGED <<loads, folder>>
    BY <1>11 DEF ForEachServicePod, Joined, stored
  <2>2. CASE op[s] = "stage"
    <3>1. Scheme[s] # "local"
      BY <1>1, <2>1, <2>2, ConstantsAssumption DEF StagedAtOnce
    <3> QED
      BY <1>8, <2>1, <2>2, <3>1 DEF AfterFan
  <2>3. CASE op[s] = "restore"
    <3>1. op'[s] = "ok"
      BY <1>1, <2>1, <2>3 DEF SetOp, AfterFan, TypeOK
    <3>2. ~FailsToRestore(s)
      BY <1>2, <1>6, <2>1, <2>3 DEF InHandReady, FailsToRestore
    <3>3. CountsRight
      BY <1>2, <1>6, <2>1, <2>3, <3>2 DEF GivesUp
    <3>4. \A v \in Server : AtServer(v) /\ AtServer(v)'
      BY <1>2, <1>4, <2>1, <2>3, <3>1 DEF AtServer
    <3>5. CountsRight'
      BY <1>4, <2>1, <3>3, <3>4 DEF CountsRight
    <3>6. InHandReady'
      BY <1>1, <1>2, <1>4, <2>3, <3>1, <3>2 DEF InHandReady, FailsToRestore, FolderReady
    <3> QED
      BY <1>3, <3>5, <3>6, LoadKept
  <2> QED
    BY <1>2, <2>2, <2>3
<1>12. CASE StageLocal(s, picked[cur]) /\ ~SetOp(s, "err")
  <2>1. PICK v \in Servers[s] : folder' = [folder EXCEPT ![v] = {InHand}]
    BY <1>12 DEF StageLocal, Staged, InHand
  <2>2. SetOp(s, "restore") /\ Scheme[s] = "local" /\ UNCHANGED loads
    BY <1>12 DEF StageLocal
  <2>3. v \in Server /\ \A w \in Servers[s] : w = v
    BY <2>2, ConstantsAssumption
  <2>4. \A w \in Servers[s] : folder'[w] = {s}
    BY <1>1, <1>2, <2>1, <2>3 DEF TypeOK
  <2> QED
    BY <1>8, <1>12, <2>2, <2>4 DEF StageLocal
<1> QED
  BY <1>2, <1>7, <1>9, <1>10, <1>11, <1>12
     DEF ServiceStep, StartStop, WaitForDrain, RAFTReset, StagePod, StageHost, SupportedSchemes

LEMMA RestartExact ==
  ASSUME ResetInv, ResetInv', ExactInv, phase = "restart", NEW s \in Service, ServiceStep(s)
  PROVE  ExactInv'
<1>1. TypeOK /\ TypeOK' /\ op[s] \in {"none", "raft", "start", "ok", "err"}
  BY DEF ResetInv, TypeInv, PhaseOps
<1>2. UNCHANGED <<phase, picked, old, loads>> /\ raftReset \subseteq raftReset'
  BY <1>1 DEF ServiceStep, StartStop, WaitForDrain, Reset, Restore, RAFTReset, ForEachServicePod,
              StageHost, Reply, ReplyIgnored, stored
<1>3. OncePerEndpoint(picked)' = OncePerEndpoint(picked)
  BY <1>2 DEF OncePerEndpoint
<1>4. \A t \in Service \ {s} : op'[t] = op[t] /\ pend'[t] = pend[t] /\ bad'[t] = bad[t]
  BY <1>1 DEF ServiceStep, StartStop, WaitForDrain, Reset, Restore, RAFTReset, ForEachServicePod,
              StageHost, Reply, ReplyIgnored, SetOp, TypeOK
<1>5. ASSUME s \in OncePerEndpoint(picked)
      PROVE  /\ op'[s] \in {"raft", "start", "ok", "err"}
             /\ op'[s] = "raft" /\ ~bad'[s] => Servers[s] \ pend'[s] \subseteq raftReset'
             /\ op'[s] \in {"start", "ok"} => Servers[s] \subseteq raftReset'
  <2>1. /\ op[s] \in {"raft", "start", "ok", "err"}
        /\ op[s] = "raft" /\ ~bad[s] => Servers[s] \ pend[s] \subseteq raftReset
        /\ op[s] \in {"start", "ok"} => Servers[s] \subseteq raftReset
    BY <1>5 DEF ExactInv, RaftSoFar
  <2>2. CASE SetOp(s, "err")
    BY <1>1, <2>2 DEF SetOp, TypeOK
  <2>3. CASE op[s] = "start" /\ SetOp(s, "ok")
    BY <1>1, <1>2, <2>1, <2>3 DEF SetOp, TypeOK
  <2>4. CASE op[s] = "raft" /\ pend[s] = {} /\ ~bad[s] /\ SetOp(s, "start")
    BY <1>1, <1>2, <2>1, <2>4 DEF SetOp, TypeOK
  <2>5. ASSUME NEW v \in Server, RAFTReset(s, v)
        PROVE  /\ op'[s] \in {"raft", "start", "ok", "err"}
               /\ op'[s] = "raft" /\ ~bad'[s] => Servers[s] \ pend'[s] \subseteq raftReset'
               /\ op'[s] \in {"start", "ok"} => Servers[s] \subseteq raftReset'
    <3>1. PICK ok \in BOOLEAN : Reply(s, v, ok) /\ (ok => raftReset' = raftReset \cup {v})
      BY <2>5 DEF RAFTReset
    <3>2. op' = op /\ pend'[s] = pend[s] \ {v} /\ op[s] = "raft"
      BY <1>1, <2>5, <3>1 DEF Reply, RAFTReset, TypeOK
    <3>3. ~bad'[s] => ok /\ ~bad[s]
      BY <1>1, <3>1 DEF Reply, TypeOK
    <3> QED
      BY <1>2, <2>1, <3>1, <3>2, <3>3
  <2>6. CASE ForEachServicePod(s)
    <3>1. op[s] = "raft"
      BY <2>1, <2>6 DEF ForEachServicePod, FanOps
    <3>2. (pend[s] = {} /\ SetOp(s, Joined(s))) \/ SetOp(s, "err")
      BY <2>6 DEF ForEachServicePod
    <3> QED
      BY <2>2, <2>4, <3>1, <3>2 DEF Joined, AfterFan
  <2>7. CASE \E start \in BOOLEAN : StartStop(s, start)
    BY <2>1, <2>2, <2>3, <2>7 DEF StartStop
  <2> QED
    BY <1>1, <2>1, <2>5, <2>6, <2>7
       DEF ServiceStep, WaitForDrain, Reset, Restore, StageHost
<1>6. RaftSoFar'
  <2>1. OncePerEndpoint(picked) \subseteq Service
    BY DEF OncePerEndpoint, ResetInv, TypeInv, FileInHand, Running
  <2> QED
    BY <1>2, <1>3, <1>4, <1>5, <2>1 DEF ExactInv, RaftSoFar
<1> QED
  BY <1>2, <1>6 DEF ExactInv, PickedOnce, EmptyAtFirst, LoadedSoFar, LoadedAll, PickedServices

LEMMA PreparedExact ==
  ASSUME ResetInv, ExactInv, Prepared
  PROVE  ExactInv'
<1>1. /\ phase = "prepare" /\ phase' = "load" /\ cur = 1 /\ picked # <<>> /\ TypeOK
      /\ UNCHANGED <<picked, cur, loads>> /\ StartOps({picked[1]}, "stage")
  BY DEF Prepared, stored, ResetInv, TypeInv, FileInHand
<1>2. picked[1] \in Service
  BY <1>1 DEF ResetInv, TypeInv, TypeOK, FileInHand, Running
<1>3. InHand' = picked[1] /\ FilesBefore' = {} /\ op'[picked[1]] = "stage"
  BY <1>1, <1>2 DEF InHand, FilesBefore, StartOps
<1>4. CountsRight'
  BY <1>1, <1>3 DEF CountsRight, AtServer, ExactInv, EmptyAtFirst, NoLoad
<1>5. InHandReady'
  BY <1>3 DEF InHandReady
<1> QED
  BY <1>1, <1>3, <1>4, <1>5
     DEF ExactInv, PickedOnce, EmptyAtFirst, LoadedSoFar, LoadedAll, RaftSoFar

LEMMA NextFileExact ==
  ASSUME ResetInv, ExactInv, NextFile
  PROVE  ExactInv'
<1>1. /\ phase = "load" /\ Ended /\ ~Failed /\ cur' = cur + 1
      /\ UNCHANGED <<picked, loads, old, raftReset>>
      /\ TypeOK /\ cur \in 1..Len(picked) /\ InHand \in Service
  BY DEF NextFile, stored, ResetInv, TypeInv, TypeOK, FileInHand, Running, InHand
<1>2. op[InHand] = "ok"
  <2>1. op[InHand] \in {"stage", "restore", "ok", "err"}
    BY <1>1 DEF ResetInv, PhaseOps, InHand
  <2> QED
    BY <1>1, <2>1 DEF Ended, Failed
<1>3. ~FailsToRestore(InHand) /\ Scheme[InHand] \in {"local", "statefulset"} /\ CountsRight
  BY <1>1, <1>2 DEF ExactInv, LoadedSoFar, InHandReady, GivesUp
<1>4. \A v \in Server, a \in Archive :
        loads[v][a] = IF v \in Servers[a] /\ (a \in FilesBefore \/ a = InHand) THEN 1 ELSE 0
  BY <1>2, <1>3 DEF CountsRight, AtServer
<1>5. \A s \in FilesBefore \cup {InHand} : Scheme[s] = "local" \/ Servers[s] = {}
  BY <1>1, <1>3 DEF ExactInv, LoadedSoFar, FailsToRestore
<1>6. FilesBefore' = FilesBefore \cup {InHand}
  BY <1>1 DEF FilesBefore, InHand, TypeOK
<1>7. CASE MoreFiles
  <2>1. phase' = "load" /\ StartOps({picked[cur + 1]}, "stage") /\ picked[cur + 1] \in Service
    BY <1>1, <1>7 DEF NextFile, MoreFiles, ResetInv, TypeInv, TypeOK, FileInHand, Running
  <2>2. InHand' = picked[cur + 1] /\ op'[picked[cur + 1]] = "stage"
    BY <1>1, <2>1 DEF InHand, StartOps
  <2>3. CountsRight'
    BY <1>1, <1>4, <1>6, <2>2 DEF CountsRight, AtServer
  <2>4. InHandReady'
    BY <2>2 DEF InHandReady
  <2> QED
    BY <1>1, <1>5, <1>6, <2>1, <2>3, <2>4
       DEF ExactInv, PickedOnce, EmptyAtFirst, LoadedSoFar, LoadedAll, RaftSoFar
<1>8. CASE ~MoreFiles
  <2>1. phase' = "restart" /\ StartOps(OncePerEndpoint(picked), "raft") /\ cur = Len(picked)
    BY <1>1, <1>8 DEF NextFile, MoreFiles, TypeOK
  <2>2. PickedServices = FilesBefore \cup {InHand}
    <3>1. DOMAIN picked = (1..(cur - 1)) \cup {cur}
      BY <1>1, <2>1 DEF TypeOK
    <3> QED
      BY <3>1 DEF PickedServices, FilesBefore, InHand
  <2>3. PickedServices' = PickedServices
    BY <1>1 DEF PickedServices
  <2>4. \A s \in PickedServices : Scheme[s] = "local" => Servers[s] \cap old = {}
    BY <1>1 DEF ResetInv, LocalsReset
  <2>5. PickedServices \subseteq Service
    BY <1>1 DEF PickedServices, ResetInv, TypeInv, FileInHand, Running
  <2>6. LoadedAll'
    BY <1>1, <1>4, <1>5, <2>2, <2>3, <2>4, <2>5 DEF LoadedAll
  <2>7. RaftSoFar'
    <3>1. OncePerEndpoint(picked) \subseteq Service
      BY <1>1 DEF OncePerEndpoint, ResetInv, TypeInv, FileInHand, Running
    <3>2. \A s \in OncePerEndpoint(picked) : op'[s] = "raft" /\ pend'[s] = Servers[s]
      BY <2>1, <3>1 DEF StartOps
    <3>3. OncePerEndpoint(picked)' = OncePerEndpoint(picked)
      BY <1>1 DEF OncePerEndpoint
    <3> QED
      BY <2>1, <3>2, <3>3 DEF RaftSoFar
  <2> QED
    BY <1>1, <2>1, <2>6, <2>7 DEF ExactInv, PickedOnce, EmptyAtFirst, LoadedSoFar
<1> QED
  BY <1>7, <1>8

LEMMA RestartedExact ==
  ASSUME ResetInv, ExactInv, Restarted
  PROVE  ExactInv'
<1>1. /\ phase = "restart" /\ phase' = "done" /\ Ended /\ ~Failed
      /\ UNCHANGED <<picked, old, loads, raftReset>>
  BY DEF Restarted, stored
<1>2. OncePerEndpoint(picked) \subseteq Service
  BY <1>1 DEF OncePerEndpoint, ResetInv, TypeInv, FileInHand, Running
<1>3. \A s \in OncePerEndpoint(picked) : op[s] = "ok"
  BY <1>1, <1>2 DEF Ended, Failed, ExactInv, RaftSoFar
<1>4. OncePerEndpoint(picked)' = OncePerEndpoint(picked) /\ PickedServices' = PickedServices
  BY <1>1 DEF OncePerEndpoint, PickedServices
<1>5. RaftSoFar'
  BY <1>1, <1>3, <1>4 DEF ExactInv, RaftSoFar
<1> QED
  BY <1>1, <1>4, <1>5 DEF ExactInv, PickedOnce, EmptyAtFirst, LoadedSoFar, LoadedAll

LEMMA ExactStep ==
  ASSUME SupportedSchemes, ResetInv, ResetInv', ExactInv, [Next]_vars
  PROVE  ExactInv'
<1>1. ASSUME NEW q \in Snapshots, Pick(q) PROVE ExactInv'
  BY <1>1, PickExact
<1>2. CASE Crash \/ Fatal
  <2>1. phase' = "fatal" /\ UNCHANGED picked
    BY <1>2 DEF Crash, Fatal
  <2> QED
    BY <2>1 DEF ExactInv, PickedOnce, EmptyAtFirst, LoadedSoFar, LoadedAll, RaftSoFar
<1>3. ASSUME NEW s \in Service, ServiceStep(s) PROVE ExactInv'
  <2>1. CASE phase \in {"prepare", "load", "restart"}
    BY <1>3, <2>1, PrepareExact, LoadExact, RestartExact
  <2>2. CASE phase \notin {"prepare", "load", "restart"}
    <3>1. op[s] = "none"
      BY <2>2 DEF ResetInv, PhaseOps, Running
    <3> QED
      BY <1>3, <3>1 DEF ServiceStep, StartStop, WaitForDrain, Reset, Restore, RAFTReset,
                        ForEachServicePod, StageLocal, StagePod, StageHost, FanOps
  <2> QED
    BY <2>1, <2>2
<1>4. CASE Prepared \/ NextFile \/ Restarted
  BY <1>4, PreparedExact, NextFileExact, RestartedExact
<1>5. CASE UNCHANGED vars
  <2>1. UNCHANGED <<phase, picked, cur, op, pend, bad, old, loads, folder, raftReset>>
    BY <1>5 DEF vars, cli, stored
  <2> QED
    BY <2>1 DEF ExactInv, PickedOnce, EmptyAtFirst, LoadedSoFar, LoadedAll, RaftSoFar, GivesUp,
                CountsRight, AtServer, InHandReady, InHand, FilesBefore, OncePerEndpoint,
                PickedServices
<1> QED
  BY <1>1, <1>2, <1>3, <1>4, <1>5 DEF Next, EnvStep

\* On the destinations of the commands a restore that says it is done has, on
\* every server of a picked service, emptied it, loaded each of its files once
\* and no other, and reset its raft after that, over any number of runs and
\* failures: nothing that goes wrong is taken for a success, but for the error
\* of a reset that is ignored, which leaves older data below what was loaded.
THEOREM RestoreIsExact ==
  SupportedSchemes /\ EndpointIsServer => (Spec => []RestoredExactly)
<1> SUFFICES ASSUME SupportedSchemes, EndpointIsServer PROVE Spec => []RestoredExactly
  OBVIOUS
<1>1. Init => ResetInv /\ ExactInv
  BY ResetInit, ExactInit
<1>2. ResetInv /\ ExactInv /\ [Next]_vars => (ResetInv /\ ExactInv)'
  BY ResetStep, ExactStep
<1>3. ResetInv /\ ExactInv => RestoredExactly
  <2> SUFFICES ASSUME ResetInv, ExactInv, phase = "done", NEW s \in PickedServices,
                      NEW v \in Servers[s]
               PROVE  /\ v \notin old /\ v \in raftReset
                      /\ \A a \in Archive :
                           loads[v][a] = IF a \in PickedServices /\ v \in Servers[a] THEN 1 ELSE 0
    BY DEF RestoredExactly, HoldsOld
  <2>1. Scheme[s] = "local" /\ Servers[s] \cap old = {}
    BY DEF ExactInv, LoadedAll
  <2>2. PICK t \in OncePerEndpoint(picked) : Endpoint[t] = Endpoint[s]
    BY OneOfEndpoint DEF ResetInv, TypeInv
  <2>3. s \in Service /\ t \in Service
    BY DEF ExactInv, LoadedAll, OncePerEndpoint, PickedServices
  <2>4. v \in raftReset
    BY <2>1, <2>2, <2>3 DEF EndpointIsServer, ExactInv, RaftSoFar
  <2>5. v \in Server
    BY <2>3, ConstantsAssumption
  <2> QED
    BY <2>1, <2>4, <2>5 DEF ExactInv, LoadedAll
<1> QED
  BY <1>1, <1>2, <1>3, PTL DEF Spec
-----------------------------------------------------------------------------
(* No abort without a fault *)

\* Every archive has a destination that can restore it: a served path, and
\* files where the destination's Stage looks for them.
Restorable ==
  \A a \in Archive :
    /\ a \in Service /\ RestoreURL[a] \in ServedURLs
    /\ \/ Scheme[a] = "local" /\ ArchiveAt[a] = Local
       \/ Scheme[a] = "pod" /\ Servers[a] = {ArchiveAt[a]}

\* Only the file in hand is staged and restored.
HandOnly ==
  \A s \in Service : op[s] \in {"stage", "restore"} => phase = "load" /\ s = picked[cur]

\* Until something fails, nothing goes wrong.
Quiet ==
  faults = 0 => /\ phase # "fatal"
                /\ \A s \in Service : op[s] \notin {"err", "hung"} /\ ~bad[s]

QuietInv == TypeInv /\ HandOnly /\ Quiet

LEMMA QuietInit == Init => QuietInv
BY TypeInit DEF Init, QuietInv, HandOnly, Quiet

\* A fault is counted.
LEMMA FaultCounts == TypeOK /\ faults' = 0 => ~Fault
BY DEF TypeOK, Fault

\* An operation of one service is followed by another.
LEMMA SetOpQuiet ==
  ASSUME QuietInv, TypeInv', NEW s \in Service, NEW next, SetOp(s, next),
         UNCHANGED <<phase, picked, cur>>,
         next \in {"stage", "restore"} => op[s] \in {"stage", "restore"},
         faults' = 0 => faults = 0 /\ next \notin {"err", "hung"}
  PROVE  QuietInv'
<1>1. TypeOK
  BY DEF QuietInv, TypeInv
<1>2. \A t \in Service : /\ op'[t] = (IF t = s THEN next ELSE op[t])
                         /\ bad'[t] = (IF t = s THEN FALSE ELSE bad[t])
  BY <1>1 DEF SetOp, TypeOK
<1>3. HandOnly'
  BY <1>2 DEF QuietInv, HandOnly
<1>4. Quiet'
  BY <1>2 DEF QuietInv, Quiet
<1> QED
  BY <1>3, <1>4 DEF QuietInv

\* A call returns.
LEMMA ReplyQuiet ==
  ASSUME QuietInv, TypeInv', NEW s \in Service, NEW v \in Server, NEW ok \in BOOLEAN,
         Reply(s, v, ok)
  PROVE  QuietInv'
<1>1. TypeOK
  BY DEF QuietInv, TypeInv
<1>2. UNCHANGED <<phase, picked, cur, op>>
  BY DEF Reply
<1>3. HandOnly'
  BY <1>2 DEF QuietInv, HandOnly
<1>4. ASSUME faults' = 0 PROVE ok /\ faults = 0
  BY <1>1, <1>4, FaultCounts DEF Reply
<1>5. faults' = 0 => \A t \in Service : bad'[t] = bad[t]
  BY <1>1, <1>4 DEF Reply, TypeOK, QuietInv, Quiet
<1>6. Quiet'
  BY <1>2, <1>4, <1>5 DEF QuietInv, Quiet
<1> QED
  BY <1>3, <1>6 DEF QuietInv

\* The error of a reset is ignored.
LEMMA IgnoredQuiet ==
  ASSUME QuietInv, TypeInv', NEW s \in Service, NEW v \in Server, ReplyIgnored(s, v)
  PROVE  QuietInv'
<1>1. UNCHANGED <<phase, picked, cur, op>> /\ faults' # 0
  BY FaultCounts DEF ReplyIgnored, QuietInv, TypeInv
<1> QED
  BY <1>1 DEF QuietInv, HandOnly, Quiet

LEMMA ServiceQuiet ==
  ASSUME Restorable, QuietInv, TypeInv', NEW s \in Service, ServiceStep(s)
  PROVE  QuietInv'
<1>1. TypeOK /\ HandOnly /\ Quiet /\ (faults' = 0 => ~Fault)
  BY FaultCounts DEF QuietInv, TypeInv
<1>2. op[s] \in {"stage", "restore"} => s \in Archive /\ s = picked[cur]
  BY <1>1 DEF HandOnly, QuietInv, TypeInv, TypeOK, FileInHand
<1>3. ASSUME NEW start \in BOOLEAN, StartStop(s, start) PROVE QuietInv'
  <2>1. PICK next : /\ SetOp(s, next) /\ next \in {"err", "ok", "drain"}
                    /\ next = "err" => Fault
                    /\ next # "err" => Fault \/ UNCHANGED faults
    BY <1>3 DEF StartStop
  <2> QED
    BY <1>1, <1>3, <2>1, SetOpQuiet DEF StartStop
<1>4. CASE WaitForDrain(s)
  <2>1. PICK next : /\ SetOp(s, next) /\ next \in {"err", "reset"}
                    /\ next = "err" => Fault
                    /\ next # "err" => UNCHANGED faults
    BY <1>4 DEF WaitForDrain
  <2> QED
    BY <1>1, <1>4, <2>1, SetOpQuiet DEF WaitForDrain
<1>5. ASSUME NEW v \in Server, Reset(s, v) \/ RAFTReset(s, v) PROVE QuietInv'
  BY <1>5, ReplyQuiet, IgnoredQuiet DEF Reset, RAFTReset
<1>6. ASSUME NEW v \in Server, Restore(s, v) PROVE QuietInv'
  <2>1. PostedURL(s) \in ServedURLs
    BY <1>2, <1>6 DEF Restore, Restorable, PostedURL
  <2> QED
    BY <1>6, <2>1, ReplyQuiet DEF Restore
<1>7. CASE ForEachServicePod(s)
  <2>1. op[s] \in FanOps /\ UNCHANGED <<phase, picked, cur>>
    BY <1>7 DEF ForEachServicePod
  <2>2. CASE SetOp(s, Joined(s)) /\ UNCHANGED faults
    <3>1. /\ Joined(s) \in {"ok", "restore", "start", "err"}
          /\ Joined(s) = "restore" => op[s] = "stage"
          /\ Joined(s) = "err" => bad[s]
      BY <2>1 DEF Joined, FanOps, AfterFan
    <3> QED
      BY <1>1, <2>1, <2>2, <3>1, SetOpQuiet DEF Quiet
  <2>3. CASE SetOp(s, "err") /\ Fault
    BY <1>1, <2>1, <2>3, SetOpQuiet
  <2> QED
    BY <1>7, <2>2, <2>3 DEF ForEachServicePod
<1>8. CASE StageLocal(s, picked[cur]) \/ StagePod(s, picked[cur])
  <2>1. /\ op[s] = "stage" /\ s \in Archive /\ picked[cur] = s
        /\ \/ Scheme[s] = "local" /\ ArchiveAt[s] = Local
           \/ Scheme[s] = "pod" /\ Servers[s] = {ArchiveAt[s]}
        /\ UNCHANGED <<phase, picked, cur>>
    BY <1>2, <1>8 DEF StageLocal, StagePod, Restorable
  <2>2. CASE SetOp(s, "restore") /\ (Fault \/ UNCHANGED faults)
    BY <1>1, <2>1, <2>2, SetOpQuiet
  <2>3. ASSUME NEW next \in {"err", "hung"}, SetOp(s, next), Fault PROVE QuietInv'
    BY <1>1, <2>1, <2>3, SetOpQuiet
  <2>4. CASE StageLocal(s, s)
    BY <2>1, <2>2, <2>3, <2>4 DEF StageLocal
  <2>5. CASE StagePod(s, s)
    BY <2>1, <2>2, <2>3, <2>5 DEF StagePod
  <2> QED
    BY <1>8, <2>1, <2>4, <2>5
<1>9. CASE StageHost(s)
  BY <1>2, <1>9 DEF StageHost, Restorable
<1> QED
  BY <1>3, <1>4, <1>5, <1>6, <1>7, <1>8, <1>9 DEF ServiceStep

\* New goroutines are started, or none.
LEMMA StartOpsQuiet ==
  ASSUME QuietInv, TypeInv', NEW S, NEW first, StartOps(S, first),
         first \notin {"err", "hung"}, phase' # "fatal" \/ faults' # 0,
         first \in {"stage", "restore"} => phase' = "load" /\ S = {picked'[cur']},
         faults' = 0 => faults = 0
  PROVE  QuietInv'
<1>1. \A t \in Service : op'[t] = (IF t \in S THEN first ELSE "none") /\ bad'[t] = FALSE
  BY DEF StartOps
<1>2. HandOnly'
  BY <1>1 DEF HandOnly
<1>3. Quiet'
  BY <1>1 DEF Quiet
<1> QED
  BY <1>2, <1>3 DEF QuietInv

LEMMA QuietStep ==
  ASSUME Restorable
  PROVE  QuietInv /\ [Next]_vars => QuietInv'
<1> SUFFICES ASSUME QuietInv, [Next]_vars PROVE QuietInv'
  OBVIOUS
<1>1. TypeInv' /\ TypeOK /\ (faults' = 0 => ~Fault)
  BY TypeStep, FaultCounts DEF QuietInv, TypeInv
<1>2. ASSUME NEW q \in Snapshots, Pick(q) PROVE QuietInv'
  <2>1. \A i \in DOMAIN q : q[i] \in Service
    BY SnapshotType DEF Restorable
  <2>2. phase' = "prepare" /\ StartOps(OncePerEndpoint(q), "stop") /\ UNCHANGED faults
    BY <1>2, <2>1 DEF Pick
  <2> QED
    BY <1>1, <2>2, StartOpsQuiet
<1>3. CASE Crash
  BY <1>1, <1>3, StartOpsQuiet DEF Crash, StopOps
<1>4. ASSUME NEW s \in Service, ServiceStep(s) PROVE QuietInv'
  BY <1>1, <1>4, ServiceQuiet
<1>5. CASE Fatal
  <2>1. faults # 0 /\ UNCHANGED faults
    BY <1>5 DEF Fatal, Failed, QuietInv, Quiet
  <2> QED
    BY <1>1, <1>5, <2>1, StartOpsQuiet DEF Fatal, StopOps
<1>6. CASE Prepared
  <2>1. cur' = 1 /\ picked' = picked
    BY <1>6 DEF Prepared, QuietInv, TypeInv, FileInHand
  <2> QED
    BY <1>1, <1>6, <2>1, StartOpsQuiet DEF Prepared
<1>7. CASE NextFile
  BY <1>1, <1>7, StartOpsQuiet DEF NextFile
<1>8. CASE Restarted
  BY <1>1, <1>8, StartOpsQuiet DEF Restarted, StopOps
<1>9. CASE UNCHANGED vars
  BY <1>1, <1>9 DEF vars, cli, QuietInv, HandOnly, Quiet
<1> QED
  BY <1>2, <1>3, <1>4, <1>5, <1>6, <1>7, <1>8, <1>9 DEF Next, EnvStep

\* When every archive has a destination that can restore it, a run gives up
\* only if something outside of it failed: no order of files, endpoints and
\* replies makes the command end in an error by itself.
THEOREM AbortNeedsFault == Restorable => (Spec => []NoAbortWithoutFault)
<1> SUFFICES ASSUME Restorable PROVE Spec => []NoAbortWithoutFault
  OBVIOUS
<1>1. QuietInv => NoAbortWithoutFault
  BY DEF QuietInv, Quiet, TypeInv, TypeOK, NoAbortWithoutFault
<1> QED
  BY <1>1, QuietInit, QuietStep, PTL DEF Spec
-----------------------------------------------------------------------------
(* The refinement of RestoreAbs *)

\* A fan-out that has failed has called somebody.
BadIsLate == \A s \in Service : bad[s] => pend[s] # Servers[s]

\* What the abstract actions are, under the mapping.
LEMMA AbstractActions ==
  ASSUME NEW v \in Server
  PROVE  /\ /\ Status = "running" /\ UNCHANGED <<Status, picked>>
            /\ Content' = [Content EXCEPT ![v] = {}] /\ unwiped' = unwiped \ {v}
            => Promise!AbsNext
         /\ /\ Status = "running" /\ UNCHANGED <<Status, picked, Content>>
            /\ unwiped' = unwiped \cup {v}
            => Promise!AbsNext
         /\ \A k \in DOMAIN picked :
              /\ Status = "running" /\ UNCHANGED <<Status, picked, unwiped>>
              /\ Content[v] \ Promise!Kept(v) = Promise!MeantFor(v, k - 1)
              /\ v \in Servers[picked[k]]
              /\ Content' = [Content EXCEPT ![v] = @ \cup {picked[k]}]
              => Promise!AbsNext
BY DEF Promise!AbsNext, Promise!Wipe, Promise!Excuse, Promise!LoadNext

LEMMA AbstractEnd ==
  ASSUME Status = "running", UNCHANGED <<picked, Content, unwiped>>,
         \/ Status' = "failed"
         \/ /\ Status' = "done"
            /\ \A v \in Promise!Destinations :
                 Content[v] \ Promise!Kept(v) = Promise!MeantFor(v, Len(picked))
  PROVE  Promise!AbsNext
BY DEF Promise!AbsNext, Promise!End

\* A server without content has loaded nothing and holds nothing from before;
\* what a server has besides what it may keep is what it loaded, if the
\* command knows of no other data there.
LEMMA ContentIs ==
  ASSUME TypeOK
  PROVE  /\ DOMAIN Content = Server
         /\ \A v \in Server :
              /\ Content[v] = {} <=> v \notin HoldsOld /\ loads[v] = NoLoad
              /\ v \notin old => Content[v] \ Promise!Kept(v) = {a \in Archive : loads[v][a] > 0}
<1>1. \A v \in Server : Content[v] = {a \in Archive : loads[v][a] > 0}
                                    \cup (IF v \in HoldsOld THEN {Stale} ELSE {})
  BY DEF Content
<1>2. ASSUME NEW v \in Server PROVE (\A a \in Archive : ~(loads[v][a] > 0)) <=> loads[v] = NoLoad
  <2>1. loads[v] \in [Archive -> Nat]
    BY DEF TypeOK
  <2>2. \A a \in Archive : ~(loads[v][a] > 0) <=> loads[v][a] = 0
    BY <2>1
  <2> QED
    BY <2>1, <2>2 DEF NoLoad
<1>3. ASSUME NEW v \in Server, v \notin old
      PROVE  Content[v] \ Promise!Kept(v) = {a \in Archive : loads[v][a] > 0}
  BY <1>1, <1>3, ConstantsAssumption DEF HoldsOld, Promise!Kept
<1>4. \A v \in Server : Content[v] = {} <=> v \notin HoldsOld /\ loads[v] = NoLoad
  BY <1>1, <1>2
<1> QED
  BY <1>3, <1>4 DEF Content

LEMMA PromiseInit == Init => Promise!AbsInit
<1> SUFFICES ASSUME Init PROVE Promise!AbsInit
  OBVIOUS
<1>1. Status = "idle" /\ picked = <<>>
  BY DEF Init, Status, Running
<1>2. \A v \in Server : Content[v] = {Stale}
  BY DEF Init, Content, NoLoad, HoldsOld
<1> QED
  BY <1>1, <1>2 DEF Promise!AbsInit, Content, Init

LEMMA BadInit == Init => BadIsLate
BY DEF Init, BadIsLate

LEMMA BadStep ==
  ASSUME ResetInv, BadIsLate, [Next]_vars
  PROVE  BadIsLate'
<1>1. TypeOK /\ \A s \in Service : pend[s] \subseteq Servers[s]
  BY DEF ResetInv, TypeInv, PhaseOps
<1>2. ASSUME NEW s \in Service, NEW next, SetOp(s, next) PROVE BadIsLate'
  BY <1>1, <1>2 DEF SetOp, BadIsLate, TypeOK
<1>3. ASSUME NEW S, NEW first, StartOps(S, first) PROVE BadIsLate'
  BY <1>3 DEF StartOps, BadIsLate
<1>4. ASSUME NEW s \in Service, NEW v \in pend[s], pend' = [pend EXCEPT ![s] = @ \ {v}],
             \A t \in Service \ {s} : bad'[t] = bad[t]
      PROVE  BadIsLate'
  BY <1>1, <1>4 DEF BadIsLate, TypeOK
<1>5. ASSUME NEW s \in Service, ServiceStep(s) PROVE BadIsLate'
  <2>1. ASSUME NEW v \in Server, Reset(s, v) \/ Restore(s, v) \/ RAFTReset(s, v) PROVE BadIsLate'
    <3>1. v \in pend[s] /\ pend' = [pend EXCEPT ![s] = @ \ {v}]
      BY <2>1 DEF Reset, Restore, RAFTReset, Reply, ReplyIgnored
    <3>2. \A t \in Service \ {s} : bad'[t] = bad[t]
      BY <1>1, <2>1 DEF Reset, Restore, RAFTReset, Reply, ReplyIgnored, TypeOK
    <3> QED
      BY <1>4, <3>1, <3>2
  <2> QED
    BY <1>2, <1>5, <2>1 DEF ServiceStep, StartStop, WaitForDrain, ForEachServicePod, StageLocal,
                            StagePod, StageHost
<1>6. ASSUME NEW q \in Snapshots, Pick(q) PROVE BadIsLate'
  BY <1>3, <1>6 DEF Pick, StopOps
<1>7. CASE Crash \/ EnvStep
  BY <1>3, <1>7 DEF Crash, EnvStep, Fatal, Prepared, NextFile, Restarted, StopOps
<1>8. CASE UNCHANGED vars
  BY <1>8 DEF vars, cli, BadIsLate
<1> QED
  BY <1>5, <1>6, <1>7, <1>8 DEF Next

LEMMA PickPromise ==
  ASSUME ResetInv, ResetInv', NEW q \in Snapshots, Pick(q)
  PROVE  Promise!AbsNext
<1>1. TypeOK /\ TypeOK'
  BY DEF ResetInv, TypeInv
<1>2. Status # "running"
  BY DEF Pick, Status, Running
<1>3. picked' = q /\ q \in Seq(Archive)
  BY SnapshotType DEF Pick
<1>4. \/ Status' = "running" /\ \A i \in DOMAIN picked' : picked'[i] \in Service
      \/ Status' = "failed"
  BY DEF Pick, Status, Running
<1>5. ASSUME NEW v \in Server
      PROVE  Content'[v] = IF Content[v] = {} THEN {} ELSE {Stale}
  <2>1. loads'[v] = NoLoad /\ (v \in HoldsOld' <=> v \in HoldsOld \/ loads[v] # NoLoad)
    BY <1>1 DEF Pick, TypeOK, HoldsOld
  <2>2. Content'[v] = IF v \in HoldsOld' THEN {Stale} ELSE {}
    BY <2>1 DEF Content, NoLoad
  <2> QED
    BY <1>1, <2>1, <2>2, ContentIs
<1>6. Content' = [v \in Server |-> IF Content[v] = {} THEN {} ELSE {Stale}]
  BY <1>5 DEF Content
<1> QED
  BY <1>2, <1>3, <1>4, <1>6 DEF Promise!AbsNext, Promise!Begin, Pick

\* The preparation and every Stage of a statefulset wipe a server, or it is
\* excused.
LEMMA ResetPromise ==
  ASSUME ResetInv, NEW s \in Service, NEW v \in Server, Reset(s, v)
  PROVE  [Promise!AbsNext]_(Promise!absVars)
<1>1. TypeOK /\ UNCHANGED <<phase, picked>>
  BY DEF ResetInv, TypeInv, Reset, Reply, ReplyIgnored
<1>2. Status = "running" /\ UNCHANGED <<Status, picked>>
  BY <1>1 DEF Reset, ResetInv, PhaseOps, Status, Running
<1>3. CASE UNCHANGED <<old, unwiped, loads>>
  BY <1>2, <1>3 DEF Content, HoldsOld, Promise!absVars
<1>4. CASE old' = old \ {v} /\ unwiped' = unwiped \ {v} /\ loads' = [loads EXCEPT ![v] = NoLoad]
  <2>1. Content' = [Content EXCEPT ![v] = {}]
    <3>1. \A w \in Server : /\ w \in HoldsOld' <=> w \in HoldsOld /\ w # v
                            /\ loads'[w] = IF w = v THEN NoLoad ELSE loads[w]
      BY <1>1, <1>4 DEF TypeOK, HoldsOld
    <3>2. \A w \in Server : Content'[w] = IF w = v THEN {} ELSE Content[w]
      BY <3>1 DEF Content, NoLoad
    <3> QED
      BY <3>2 DEF Content
  <2> QED
    BY <1>2, <1>4, <2>1, AbstractActions
<1>5. CASE old' = old \ {v} /\ unwiped' = unwiped \cup ({v} \cap old) /\ UNCHANGED loads
  <2>1. UNCHANGED Content
    BY <1>5 DEF Content, HoldsOld
  <2>2. CASE v \in old
    BY <1>2, <1>5, <2>1, <2>2, AbstractActions
  <2>3. CASE v \notin old
    BY <1>2, <1>5, <2>1, <2>3 DEF Promise!absVars
  <2> QED
    BY <2>2, <2>3
<1> QED
  BY <1>3, <1>4, <1>5 DEF Reset

\* A restore that a server handles loads the file in hand behind those before.
LEMMA RestorePromise ==
  ASSUME SupportedSchemes, ResetInv, ExactInv, BadIsLate,
         NEW s \in Service, NEW v \in Server, Restore(s, v)
  PROVE  [Promise!AbsNext]_(Promise!absVars)
<1>1. TypeOK /\ UNCHANGED <<phase, picked>> /\ op[s] = "restore" /\ v \in pend[s]
  BY DEF ResetInv, TypeInv, Restore, Reply
<1>2. phase = "load" /\ s = InHand /\ cur \in DOMAIN picked
  BY <1>1 DEF ResetInv, TypeInv, TypeOK, Phases, PhaseOps, FileInHand, Running, InHand
<1>3. Status = "running" /\ UNCHANGED <<Status, picked>>
  BY <1>1, <1>2 DEF Status, Running
<1>4. CASE UNCHANGED <<old, unwiped, loads>>
  BY <1>3, <1>4 DEF Content, HoldsOld, Promise!absVars
<1>5. CASE /\ PostedURL(s) \in ServedURLs
           /\ loads' = [loads EXCEPT ![v] = Loaded(v)]
           /\ Stale \notin folder[v] => UNCHANGED <<old, unwiped>>
  <2>1. Scheme[s] = "local" /\ Servers[s] = {v}
    <3>1. Scheme[s] # "statefulset"
      BY <1>5, ConstantsAssumption DEF PostedURL
    <3>2. Scheme[s] = "local"
      BY <1>1, <3>1 DEF ResetInv, FolderReady
    <3> QED
      BY <1>1, <3>2, ConstantsAssumption DEF ResetInv, PhaseOps
  <2>2. pend[s] = Servers[s] /\ ~bad[s]
    BY <1>1, <2>1 DEF ResetInv, PhaseOps, BadIsLate
  <2>3. CountsRight /\ folder[v] = {s}
    BY <1>1, <1>2, <2>1, <2>2 DEF ExactInv, LoadedSoFar, GivesUp, FailsToRestore, InHandReady
  <2>4. v \notin old
    BY <1>2, <2>1 DEF ResetInv, LocalsReset, PickedServices, InHand
  <2>5. UNCHANGED <<old, unwiped>> /\ s \in Archive
    BY <1>1, <1>2, <1>5, <2>3, ConstantsAssumption DEF InHand, TypeOK
  <2>6. \A a \in Archive : loads[v][a] > 0 <=> v \in Servers[a] /\ a \in FilesBefore
    <3>1. ~AtServer(v)
      BY <1>1, <1>2 DEF AtServer
    <3>2. \A a \in Archive :
            loads[v][a] = IF v \in Servers[a] /\ a \in FilesBefore THEN 1 ELSE 0
      BY <2>3, <3>1 DEF CountsRight
    <3> QED
      BY <3>2
  <2>7. Content[v] \ Promise!Kept(v) = {a \in Archive : v \in Servers[a] /\ a \in FilesBefore}
    BY <1>1, <2>4, <2>6, ContentIs
  <2>8. Content[v] \ Promise!Kept(v) = Promise!MeantFor(v, cur - 1)
    <3>1. \A i \in 1..(cur - 1) : picked[i] \in Archive
      BY <1>1, <1>2 DEF TypeOK
    <3> QED
      BY <2>7, <3>1 DEF Promise!MeantFor, FilesBefore
  <2>9. Content' = [Content EXCEPT ![v] = @ \cup {picked[cur]}]
    <3>1. \A a \in Archive : loads'[v][a] = loads[v][a] + IF a = s THEN 1 ELSE 0
      BY <1>1, <1>5, <2>3 DEF Loaded, TypeOK
    <3>2. \A a \in Archive : loads'[v][a] > 0 <=> loads[v][a] > 0 \/ a = s
      BY <1>1, <3>1 DEF TypeOK
    <3>3. \A w \in Server \ {v} : loads'[w] = loads[w]
      BY <1>1, <1>5 DEF TypeOK
    <3>4. \A w \in Server : Content'[w] = IF w = v THEN Content[w] \cup {s} ELSE Content[w]
      BY <2>5, <3>2, <3>3 DEF Content, HoldsOld
    <3> QED
      BY <1>2, <3>4 DEF Content, InHand
  <2> QED
    BY <1>2, <1>3, <2>1, <2>5, <2>8, <2>9, AbstractActions DEF InHand
<1> QED
  BY <1>4, <1>5 DEF Restore

\* No other step of a service is seen.
LEMMA ServicePromise ==
  ASSUME SupportedSchemes, ResetInv, ExactInv, BadIsLate, NEW s \in Service, ServiceStep(s)
  PROVE  [Promise!AbsNext]_(Promise!absVars)
<1>1. CASE UNCHANGED <<phase, picked, old, unwiped, loads>>
  BY <1>1 DEF Status, Running, Content, HoldsOld, Promise!absVars
<1> QED
  BY <1>1, ResetPromise, RestorePromise
     DEF ServiceStep, StartStop, WaitForDrain, RAFTReset, Reply, ForEachServicePod, StageLocal,
         StagePod, StageHost, stored

LEMMA EnvPromise ==
  ASSUME ResetInv, ExactInv, Crash \/ EnvStep
  PROVE  [Promise!AbsNext]_(Promise!absVars)
<1>1. Status = "running" /\ UNCHANGED <<picked, Content, unwiped>>
  BY DEF Crash, EnvStep, Fatal, Prepared, NextFile, Restarted, Running, Status, stored, Content,
         HoldsOld
<1>2. CASE Crash \/ Fatal
  BY <1>1, <1>2, AbstractEnd DEF Crash, Fatal, Status, Running
<1>3. CASE Prepared \/ NextFile
  BY <1>1, <1>3 DEF Prepared, NextFile, Status, Running, Promise!absVars
<1>4. CASE Restarted
  <2>1. phase = "restart" /\ Status' = "done" /\ TypeOK
    BY <1>4 DEF Restarted, Status, Running, ResetInv, TypeInv
  <2>2. ASSUME NEW i \in DOMAIN picked, NEW v \in Servers[picked[i]]
        PROVE  Content[v] \ Promise!Kept(v) = Promise!MeantFor(v, Len(picked))
    <3>1. picked[i] \in PickedServices /\ PickedServices \subseteq Service
      BY <2>1 DEF PickedServices, ExactInv, LoadedAll
    <3>2. v \in Server /\ v \notin old
      BY <2>1, <2>2, <3>1, ConstantsAssumption DEF ExactInv, LoadedAll
    <3>3. Content[v] \ Promise!Kept(v) = {a \in Archive : a \in PickedServices /\ v \in Servers[a]}
      BY <2>1, <3>2, ContentIs DEF ExactInv, LoadedAll
    <3>4. DOMAIN picked = 1..Len(picked) /\ \A k \in DOMAIN picked : picked[k] \in Archive
      BY <2>1 DEF TypeOK
    <3> QED
      BY <3>3, <3>4 DEF Promise!MeantFor, PickedServices
  <2>3. \A v \in Promise!Destinations :
          Content[v] \ Promise!Kept(v) = Promise!MeantFor(v, Len(picked))
    BY <2>2 DEF Promise!Destinations
  <2> QED
    BY <1>1, <2>1, <2>3, AbstractEnd
<1> QED
  BY <1>2, <1>3, <1>4 DEF EnvStep

\* On the destinations of the commands the whole command, with its endpoints,
\* fan-outs, lost replies, kills and further runs, keeps the promise of
\* RestoreAbs: servers are wiped or excused, load their files in the order of
\* the snapshot, and a run is called done only if all of them hold them.
THEOREM ImplementsRestore ==
  SupportedSchemes /\ EndpointIsServer => (Spec => KeepsPromise)
<1> SUFFICES ASSUME SupportedSchemes, EndpointIsServer PROVE Spec => KeepsPromise
  OBVIOUS
<1> DEFINE Inv == ResetInv /\ ExactInv /\ BadIsLate
<1>1. Init => Inv /\ Promise!AbsInit
  BY ResetInit, ExactInit, BadInit, PromiseInit
<1>2. Inv /\ [Next]_vars => Inv'
  BY ResetStep, ExactStep, BadStep
<1>3. Inv /\ Inv' /\ [Next]_vars => [Promise!AbsNext]_(Promise!absVars)
  <2> SUFFICES ASSUME Inv, Inv', [Next]_vars PROVE [Promise!AbsNext]_(Promise!absVars)
    OBVIOUS
  <2>1. CASE UNCHANGED vars
    BY <2>1 DEF vars, cli, stored, Status, Running, Content, HoldsOld, Promise!absVars
  <2> QED
    BY <2>1, PickPromise, ServicePromise, EnvPromise DEF Next
<1> QED
  BY <1>1, <1>2, <1>3, PTL DEF Spec, KeepsPromise, Promise!AbsSpec
=============================================================================
