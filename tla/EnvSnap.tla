------------------------------- MODULE EnvSnap -------------------------------
(***************************************************************************)
(* Asking every service of an environment for a snapshot: the commands     *)
(* prodServiceToProdSnap and devServiceToDevSnap parse the specs, EnvSnap  *)
(* (schema/envSnap.go) runs Service.Snap of each in a goroutine and a      *)
(* service in Kubernetes is asked through a forwarded port (kube/kube.go   *)
(* PortForward), whose failure ends the whole process.                     *)
(***************************************************************************)
EXTENDS Specs

CONSTANT Commands  \* the sequences of specs a command may be given, of archives too

ASSUME EnvSnapAssumption == Commands \subseteq Seq(Seq(Seq(STRING)))

VARIABLES
  phase,        \* where the command is
  specs,        \* its specs
  services,     \* the services parsed so far
  doing,        \* doing[i]: where the goroutine of the i-th service is
  forward,      \* forward[i]: the port forwarded to it
  snapped,      \* the servers that have taken a request for a snapshot
  interrupted   \* whether the user has pressed Ctrl-C

vars == <<phase, specs, services, doing, forward, snapped, interrupted>>

Init ==
  /\ specs \in Commands
  /\ phase = "parse" /\ services = <<>>
  /\ doing = [i \in DOMAIN specs |-> "idle"]
  /\ forward = [i \in DOMAIN specs |-> "none"]
  /\ snapped = {} /\ interrupted = FALSE

-----------------------------------------------------------------------------
(* The command *)

\* Mutant: a spec that is not right is only logged.
BadSpecPassed ==
  /\ UNCHANGED phase
  /\ services' = Append(services,
       [Scheme |-> "host", Name |-> None, Host |-> None, KubeNamespace |-> Blank,
        KubeName |-> Blank, KubeContainer |-> Blank, Port |-> None, BackupURL |-> None,
        RestoreURL |-> None, RestorePath |-> None])

\* A spec that is not right ends the process.
BadSpec == phase' = "fatal" /\ UNCHANGED services

\* The specs are parsed one after the other.
Parse ==
  LET i == Len(services) + 1 IN
  /\ phase = "parse" /\ i \in DOMAIN specs
  /\ IF ServiceSpecOK(specs[i])
     THEN services' = Append(services, ServiceParse(specs[i])) /\ UNCHANGED phase
     ELSE BadSpec
  /\ UNCHANGED <<specs, doing, forward, snapped, interrupted>>

\* Mutant: the services are asked before all are parsed.
SnapshotsEarly ==
  /\ phase = "parse"
  /\ phase' = "snap" /\ doing' = [i \in DOMAIN specs |-> "begin"]
  /\ UNCHANGED <<specs, services, forward, snapped, interrupted>>

\* EnvSnap: one goroutine per service.
Snapshots ==
  /\ phase = "parse" /\ Len(services) = Len(specs)
  /\ phase' = "snap" /\ doing' = [i \in DOMAIN specs |-> "begin"]
  /\ UNCHANGED <<specs, services, forward, snapped, interrupted>>

AllReturned == \A i \in DOMAIN doing : doing[i] \in {"ok", "err"}

Wait ==
  /\ phase = "snap" /\ AllReturned
  /\ phase' = IF \E i \in DOMAIN doing : doing[i] = "err" THEN "fatal" ELSE "done"
  /\ UNCHANGED <<specs, services, doing, forward, snapped, interrupted>>

-----------------------------------------------------------------------------
(* One service *)

\* Of a statefulset it is the first pod that is asked.
Asked(i) ==
  IF services[i].Scheme = "statefulset" THEN ServicePodGet(services[i]) ELSE services[i]

\* The server that the request reaches.
Server(s) ==
  IF s.Scheme = "pod" THEN <<<<s.KubeNamespace, s.KubeName>>, s.Port>>
  ELSE <<s.Host, s.Port>>

\* PortForward begins, unless there is no client, no such pod, or it does not run.
Begin(i) ==
  /\ doing[i] = "begin"
  /\ \/ Asked(i).Scheme = "pod" /\ doing' = [doing EXCEPT ![i] = "forward"]
     \/ Asked(i).Scheme = "pod" /\ doing' = [doing EXCEPT ![i] = "err"]
     \/ Asked(i).Scheme # "pod" /\ doing' = [doing EXCEPT ![i] = "post"]
  /\ UNCHANGED <<phase, specs, services, forward, snapped, interrupted>>

\* Mutant: a forward that fails is waited for.
ForwardFailsAlone(i) ==
  /\ doing[i] = "forward" /\ forward' = [forward EXCEPT ![i] = "failed"]
  /\ UNCHANGED <<phase, specs, services, doing, snapped, interrupted>>

\* ForwardPorts fails before it is ready: Fatalf ends the process.
ForwardFails(i) ==
  /\ doing[i] = "forward" /\ phase' = "dead"
  /\ UNCHANGED <<specs, services, doing, forward, snapped, interrupted>>

\* It is ready; a forward that Ctrl-C has stopped is not there any more.
ForwardReady(i) ==
  /\ doing[i] = "forward" /\ forward[i] # "failed"
  /\ doing' = [doing EXCEPT ![i] = "post"]
  /\ forward' = [forward EXCEPT ![i] = IF @ = "stopped" THEN @ ELSE "up"]
  /\ UNCHANGED <<phase, specs, services, snapped, interrupted>>

\* The connection is dialled and nothing answers: it neither fails nor becomes
\* ready, and PortForward waits without a limit.
ForwardHangs(i) ==
  /\ doing[i] = "forward" /\ doing' = [doing EXCEPT ![i] = "hung"]
  /\ UNCHANGED <<phase, specs, services, forward, snapped, interrupted>>

\* The connection to the pod is lost.
ForwardBreaks(i) ==
  /\ forward[i] = "up" /\ doing[i] = "post"
  /\ forward' = [forward EXCEPT ![i] = "stopped"]
  /\ UNCHANGED <<phase, specs, services, doing, snapped, interrupted>>

\* Mutant: an error of the request is not returned.
PostBlindly(i) ==
  /\ doing[i] = "post" /\ doing' = [doing EXCEPT ![i] = "ok"]
  /\ \/ UNCHANGED snapped
     \/ /\ Asked(i).Scheme = "pod" => forward[i] = "up"
        /\ snapped' = snapped \cup {Server(Asked(i))}
  /\ UNCHANGED <<phase, specs, services, forward, interrupted>>

\* The request does not get there, or it does and the reply may be an error or lost.
Post(i) ==
  /\ doing[i] = "post"
  /\ \/ doing' = [doing EXCEPT ![i] = "err"] /\ UNCHANGED snapped
     \/ /\ Asked(i).Scheme = "pod" => forward[i] = "up"
        /\ snapped' = snapped \cup {Server(Asked(i))}
        /\ \E reply \in {"ok", "err"} : doing' = [doing EXCEPT ![i] = reply]
  /\ UNCHANGED <<phase, specs, services, forward, interrupted>>

\* PortForward has not returned.
Forwarding(i) == doing[i] \in {"forward", "hung"}

\* While a port is being forwarded Ctrl-C stops the forwards and nothing else.
Interrupt ==
  /\ phase \in {"parse", "snap"} /\ ~interrupted /\ interrupted' = TRUE
  /\ IF \E i \in DOMAIN doing : Forwarding(i)
     THEN /\ forward' = [i \in DOMAIN forward |->
                           IF Forwarding(i) THEN "stopped" ELSE forward[i]]
          /\ UNCHANGED phase
     ELSE phase' = "dead" /\ UNCHANGED forward
  /\ UNCHANGED <<specs, services, doing, snapped>>

Snap(i) == Begin(i) \/ ForwardFails(i) \/ ForwardReady(i) \/ Post(i)

Caller == Parse \/ Snapshots \/ Wait

Next ==
  \/ Caller \/ Interrupt
  \/ phase = "snap" /\ \E i \in DOMAIN specs : Snap(i) \/ ForwardHangs(i) \/ ForwardBreaks(i)

\* The caller and the goroutines run; a request is answered or fails, and so
\* does a forward that does not hang.
Spec ==
  /\ Init /\ [][Next]_vars
  /\ WF_vars(Caller) /\ WF_vars(phase = "snap" /\ \E i \in DOMAIN specs : Snap(i))

-----------------------------------------------------------------------------
(* Properties *)

Ended == phase \in {"done", "fatal", "dead"}

TypeOK ==
  /\ phase \in {"parse", "snap", "done", "fatal", "dead"}
  /\ specs \in Seq(Seq(Seq(STRING))) /\ Len(services) <= Len(specs)
  /\ doing \in [DOMAIN specs -> {"idle", "begin", "forward", "hung", "post", "ok", "err"}]
  /\ forward \in [DOMAIN specs -> {"none", "up", "stopped"}]
  /\ \A i \in DOMAIN specs : doing[i] # "idle" => Len(services) = Len(specs)
  /\ interrupted \in BOOLEAN

\* The server a spec names, read from the spec alone.
Named(spec) ==
  CASE spec[1][1] = "statefulset" -> <<<<spec[2][1], spec[2][2] \o "-0">>, spec[3]>>
    [] spec[1][1] = "pod" -> <<<<spec[3][1], spec[3][2]>>, spec[4]>>
    [] spec[1][1] = "host" -> <<spec[3], spec[4]>>
    [] spec[1][1] = "local" -> <<<<"localhost">>, spec[3]>>

\* When the command is done every server that its specs name has taken a
\* request for a snapshot, whatever forwards broke and replies were lost.
DoneMeansSnapped ==
  phase = "done" => \A i \in DOMAIN specs : Named(specs[i]) \in snapped

\* As long as a spec is not right no server is asked for anything.
NoneAskedUnparsed ==
  snapped # {} => \A i \in DOMAIN specs : ServiceSpecOK(specs[i])

\* A part of which nothing is left out: no more than a container, with a name.
Complete(part) == Len(part) <= 3 /\ (Len(part) = 3 => part[3] # Blank)

\* A service has the fields its spec gives, each in its place; what a spec
\* wrongly has behind a container, and a container without a name, is left out.
ParsedAsWritten ==
  \A i \in DOMAIN services :
    (\A part \in DOMAIN specs[i] : Complete(specs[i][part])) =>
      ServiceSpec(services[i]) = specs[i]

\* A command that takes archives reads them with ArchiveParse, and the Spec made
\* for each pod of a statefulset's archive is read back as that pod's archive, so
\* that what the log names can be given to archiveFileCopy.
PodArchiveParses ==
  \A i \in DOMAIN specs :
    specs[i][1] = <<"statefulset">> /\ ArchiveParsing(specs[i]) = "ok" =>
      \A replica \in {"0", "1"} :
        LET pod == PodArchiveGet(ArchiveParse(specs[i]), replica)
        IN ArchiveParsing(pod.Spec) = "ok" /\ ArchiveParse(pod.Spec) = pod.archive

\* The command ends unless a dial hangs: no forward that fails, breaks or is
\* stopped leaves its service waiting for ever.
SnapEnds == <>(Ended \/ \E i \in DOMAIN doing : doing[i] = "hung")
=============================================================================
