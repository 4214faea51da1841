-------------------------------- MODULE Specs --------------------------------
(***************************************************************************)
(* The specs of services and archives, and what the code makes of them     *)
(* (Parse, ServicePodGet and PodArchiveGet of schema/service.go and        *)
(* schema/archive.go).  A spec is the sequence of its parts, split at "|", *)
(* and a part the sequence of its names, split at "/".                     *)
(***************************************************************************)
EXTENDS Naturals, Sequences

CONSTANT Ports  \* the parts that are numbers

\* A name that is not there, and a part.
Blank == ""
None  == <<Blank>>

\* Mutant: the two URLs change places.
ServiceLayoutSwapped ==
  LET urls == <<"port", "RestoreURL", "BackupURL", "RestorePath">>
  IN [statefulset |-> <<"kube">> \o urls, pod |-> <<"Name", "kube">> \o urls,
      host |-> <<"Name", "Host">> \o urls, local |-> <<"Name">> \o urls]

\* The parts of a service spec behind its scheme.
ServiceLayout ==
  [statefulset |-> <<"kube", "port", "BackupURL", "RestoreURL", "RestorePath">>,
   pod |-> <<"Name", "kube", "port", "BackupURL", "RestoreURL", "RestorePath">>,
   host |-> <<"Name", "Host", "port", "BackupURL", "RestoreURL", "RestorePath">>,
   local |-> <<"Name", "port", "BackupURL", "RestoreURL", "RestorePath">>]

Fields(layout) == {layout[i] : i \in DOMAIN layout}

Position(layout, field) == CHOOSE i \in DOMAIN layout : layout[i] = field

\* What each part must be: a namespace and a name, a number, or not empty.
PartOK(field, part) ==
  CASE field = "kube" -> Len(part) >= 2 /\ part[1] # Blank /\ part[2] # Blank
    [] field = "port" -> part \in Ports
    [] OTHER -> part # None

ServiceSpecOK(spec) ==
  LET scheme == spec[1][1] IN
  /\ Len(spec[1]) = 1 /\ scheme \in DOMAIN ServiceLayout
  /\ Len(spec) = Len(ServiceLayout[scheme]) + 1
  /\ \A i \in DOMAIN ServiceLayout[scheme] : PartOK(ServiceLayout[scheme][i], spec[i + 1])

\* Service.Parse, of a spec that is right.
ServiceParse(spec) ==
  LET scheme == spec[1][1]
      layout == ServiceLayout[scheme]
      has(field) == field \in Fields(layout)
      part(field) == IF has(field) THEN spec[Position(layout, field) + 1] ELSE None
      kube == part("kube")
  IN [Scheme |-> scheme,
      Name |-> IF scheme = "statefulset" THEN <<kube[2]>> ELSE part("Name"),
      Host |-> IF scheme = "local" THEN <<"localhost">> ELSE part("Host"),
      KubeNamespace |-> IF has("kube") THEN kube[1] ELSE Blank,
      KubeName |-> IF has("kube") THEN kube[2] ELSE Blank,
      KubeContainer |-> IF has("kube") /\ Len(kube) = 3 THEN kube[3] ELSE Blank,
      Port |-> part("port"), BackupURL |-> part("BackupURL"),
      RestoreURL |-> part("RestoreURL"), RestorePath |-> part("RestorePath")]

\* ServicePodGet: the service of the first pod, without its URLs and path.
ServicePodGet(s) ==
  LET pod == s.KubeName \o "-0"
  IN [s EXCEPT !.Scheme = "pod", !.KubeName = pod,
               !.Host = <<pod, s.KubeName, s.KubeNamespace>>,
               !.BackupURL = None, !.RestoreURL = None, !.RestorePath = None]

\* The reference: the spec that a service with these fields is written as.
ServiceSpec(s) ==
  LET kube == <<s.KubeNamespace, s.KubeName>>
        \o (IF s.KubeContainer = Blank THEN <<>> ELSE <<s.KubeContainer>>)
      urls == <<s.Port, s.BackupURL, s.RestoreURL, s.RestorePath>>
  IN << <<s.Scheme>> >> \o
     (CASE s.Scheme = "statefulset" -> <<kube>>
        [] s.Scheme = "pod" -> <<s.Name, kube>>
        [] s.Scheme = "host" -> <<s.Name, s.Host>>
        [] s.Scheme = "local" -> <<s.Name>>) \o urls

-----------------------------------------------------------------------------
(* Archives *)

\* Mutant: the pod comes before the service.
ArchiveNamesSwapped ==
  [statefulset |-> <<"KubeNamespace", "KubeName">>,
   pod |-> <<"KubeNamespace", "KubeName", "ServiceName">>,
   host |-> <<"Host", "ServiceName">>, local |-> <<"ServiceName">>]

\* The names in the second part of an archive spec.
ArchiveNames ==
  [statefulset |-> <<"KubeNamespace", "KubeName">>,
   pod |-> <<"KubeNamespace", "ServiceName", "KubeName">>,
   host |-> <<"Host", "ServiceName">>, local |-> <<"ServiceName">>]

\* The names that must not be empty: that of a host's service may be, and of a
\* local archive it is the whole part that must not be.
Needed(scheme) ==
  CASE scheme = "host" -> {1} [] scheme = "local" -> {}
    [] OTHER -> DOMAIN ArchiveNames[scheme]

\* Archive.Parse: an error, a panic on a pod spec without the pod, or fine.
ArchiveParsing(spec) ==
  LET scheme == spec[1][1] IN
  IF Len(spec[1]) # 1 \/ scheme \notin DOMAIN ArchiveNames \/ Len(spec) # 3 THEN "error"
  ELSE LET names == spec[2]
           few == scheme # "local" /\ Len(names) < 2
           empty == \/ scheme = "local" /\ names = None
                    \/ \E i \in Needed(scheme) : i \in DOMAIN names /\ names[i] = Blank
       IN IF few \/ empty THEN "error"
          ELSE IF scheme = "pod" /\ Len(names) < 3 THEN "panic"
          ELSE IF spec[3] = None THEN "error" ELSE "ok"

\* The service's name is one of the names, and that of a local archive the whole
\* part, with every "/" in it.
ArchiveParse(spec) ==
  LET scheme == spec[1][1]
      names == ArchiveNames[scheme]
      name(field) ==
        IF field \in Fields(names) THEN spec[2][Position(names, field)] ELSE Blank
  IN [Scheme |-> scheme, Host |-> name("Host"), KubeNamespace |-> name("KubeNamespace"),
      KubeName |-> name("KubeName"), Path |-> spec[3],
      ServiceName |-> CASE scheme = "local" -> spec[2]
                        [] scheme = "statefulset" -> <<name("KubeName")>>
                        [] OTHER -> <<name("ServiceName")>>]

\* PodArchiveGet: the archive of a pod and, apart, its Spec; <pod> in the path
\* becomes the pod's name.  The service of a statefulset's archive has one name.
PodArchiveGet(a, replica) ==
  LET pod == a.KubeName \o "-" \o replica
      path == [k \in DOMAIN a.Path |-> IF a.Path[k] = "<pod>" THEN pod ELSE a.Path[k]]
  IN [archive |-> [a EXCEPT !.Scheme = "pod", !.KubeName = pod, !.Path = path],
      Spec |-> << <<"pod">>, <<a.KubeNamespace, a.ServiceName[1], pod>>, path>>]
=============================================================================
