----------------------------- MODULE EnvSnapProofs -----------------------------
(***************************************************************************)
(* What is proved of EnvSnap for any specs, right or wrong: types, that a  *)
(* spec that is right is read as it was written, and so is the one made of *)
(* a pod's archive, that no server is asked before all specs are parsed,   *)
(* and that a command that is done has asked the server of each.           *)
(***************************************************************************)
EXTENDS EnvSnap, TLAPS

(* Where the parts of a spec are *)

LEMMA PositionIs ==
  ASSUME NEW layout, NEW field, NEW k \in DOMAIN layout, layout[k] = field,
         \A j \in DOMAIN layout : layout[j] = field => j = k
  PROVE  field \in Fields(layout) /\ Position(layout, field) = k
BY DEF Fields, Position

LEMMA Schemes == DOMAIN ServiceLayout = {"statefulset", "pod", "host", "local"}
BY DEF ServiceLayout

\* The two URLs and the path are the parts from the n-th on.
UrlsAt(layout, n) ==
  /\ "BackupURL" \in Fields(layout) /\ Position(layout, "BackupURL") = n
  /\ "RestoreURL" \in Fields(layout) /\ Position(layout, "RestoreURL") = n + 1
  /\ "RestorePath" \in Fields(layout) /\ Position(layout, "RestorePath") = n + 2

LEMMA StatefulsetParts ==
  LET layout == ServiceLayout["statefulset"] IN
  /\ Len(layout) = 5 /\ DOMAIN layout = 1..5 /\ layout[1] = "kube" /\ layout[2] = "port"
  /\ "kube" \in Fields(layout) /\ Position(layout, "kube") = 1
  /\ "port" \in Fields(layout) /\ Position(layout, "port") = 2
  /\ UrlsAt(layout, 3)
<1> DEFINE layout == ServiceLayout["statefulset"]
<1>1. layout = <<"kube", "port", "BackupURL", "RestoreURL", "RestorePath">>
  BY DEF ServiceLayout
<1> QED
  BY <1>1, PositionIs DEF UrlsAt, Fields

LEMMA PodParts ==
  LET layout == ServiceLayout["pod"] IN
  /\ Len(layout) = 6 /\ DOMAIN layout = 1..6 /\ layout[2] = "kube" /\ layout[3] = "port"
  /\ "Name" \in Fields(layout) /\ Position(layout, "Name") = 1
  /\ "kube" \in Fields(layout) /\ Position(layout, "kube") = 2
  /\ "port" \in Fields(layout) /\ Position(layout, "port") = 3
  /\ UrlsAt(layout, 4)
<1> DEFINE layout == ServiceLayout["pod"]
<1>1. layout = <<"Name", "kube", "port", "BackupURL", "RestoreURL", "RestorePath">>
  BY DEF ServiceLayout
<1> QED
  BY <1>1, PositionIs DEF UrlsAt, Fields

LEMMA HostParts ==
  LET layout == ServiceLayout["host"] IN
  /\ Len(layout) = 6 /\ DOMAIN layout = 1..6
  /\ "Name" \in Fields(layout) /\ Position(layout, "Name") = 1
  /\ "Host" \in Fields(layout) /\ Position(layout, "Host") = 2
  /\ "port" \in Fields(layout) /\ Position(layout, "port") = 3
  /\ UrlsAt(layout, 4) /\ "kube" \notin Fields(layout)
<1> DEFINE layout == ServiceLayout["host"]
<1>1. layout = <<"Name", "Host", "port", "BackupURL", "RestoreURL", "RestorePath">>
  BY DEF ServiceLayout
<1> QED
  BY <1>1, PositionIs DEF UrlsAt, Fields

LEMMA LocalParts ==
  LET layout == ServiceLayout["local"] IN
  /\ Len(layout) = 5 /\ DOMAIN layout = 1..5
  /\ "Name" \in Fields(layout) /\ Position(layout, "Name") = 1
  /\ "port" \in Fields(layout) /\ Position(layout, "port") = 2
  /\ UrlsAt(layout, 3) /\ "kube" \notin Fields(layout)
<1> DEFINE layout == ServiceLayout["local"]
<1>1. layout = <<"Name", "port", "BackupURL", "RestoreURL", "RestorePath">>
  BY DEF ServiceLayout
<1> QED
  BY <1>1, PositionIs DEF UrlsAt, Fields

\* The service that a spec is asked as, and the server it is found at.
AskedAs(s) == IF s.Scheme = "statefulset" THEN ServicePodGet(s) ELSE s

LEMMA ParsedServer ==
  ASSUME NEW spec, ServiceSpecOK(spec)
  PROVE  Server(AskedAs(ServiceParse(spec))) = Named(spec)
<1>1. spec[1][1] \in {"statefulset", "pod", "host", "local"}
  BY Schemes DEF ServiceSpecOK
<1>2. CASE spec[1][1] = "statefulset"
  <2>1. /\ ServiceParse(spec).Scheme = "statefulset"
        /\ ServiceParse(spec).KubeNamespace = spec[2][1]
        /\ ServiceParse(spec).KubeName = spec[2][2]
        /\ ServiceParse(spec).Port = spec[3]
    BY <1>2, StatefulsetParts DEF ServiceParse
  <2> DEFINE p == ServicePodGet(ServiceParse(spec))
  <2>2. /\ p.Scheme = "pod" /\ p.KubeNamespace = ServiceParse(spec).KubeNamespace
        /\ p.KubeName = ServiceParse(spec).KubeName \o "-0"
        /\ p.Port = ServiceParse(spec).Port
    BY DEF ServicePodGet, ServiceParse
  <2> HIDE DEF p
  <2>3. Server(p) = <<<<spec[2][1], spec[2][2] \o "-0">>, spec[3]>>
    BY <2>1, <2>2 DEF Server
  <2> QED
    BY <1>2, <2>1, <2>3 DEF AskedAs, Named, p
<1>3. CASE spec[1][1] = "pod"
  <2>1. /\ ServiceParse(spec).Scheme = "pod"
        /\ ServiceParse(spec).KubeNamespace = spec[3][1]
        /\ ServiceParse(spec).KubeName = spec[3][2]
        /\ ServiceParse(spec).Port = spec[4]
    BY <1>3, PodParts DEF ServiceParse
  <2> QED
    BY <1>3, <2>1 DEF AskedAs, Server, Named
<1>4. CASE spec[1][1] = "host"
  <2>1. /\ ServiceParse(spec).Scheme = "host"
        /\ ServiceParse(spec).Host = spec[3] /\ ServiceParse(spec).Port = spec[4]
    BY <1>4, HostParts DEF ServiceParse
  <2> QED
    BY <1>4, <2>1 DEF AskedAs, Server, Named
<1>5. CASE spec[1][1] = "local"
  <2>1. /\ ServiceParse(spec).Scheme = "local"
        /\ ServiceParse(spec).Host = <<"localhost">> /\ ServiceParse(spec).Port = spec[3]
    BY <1>5, LocalParts DEF ServiceParse
  <2> QED
    BY <1>5, <2>1 DEF AskedAs, Server, Named
<1> QED
  BY <1>1, <1>2, <1>3, <1>4, <1>5

-----------------------------------------------------------------------------
(* The invariant *)

\* The specs that were parsed are right, and the services are theirs.
Parsed ==
  /\ specs \in Seq(Seq(Seq(STRING)))
  /\ services \in Seq({ServiceParse(specs[i]) : i \in 1..Len(specs)})
  /\ Len(services) <= Len(specs)
  /\ \A i \in 1..Len(services) :
       ServiceSpecOK(specs[i]) /\ services[i] = ServiceParse(specs[i])

\* Servers are asked when all specs are parsed; who says ok was asked.
AskedAfter ==
  /\ DOMAIN doing = 1..Len(specs)
  /\ phase \in {"snap", "done"} \/ snapped # {} => Len(services) = Len(specs)
  /\ \A i \in 1..Len(specs) : doing[i] = "ok" => Server(Asked(i)) \in snapped
  /\ phase = "parse" => \A i \in 1..Len(specs) : doing[i] = "idle"
  /\ phase = "done" => \A i \in 1..Len(specs) : doing[i] = "ok"

SnapInv == Parsed /\ AskedAfter

LEMMA InvInit == Init => SnapInv
BY EnvSnapAssumption DEF Init, SnapInv, Parsed, AskedAfter

LEMMA ParseStep ==
  ASSUME SnapInv, Parse
  PROVE  SnapInv'
<1>1. CASE ServiceSpecOK(specs[Len(services) + 1])
  <2>1. /\ services' = Append(services, ServiceParse(specs[Len(services) + 1]))
        /\ Len(services) + 1 \in 1..Len(specs)
        /\ UNCHANGED <<phase, specs, doing, snapped>> /\ phase = "parse"
    BY <1>1 DEF Parse, SnapInv, Parsed
  <2>2. /\ services' \in Seq({ServiceParse(specs[i]) : i \in 1..Len(specs)})
        /\ Len(services') = Len(services) + 1 /\ Len(services) \in Nat
    BY <2>1 DEF SnapInv, Parsed
  <2>3. \A i \in 1..Len(services') :
          services'[i] = IF i = Len(services) + 1 THEN ServiceParse(specs[i]) ELSE services[i]
    BY <2>1, <2>2 DEF SnapInv, Parsed
  <2>4. Parsed'
    BY <1>1, <2>1, <2>2, <2>3 DEF SnapInv, Parsed
  <2>5. snapped = {}
    BY <2>1, <2>2 DEF SnapInv, AskedAfter
  <2>6. AskedAfter'
    BY <2>1, <2>2, <2>5 DEF SnapInv, AskedAfter
  <2> QED
    BY <2>4, <2>6 DEF SnapInv
<1>2. CASE ~ServiceSpecOK(specs[Len(services) + 1])
  BY <1>2 DEF Parse, BadSpec, SnapInv, Parsed, AskedAfter, Asked
<1> QED
  BY <1>1, <1>2

LEMMA CallerStep ==
  ASSUME SnapInv, Snapshots \/ Wait \/ Interrupt
  PROVE  SnapInv'
<1>1. CASE Snapshots
  BY <1>1 DEF Snapshots, SnapInv, Parsed, AskedAfter, Asked
<1>2. CASE Wait
  BY <1>2 DEF Wait, AllReturned, SnapInv, Parsed, AskedAfter, Asked
<1>3. CASE Interrupt
  BY <1>3 DEF Interrupt, SnapInv, Parsed, AskedAfter, Asked
<1> QED
  BY <1>1, <1>2, <1>3

LEMMA SnapStep ==
  ASSUME SnapInv, phase = "snap", NEW i \in DOMAIN specs,
         Snap(i) \/ ForwardHangs(i) \/ ForwardBreaks(i)
  PROVE  SnapInv'
<1>1. UNCHANGED <<specs, services>> /\ i \in 1..Len(specs) /\ Len(services) = Len(specs)
  BY DEF Snap, Begin, ForwardFails, ForwardReady, Post, ForwardHangs, ForwardBreaks, SnapInv,
         Parsed, AskedAfter
<1>2. Parsed' /\ \A k \in 1..Len(specs) : Asked(k)' = Asked(k)
  BY <1>1 DEF SnapInv, Parsed, Asked
<1>3. CASE Begin(i)
  BY <1>1, <1>2, <1>3 DEF Begin, SnapInv, AskedAfter
<1>4. CASE ForwardFails(i)
  BY <1>1, <1>2, <1>4 DEF ForwardFails, SnapInv, AskedAfter
<1>5. CASE ForwardReady(i)
  BY <1>1, <1>2, <1>5 DEF ForwardReady, SnapInv, AskedAfter
<1>6. CASE Post(i)
  BY <1>1, <1>2, <1>6 DEF Post, SnapInv, AskedAfter
<1>7. CASE ForwardHangs(i) \/ ForwardBreaks(i)
  BY <1>1, <1>2, <1>7 DEF ForwardHangs, ForwardBreaks, SnapInv, AskedAfter
<1> QED
  BY <1>3, <1>4, <1>5, <1>6, <1>7 DEF Snap

LEMMA InvStep == SnapInv /\ [Next]_vars => SnapInv'
<1> SUFFICES ASSUME SnapInv, [Next]_vars PROVE SnapInv'
  OBVIOUS
<1>1. CASE UNCHANGED vars
  BY <1>1 DEF vars, SnapInv, Parsed, AskedAfter, Asked
<1> QED
  BY <1>1, ParseStep, CallerStep, SnapStep DEF Next, Caller

LEMMA Invariant == Spec => []SnapInv
BY InvInit, InvStep, PTL DEF Spec

-----------------------------------------------------------------------------
(* The theorems *)

\* As long as one of any specs is not right no server is asked for anything.
THEOREM NoneIsAskedUnparsed == Spec => []NoneAskedUnparsed
<1>1. SnapInv => NoneAskedUnparsed
  <2> SUFFICES ASSUME SnapInv, snapped # {}, NEW i \in DOMAIN specs
               PROVE  ServiceSpecOK(specs[i])
    BY DEF NoneAskedUnparsed
  <2>1. i \in 1..Len(services)
    BY DEF SnapInv, Parsed, AskedAfter
  <2> QED
    BY <2>1 DEF SnapInv, Parsed
<1> QED
  BY <1>1, Invariant, PTL

\* A command that is done has asked the server of each spec, whatever broke.
THEOREM DoneIsSnapped == Spec => []DoneMeansSnapped
<1>1. SnapInv => DoneMeansSnapped
  <2> SUFFICES ASSUME SnapInv, phase = "done", NEW i \in DOMAIN specs
               PROVE  Named(specs[i]) \in snapped
    BY DEF DoneMeansSnapped
  <2>1. /\ i \in 1..Len(services) /\ doing[i] = "ok"
        /\ ServiceSpecOK(specs[i]) /\ services[i] = ServiceParse(specs[i])
    BY DEF SnapInv, Parsed, AskedAfter
  <2>2. Server(Asked(i)) = Named(specs[i])
    BY <2>1, ParsedServer DEF Asked, AskedAs
  <2> QED
    BY <2>1, <2>2 DEF SnapInv, AskedAfter
<1> QED
  BY <1>1, Invariant, PTL
-----------------------------------------------------------------------------
(* TypeOK *)

TypeInv ==
  /\ phase \in {"parse", "snap", "done", "fatal", "dead"}
  /\ doing \in [1..Len(specs) -> {"idle", "begin", "forward", "hung", "post", "ok", "err"}]
  /\ forward \in [1..Len(specs) -> {"none", "up", "stopped"}]
  /\ \A i \in 1..Len(specs) : doing[i] # "idle" => Len(services) = Len(specs)
  /\ interrupted \in BOOLEAN

LEMMA TypeInit == Init => TypeInv
<1> SUFFICES ASSUME Init PROVE TypeInv
  OBVIOUS
<1>1. DOMAIN specs = 1..Len(specs) /\ phase = "parse" /\ interrupted = FALSE
  BY EnvSnapAssumption DEF Init
<1>2. doing = [i \in 1..Len(specs) |-> "idle"] /\ forward = [i \in 1..Len(specs) |-> "none"]
  BY <1>1 DEF Init
<1> QED
  BY <1>1, <1>2 DEF TypeInv

LEMMA TypeStep ==
  ASSUME SnapInv, TypeInv, [Next]_vars
  PROVE  TypeInv'
<1>1. DOMAIN specs = 1..Len(specs)
  BY DEF SnapInv, Parsed
<1>2. CASE Parse
  BY <1>1, <1>2 DEF Parse, BadSpec, TypeInv, SnapInv, AskedAfter
<1>3. CASE Snapshots \/ Wait
  BY <1>1, <1>3 DEF Snapshots, Wait, TypeInv
<1>4. CASE Interrupt
  BY <1>1, <1>4 DEF Interrupt, TypeInv
<1>5. ASSUME NEW i \in DOMAIN specs, phase = "snap",
             Snap(i) \/ ForwardHangs(i) \/ ForwardBreaks(i)
      PROVE  TypeInv'
  <2>1. Len(services) = Len(specs) /\ UNCHANGED <<services, specs, interrupted>>
    BY <1>5 DEF SnapInv, AskedAfter, Snap, Begin, ForwardFails, ForwardReady, Post,
                ForwardHangs, ForwardBreaks
  <2>2. CASE Begin(i) \/ ForwardFails(i) \/ Post(i)
    BY <1>1, <2>1, <2>2 DEF Begin, ForwardFails, Post, TypeInv
  <2>3. CASE ForwardReady(i) \/ ForwardHangs(i) \/ ForwardBreaks(i)
    BY <1>1, <2>1, <2>3 DEF ForwardReady, ForwardHangs, ForwardBreaks, TypeInv
  <2> QED
    BY <1>5, <2>2, <2>3 DEF Snap
<1>6. CASE UNCHANGED vars
  BY <1>6 DEF vars, TypeInv
<1> QED
  BY <1>2, <1>3, <1>4, <1>5, <1>6 DEF Next, Caller

\* A goroutine that has begun finds all services parsed.
THEOREM TypeCorrect == Spec => []TypeOK
<1>1. SnapInv /\ TypeInv => TypeOK
  <2> SUFFICES ASSUME SnapInv, TypeInv PROVE TypeOK
    OBVIOUS
  <2>1. /\ specs \in Seq(Seq(Seq(STRING))) /\ Len(services) <= Len(specs)
        /\ DOMAIN specs = 1..Len(specs)
    BY DEF SnapInv, Parsed
  <2> QED
    BY <2>1 DEF TypeInv, TypeOK
<1>2. TypeInv /\ SnapInv /\ [Next]_vars => TypeInv'
  BY TypeStep
<1> QED
  BY <1>1, <1>2, TypeInit, Invariant, PTL DEF Spec

-----------------------------------------------------------------------------
(* What is parsed is what is written *)

LEMMA SameSequence ==
  ASSUME NEW S, NEW s \in Seq(S), NEW t \in Seq(S), Len(s) = Len(t),
         \A i \in 1..Len(s) : s[i] = t[i]
  PROVE  s = t
OBVIOUS

\* Sequences put together, and taken apart.
LEMMA JoinTwo ==
  ASSUME NEW S, NEW a \in S, NEW b \in S
  PROVE  <<a>> \o <<b>> = <<a, b>>
<1>1. <<a>> \in Seq(S) /\ <<b>> \in Seq(S) /\ <<a, b>> \in Seq(S)
  OBVIOUS
<1>2. Len(<<a>> \o <<b>>) = 2 /\ <<a>> \o <<b>> \in Seq(S)
  BY <1>1
<1>3. \A i \in 1..2 : (<<a>> \o <<b>>)[i] = <<a, b>>[i]
  BY <1>1, <1>2
<1> QED
  BY <1>1, <1>2, <1>3, SameSequence

LEMMA JoinThree ==
  ASSUME NEW S, NEW a \in S, NEW b \in S, NEW c \in S
  PROVE  <<a>> \o <<b, c>> = <<a, b, c>> /\ <<a, b>> \o <<c>> = <<a, b, c>>
<1>1. /\ <<a>> \in Seq(S) /\ <<b, c>> \in Seq(S) /\ <<a, b>> \in Seq(S) /\ <<c>> \in Seq(S)
      /\ <<a, b, c>> \in Seq(S)
  OBVIOUS
<1>2. /\ <<a>> \o <<b, c>> \in Seq(S) /\ Len(<<a>> \o <<b, c>>) = 3
      /\ <<a, b>> \o <<c>> \in Seq(S) /\ Len(<<a, b>> \o <<c>>) = 3
  BY <1>1
<1>3. \A i \in 1..3 : /\ (<<a>> \o <<b, c>>)[i] = <<a, b, c>>[i]
                      /\ (<<a, b>> \o <<c>>)[i] = <<a, b, c>>[i]
  BY <1>1, <1>2
<1> QED
  BY <1>1, <1>2, <1>3, SameSequence

LEMMA JoinSix ==
  ASSUME NEW S, NEW a \in S, NEW b \in S, NEW c \in S, NEW d \in S, NEW e \in S, NEW f \in S
  PROVE  <<a>> \o <<b>> \o <<c, d, e, f>> = <<a, b, c, d, e, f>>
<1>1. <<a, b>> \in Seq(S) /\ <<c, d, e, f>> \in Seq(S) /\ <<a, b, c, d, e, f>> \in Seq(S)
  OBVIOUS
<1>2. Len(<<a, b>> \o <<c, d, e, f>>) = 6 /\ <<a, b>> \o <<c, d, e, f>> \in Seq(S)
  BY <1>1
<1>3. \A i \in 1..6 : (<<a, b>> \o <<c, d, e, f>>)[i] = <<a, b, c, d, e, f>>[i]
  BY <1>1, <1>2
<1>4. <<a, b>> \o <<c, d, e, f>> = <<a, b, c, d, e, f>>
  BY <1>1, <1>2, <1>3, SameSequence
<1> QED
  BY <1>4, JoinTwo

LEMMA JoinSeven ==
  ASSUME NEW S, NEW a \in S, NEW b \in S, NEW c \in S, NEW d \in S, NEW e \in S, NEW f \in S,
         NEW g \in S
  PROVE  <<a>> \o <<b, c>> \o <<d, e, f, g>> = <<a, b, c, d, e, f, g>>
<1>1. <<a, b, c>> \in Seq(S) /\ <<d, e, f, g>> \in Seq(S) /\ <<a, b, c, d, e, f, g>> \in Seq(S)
  OBVIOUS
<1>2. Len(<<a, b, c>> \o <<d, e, f, g>>) = 7 /\ <<a, b, c>> \o <<d, e, f, g>> \in Seq(S)
  BY <1>1
<1>3. \A i \in 1..7 : (<<a, b, c>> \o <<d, e, f, g>>)[i] = <<a, b, c, d, e, f, g>>[i]
  BY <1>1, <1>2
<1>4. <<a, b, c>> \o <<d, e, f, g>> = <<a, b, c, d, e, f, g>>
  BY <1>1, <1>2, <1>3, SameSequence
<1> QED
  BY <1>4, JoinThree

LEMMA SixParts ==
  ASSUME NEW S, NEW spec \in Seq(S), Len(spec) = 6
  PROVE  << spec[1] >> \o <<spec[2]>> \o <<spec[3], spec[4], spec[5], spec[6]>> = spec
<1>1. PICK a \in S, b \in S, c \in S, d \in S, e \in S, f \in S :
        /\ spec[1] = a /\ spec[2] = b /\ spec[3] = c
        /\ spec[4] = d /\ spec[5] = e /\ spec[6] = f
  OBVIOUS
<1>2. spec = <<a, b, c, d, e, f>>
  BY <1>1
<1>3. <<a>> \o <<b>> \o <<c, d, e, f>> = <<a, b, c, d, e, f>>
  BY JoinSix
<1> QED
  BY <1>1, <1>2, <1>3

LEMMA PartsIn ==
  ASSUME NEW S, NEW spec \in Seq(S)
  PROVE  \A i \in 1..Len(spec) : spec[i] \in S
OBVIOUS

LEMMA SevenParts ==
  ASSUME NEW S, NEW spec \in Seq(S), Len(spec) = 7
  PROVE  << spec[1] >> \o <<spec[2], spec[3]>> \o <<spec[4], spec[5], spec[6], spec[7]>> = spec
<1>1. \A i \in 1..7 : spec[i] \in S
  BY PartsIn
<1>2. PICK a \in S, b \in S, c \in S :
        spec[1] = a /\ spec[2] = b /\ spec[3] = c
  BY <1>1
<1>3. PICK d \in S, e \in S, f \in S, g \in S :
        spec[4] = d /\ spec[5] = e /\ spec[6] = f /\ spec[7] = g
  BY <1>1
<1>4. spec = <<a, b, c, d, e, f, g>>
  BY <1>2, <1>3
<1>5. <<a>> \o <<b, c>> \o <<d, e, f, g>> = <<a, b, c, d, e, f, g>>
  BY JoinSeven
<1> QED
  BY <1>2, <1>3, <1>4, <1>5

\* The part of the names in Kubernetes, with its container or without.
LEMMA KubeIs ==
  ASSUME NEW part \in Seq(STRING), Complete(part), Len(part) >= 2,
         NEW container, container = IF Len(part) = 3 THEN part[3] ELSE Blank
  PROVE  <<part[1], part[2]>> \o (IF container = Blank THEN <<>> ELSE <<container>>) = part
<1>1. CASE Len(part) = 3
  <2>1. part = <<part[1], part[2], part[3]>> /\ container = part[3] /\ container # Blank
    BY <1>1 DEF Complete
  <2>2. part[1] \in STRING /\ part[2] \in STRING /\ part[3] \in STRING
    BY <1>1
  <2>3. <<part[1], part[2]>> \o <<part[3]>> = <<part[1], part[2], part[3]>>
    BY <2>2, JoinThree
  <2> QED
    BY <2>1, <2>3
<1>2. CASE Len(part) = 2
  <2>1. part = <<part[1], part[2]>> /\ container = Blank
    BY <1>2
  <2>2. <<part[1], part[2]>> \o <<>> = <<part[1], part[2]>>
    OBVIOUS
  <2> QED
    BY <2>1, <2>2
<1>3. PICK n \in Nat : n = Len(part)
  OBVIOUS
<1>4. Len(part) = 2 \/ Len(part) = 3
  <2>1. n >= 2 /\ n <= 3
    BY <1>3 DEF Complete
  <2>2. n = 2 \/ n = 3
    BY <2>1
  <2> QED
    BY <1>3, <2>2
<1> QED
  BY <1>1, <1>2, <1>4

\* What each scheme's spec is parsed to.
Urls(s) == <<s.Port, s.BackupURL, s.RestoreURL, s.RestorePath>>

KubeOf(s, part) ==
  /\ s.KubeNamespace = part[1] /\ s.KubeName = part[2]
  /\ s.KubeContainer = IF Len(part) = 3 THEN part[3] ELSE Blank

LEMMA ParsedScheme ==
  ASSUME NEW spec \in Seq(Seq(STRING)), ServiceSpecOK(spec)
  PROVE  /\ ServiceParse(spec).Scheme = spec[1][1] /\ spec[1] = <<spec[1][1]>>
         /\ spec[1][1] \in {"statefulset", "pod", "host", "local"}
         /\ Len(spec) = Len(ServiceLayout[spec[1][1]]) + 1 /\ DOMAIN spec = 1..Len(spec)
         /\ \A i \in DOMAIN spec : spec[i] \in Seq(STRING)
<1>1. /\ Len(spec[1]) = 1 /\ spec[1][1] \in DOMAIN ServiceLayout
      /\ Len(spec) = Len(ServiceLayout[spec[1][1]]) + 1
  BY DEF ServiceSpecOK
<1>2. ServiceParse(spec).Scheme = spec[1][1]
  BY DEF ServiceParse
<1>3. Len(ServiceLayout[spec[1][1]]) \in Nat
  BY <1>1, Schemes, StatefulsetParts, PodParts, HostParts, LocalParts
<1>4. DOMAIN spec = 1..Len(spec) /\ \A i \in DOMAIN spec : spec[i] \in Seq(STRING)
  OBVIOUS
<1>5. spec[1] \in Seq(STRING)
  BY <1>1, <1>3, <1>4
<1>6. spec[1] = <<spec[1][1]>>
  BY <1>1, <1>5
<1> QED
  BY <1>1, <1>2, <1>4, <1>6, Schemes

LEMMA StatefulsetParsed ==
  ASSUME NEW spec \in Seq(Seq(STRING)), ServiceSpecOK(spec), spec[1][1] = "statefulset"
  PROVE  /\ Len(spec) = 6 /\ Len(spec[2]) >= 2
         /\ KubeOf(ServiceParse(spec), spec[2])
         /\ Urls(ServiceParse(spec)) = <<spec[3], spec[4], spec[5], spec[6]>>
<1> DEFINE s == ServiceParse(spec)
<1>1. Len(spec) = 6 /\ PartOK("kube", spec[2])
  BY StatefulsetParts DEF ServiceSpecOK
<1>2. KubeOf(s, spec[2])
  BY StatefulsetParts DEF ServiceParse, KubeOf
<1>3. s.Port = spec[3] /\ s.BackupURL = spec[4]
  BY StatefulsetParts DEF ServiceParse, UrlsAt
<1>4. s.RestoreURL = spec[5] /\ s.RestorePath = spec[6]
  BY StatefulsetParts DEF ServiceParse, UrlsAt
<1> QED
  BY <1>1, <1>2, <1>3, <1>4 DEF PartOK, Urls

LEMMA PodParsed ==
  ASSUME NEW spec \in Seq(Seq(STRING)), ServiceSpecOK(spec), spec[1][1] = "pod"
  PROVE  /\ Len(spec) = 7 /\ Len(spec[3]) >= 2 /\ ServiceParse(spec).Name = spec[2]
         /\ KubeOf(ServiceParse(spec), spec[3])
         /\ Urls(ServiceParse(spec)) = <<spec[4], spec[5], spec[6], spec[7]>>
<1> DEFINE s == ServiceParse(spec)
<1>1. Len(spec) = 7 /\ PartOK("kube", spec[3])
  BY PodParts DEF ServiceSpecOK
<1>2. KubeOf(s, spec[3])
  BY PodParts DEF ServiceParse, KubeOf
<1>3. s.Port = spec[4] /\ s.BackupURL = spec[5]
  BY PodParts DEF ServiceParse, UrlsAt
<1>4. s.RestoreURL = spec[6] /\ s.RestorePath = spec[7]
  BY PodParts DEF ServiceParse, UrlsAt
<1>5. s.Name = spec[2]
  BY PodParts DEF ServiceParse
<1> QED
  BY <1>1, <1>2, <1>3, <1>4, <1>5 DEF PartOK, Urls

LEMMA HostParsed ==
  ASSUME NEW spec \in Seq(Seq(STRING)), ServiceSpecOK(spec), spec[1][1] = "host"
  PROVE  /\ Len(spec) = 7 /\ ServiceParse(spec).Name = spec[2] /\ ServiceParse(spec).Host = spec[3]
         /\ Urls(ServiceParse(spec)) = <<spec[4], spec[5], spec[6], spec[7]>>
<1> DEFINE s == ServiceParse(spec)
<1>1. Len(spec) = 7
  BY HostParts DEF ServiceSpecOK
<1>2. s.Name = spec[2] /\ s.Host = spec[3]
  BY HostParts DEF ServiceParse
<1>3. s.Port = spec[4] /\ s.BackupURL = spec[5]
  BY HostParts DEF ServiceParse, UrlsAt
<1>4. s.RestoreURL = spec[6] /\ s.RestorePath = spec[7]
  BY HostParts DEF ServiceParse, UrlsAt
<1> QED
  BY <1>1, <1>2, <1>3, <1>4 DEF Urls

LEMMA LocalParsed ==
  ASSUME NEW spec \in Seq(Seq(STRING)), ServiceSpecOK(spec), spec[1][1] = "local"
  PROVE  /\ Len(spec) = 6 /\ ServiceParse(spec).Name = spec[2]
         /\ Urls(ServiceParse(spec)) = <<spec[3], spec[4], spec[5], spec[6]>>
<1> DEFINE s == ServiceParse(spec)
<1>1. Len(spec) = 6
  BY LocalParts DEF ServiceSpecOK
<1>2. s.Name = spec[2] /\ s.Port = spec[3] /\ s.BackupURL = spec[4]
  BY LocalParts DEF ServiceParse, UrlsAt
<1>3. s.RestoreURL = spec[5] /\ s.RestorePath = spec[6]
  BY LocalParts DEF ServiceParse, UrlsAt
<1> QED
  BY <1>1, <1>2, <1>3 DEF Urls

LEMMA WrittenBack ==
  ASSUME NEW spec \in Seq(Seq(STRING)), ServiceSpecOK(spec),
         \A part \in DOMAIN spec : Complete(spec[part])
  PROVE  ServiceSpec(ServiceParse(spec)) = spec
<1> DEFINE s == ServiceParse(spec)
           kube == <<s.KubeNamespace, s.KubeName>>
                     \o (IF s.KubeContainer = Blank THEN <<>> ELSE <<s.KubeContainer>>)
<1>1. /\ s.Scheme = spec[1][1] /\ <<s.Scheme>> = spec[1]
      /\ spec[1][1] \in {"statefulset", "pod", "host", "local"}
      /\ DOMAIN spec = 1..Len(spec) /\ \A i \in DOMAIN spec : spec[i] \in Seq(STRING)
  BY ParsedScheme
<1>2. ASSUME NEW i \in DOMAIN spec, Len(spec[i]) >= 2, KubeOf(s, spec[i]) PROVE kube = spec[i]
  BY <1>1, <1>2, KubeIs DEF KubeOf
<1>3. /\ Len(spec) = 6 =>
           << <<s.Scheme>> >> \o <<spec[2]>> \o <<spec[3], spec[4], spec[5], spec[6]>> = spec
      /\ Len(spec) = 7 =>
           << <<s.Scheme>> >> \o <<spec[2], spec[3]>>
             \o <<spec[4], spec[5], spec[6], spec[7]>> = spec
  BY <1>1, SixParts, SevenParts
<1> HIDE DEF s
<1>4. CASE spec[1][1] = "statefulset"
  <2>1. /\ Len(spec) = 6 /\ Urls(s) = <<spec[3], spec[4], spec[5], spec[6]>>
        /\ Len(spec[2]) >= 2 /\ KubeOf(s, spec[2])
    BY <1>4, StatefulsetParsed DEF s
  <2>2. kube = spec[2]
    BY <1>1, <1>2, <2>1
  <2>3. ServiceSpec(s) = << <<s.Scheme>> >> \o <<kube>> \o Urls(s)
    BY <1>1, <1>4 DEF ServiceSpec, Urls
  <2> QED
    BY <1>3, <2>1, <2>2, <2>3 DEF s
<1>5. CASE spec[1][1] = "pod"
  <2>1. Len(spec) = 7 /\ s.Name = spec[2] /\ Urls(s) = <<spec[4], spec[5], spec[6], spec[7]>>
    BY <1>5, PodParsed DEF s
  <2>2. Len(spec[3]) >= 2 /\ KubeOf(s, spec[3])
    BY <1>5, PodParsed DEF s
  <2>3. kube = spec[3]
    BY <1>1, <1>2, <2>1, <2>2
  <2>4. ServiceSpec(s) = << <<s.Scheme>> >> \o <<s.Name, kube>> \o Urls(s)
    BY <1>1, <1>5 DEF ServiceSpec, Urls
  <2> QED
    BY <1>3, <2>1, <2>3, <2>4 DEF s
<1>6. CASE spec[1][1] = "host"
  <2>1. /\ Len(spec) = 7 /\ s.Name = spec[2] /\ s.Host = spec[3]
        /\ Urls(s) = <<spec[4], spec[5], spec[6], spec[7]>>
    BY <1>6, HostParsed DEF s
  <2>2. ServiceSpec(s) = << <<s.Scheme>> >> \o <<s.Name, s.Host>> \o Urls(s)
    BY <1>1, <1>6 DEF ServiceSpec, Urls
  <2> QED
    BY <1>3, <2>1, <2>2 DEF s
<1>7. CASE spec[1][1] = "local"
  <2>1. /\ Len(spec) = 6 /\ s.Name = spec[2]
        /\ Urls(s) = <<spec[3], spec[4], spec[5], spec[6]>>
    BY <1>7, LocalParsed DEF s
  <2>2. ServiceSpec(s) = << <<s.Scheme>> >> \o <<s.Name>> \o Urls(s)
    BY <1>1, <1>7 DEF ServiceSpec, Urls
  <2> QED
    BY <1>3, <2>1, <2>2 DEF s
<1> QED
  BY <1>1, <1>4, <1>5, <1>6, <1>7

\* The service made of any spec that is right has all that the spec says, each
\* part in its place, or the spec has a part behind or instead of a container.
THEOREM SpecsAreParsed == Spec => []ParsedAsWritten
<1>1. SnapInv => ParsedAsWritten
  <2> SUFFICES ASSUME SnapInv, NEW i \in DOMAIN services,
                      \A part \in DOMAIN specs[i] : Complete(specs[i][part])
               PROVE  ServiceSpec(services[i]) = specs[i]
    BY DEF ParsedAsWritten
  <2>1. specs \in Seq(Seq(Seq(STRING))) /\ Len(services) <= Len(specs) /\ i \in 1..Len(services)
    BY DEF SnapInv, Parsed
  <2>2. ServiceSpecOK(specs[i]) /\ services[i] = ServiceParse(specs[i])
    BY <2>1 DEF SnapInv, Parsed
  <2>3. specs[i] \in Seq(Seq(STRING))
    BY <2>1
  <2> QED
    BY <2>2, <2>3, WrittenBack
<1> QED
  BY <1>1, Invariant, PTL

-----------------------------------------------------------------------------
(* The archives of pods *)

\* Of strings TLAPS knows nothing: that a name with an ordinal is not empty.
PodsHaveNames == \A name \in STRING, replica \in {"0", "1"} : name \o "-" \o replica # Blank

LEMMA ArchiveSchemes ==
  /\ DOMAIN ArchiveNames = {"statefulset", "pod", "host", "local"}
  /\ ArchiveNames["statefulset"] = <<"KubeNamespace", "KubeName">>
  /\ ArchiveNames["pod"] = <<"KubeNamespace", "ServiceName", "KubeName">>
BY DEF ArchiveNames

\* An archive spec of a statefulset that is right, and what it is read as.
LEMMA StatefulsetArchive ==
  ASSUME NEW spec, spec[1] = <<"statefulset">>, ArchiveParsing(spec) = "ok"
  PROVE  /\ Len(spec[2]) >= 2 /\ spec[3] # None
         /\ 1 \in DOMAIN spec[2] => spec[2][1] # Blank
         /\ 2 \in DOMAIN spec[2] => spec[2][2] # Blank
         /\ ArchiveParse(spec) =
              [Scheme |-> "statefulset", Host |-> Blank, KubeNamespace |-> spec[2][1],
               KubeName |-> spec[2][2], Path |-> spec[3], ServiceName |-> <<spec[2][2]>>]
<1> DEFINE names == ArchiveNames["statefulset"]
<1>1. /\ names = <<"KubeNamespace", "KubeName">> /\ DOMAIN names = 1..2
      /\ "Host" \notin Fields(names) /\ "ServiceName" \notin Fields(names)
      /\ "KubeNamespace" \in Fields(names) /\ Position(names, "KubeNamespace") = 1
      /\ "KubeName" \in Fields(names) /\ Position(names, "KubeName") = 2
  BY ArchiveSchemes, PositionIs DEF Fields
<1> QED
  BY <1>1, ArchiveSchemes DEF ArchiveParsing, ArchiveParse, Needed

\* The Spec that is made for a pod.
PodSpec(ns, service, pod, path) == << <<"pod">>, <<ns, service, pod>>, path>>

LEMMA PodArchive ==
  ASSUME NEW ns, NEW service, NEW pod, NEW path,
         ns # Blank, service # Blank, pod # Blank, path # None
  PROVE  LET spec == PodSpec(ns, service, pod, path) IN
         /\ ArchiveParsing(spec) = "ok"
         /\ ArchiveParse(spec) =
              [Scheme |-> "pod", Host |-> Blank, KubeNamespace |-> ns,
               KubeName |-> pod, Path |-> path, ServiceName |-> <<service>>]
<1> DEFINE names == ArchiveNames["pod"]
           spec == PodSpec(ns, service, pod, path)
<1>1. /\ names = <<"KubeNamespace", "ServiceName", "KubeName">> /\ DOMAIN names = 1..3
      /\ "Host" \notin Fields(names)
      /\ "KubeNamespace" \in Fields(names) /\ Position(names, "KubeNamespace") = 1
      /\ "ServiceName" \in Fields(names) /\ Position(names, "ServiceName") = 2
      /\ "KubeName" \in Fields(names) /\ Position(names, "KubeName") = 3
  BY ArchiveSchemes, PositionIs DEF Fields
<1>2. /\ spec[1] = <<"pod">> /\ spec[2] = <<ns, service, pod>> /\ spec[3] = path /\ Len(spec) = 3
  BY DEF PodSpec
<1> HIDE DEF spec
<1>3. ArchiveParsing(spec) = "ok"
  BY <1>1, <1>2, ArchiveSchemes DEF ArchiveParsing, Needed
<1>4. ArchiveParse(spec) = [Scheme |-> "pod", Host |-> Blank, KubeNamespace |-> ns,
                            KubeName |-> pod, Path |-> path, ServiceName |-> <<service>>]
  BY <1>1, <1>2 DEF ArchiveParse
<1> QED
  BY <1>3, <1>4 DEF spec

\* The Spec made for a pod of any statefulset's archive is read back as the
\* archive of that pod.
THEOREM PodSpecsAreReadBack == PodsHaveNames => (Spec => []PodArchiveParses)
<1> SUFFICES ASSUME PodsHaveNames PROVE Spec => []PodArchiveParses
  OBVIOUS
<1>1. SnapInv => PodArchiveParses
  <2> SUFFICES ASSUME SnapInv, NEW i \in DOMAIN specs, specs[i][1] = <<"statefulset">>,
                      ArchiveParsing(specs[i]) = "ok", NEW replica \in {"0", "1"}
               PROVE  LET pod == PodArchiveGet(ArchiveParse(specs[i]), replica)
                      IN ArchiveParsing(pod.Spec) = "ok" /\ ArchiveParse(pod.Spec) = pod.archive
    BY DEF PodArchiveParses
  <2> DEFINE spec == specs[i]
             a == ArchiveParse(spec)
             name == a.KubeName \o "-" \o replica
             path == [k \in DOMAIN a.Path |-> IF a.Path[k] = "<pod>" THEN name ELSE a.Path[k]]
             pod == PodArchiveGet(a, replica)
  <2>1. spec \in Seq(Seq(STRING)) /\ Len(spec) = 3
    BY DEF SnapInv, Parsed, ArchiveParsing
  <2>2. /\ spec[2] \in Seq(STRING) /\ Len(spec[2]) >= 2 /\ spec[3] \in Seq(STRING)
        /\ spec[2][1] # Blank /\ spec[2][2] # Blank /\ spec[2][2] \in STRING /\ spec[3] # None
        /\ a = [Scheme |-> "statefulset", Host |-> Blank, KubeNamespace |-> spec[2][1],
                KubeName |-> spec[2][2], Path |-> spec[3], ServiceName |-> <<spec[2][2]>>]
    BY <2>1, StatefulsetArchive
  <2> HIDE DEF a
  <2>3. /\ a.KubeName \in STRING /\ a.KubeNamespace # Blank
        /\ a.Path \in Seq(STRING) /\ a.Path # None
        /\ a.Host = Blank /\ a.ServiceName = <<spec[2][2]>> /\ spec[2][2] # Blank
    BY <2>2
  <2>4. name # Blank
    BY <2>3, Zenon DEF PodsHaveNames
  <2> HIDE DEF name
  <2>5. path # None
    <3> SUFFICES ASSUME path = None PROVE FALSE
      OBVIOUS
    <3>1. DOMAIN a.Path = {1} /\ path[1] = Blank
      BY <2>3 DEF None
    <3>2. a.Path[1] = Blank
      BY <2>4, <3>1
    <3> QED
      BY <2>3, <3>1, <3>2 DEF None
  <2> HIDE DEF path
  <2>6. /\ pod.Spec = << <<"pod">>, <<a.KubeNamespace, a.ServiceName[1], name>>, path>>
        /\ pod.archive = [a EXCEPT !.Scheme = "pod", !.KubeName = name, !.Path = path]
    BY DEF PodArchiveGet, name, path
  <2>7. pod.archive = [Scheme |-> "pod", Host |-> Blank, KubeNamespace |-> a.KubeNamespace,
                       KubeName |-> name, Path |-> path, ServiceName |-> a.ServiceName]
    BY <2>2, <2>6
  <2> HIDE DEF pod
  <2> DEFINE written == PodSpec(a.KubeNamespace, spec[2][2], name, path)
  <2>8. /\ ArchiveParsing(written) = "ok"
        /\ ArchiveParse(written) =
             [Scheme |-> "pod", Host |-> Blank, KubeNamespace |-> a.KubeNamespace,
              KubeName |-> name, Path |-> path, ServiceName |-> <<spec[2][2]>>]
    BY <2>3, <2>4, <2>5, PodArchive
  <2>9. pod.Spec = written
    BY <2>3, <2>6 DEF PodSpec
  <2> HIDE DEF written
  <2>10. ArchiveParsing(pod.Spec) = "ok" /\ ArchiveParse(pod.Spec) = pod.archive
    BY <2>3, <2>7, <2>8, <2>9
  <2> QED
    BY <2>10 DEF pod, a
<1> QED
  BY <1>1, Invariant, PTL
=============================================================================
