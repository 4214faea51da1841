----------------------------- MODULE MCEnvRestore -----------------------------
(* Instances of EnvRestore that the commands run on.                        *)
EXTENDS EnvRestore

\* prodBackupToDevService: services of one local process on one port, files
\* in local archives.
DevService    == {"dockie", "dubbie", "keevie"}
DevScheme     == [s \in DevService |-> "local"]
DevRestoreURL == [s \in DevService |->
                    IF s = "dockie" THEN "/v1/Restore/Dockie" ELSE "/v1/Restore/Other"]
DevServed     == {"/v1/Restore/Dockie", "/v1/Restore/Other"}
DevArchiveAt  == [a \in DevService |-> "local"]

\* Two local processes on two ports.
TwoServer   == {"multi", "extra"}
TwoEndpoint == [s \in DevService |-> IF s = "keevie" THEN "localhost:10002" ELSE "localhost:10001"]
TwoServers  == [s \in DevService |-> IF s = "keevie" THEN {"extra"} ELSE {"multi"}]

\* prodSnapToProdService: statefulsets whose specs set no Host, all on port
\* 10000, files in archives of their pods.
ProdService    == {"dockie", "tickie"}
ProdServer     == {"dockie-0", "dockie-1", "tickie-0"}
ProdScheme     == [s \in ProdService |-> "statefulset"]
ProdEndpoint   == [s \in ProdService |-> ":10000"]
ProdServers    == [dockie |-> {"dockie-0", "dockie-1"}, tickie |-> {"tickie-0"}]
ProdRestoreURL == [s \in ProdService |-> "/v1/Restore"]
ProdServed     == {"/v1/Restore"}
ProdArchiveAt  == [a \in ProdService |-> a \o "-0"]

\* One destination of each other scheme, each on a port of its own, a local one
\* whose archive is on a pod, and an archive without a destination.
MixService    == {"dockie", "podded", "hosted", "remote"}
MixArchive    == MixService \cup {"stray"}
MixServer     == {"dockie-0", "dockie-1", "podded-0", "hosted", "multi"}
MixScheme     == [dockie |-> "statefulset", podded |-> "pod", hosted |-> "host",
                  remote |-> "local"]
MixEndpoint   == [dockie |-> ":10000", podded |-> ":10002", hosted |-> "h:10000",
                  remote |-> "localhost:10001"]
MixServers    == [dockie |-> {"dockie-0", "dockie-1"}, podded |-> {"podded-0"},
                  hosted |-> {"hosted"}, remote |-> {"multi"}]
MixRestoreURL == [s \in MixService |-> "/v1/Restore"]
MixArchiveAt  == [dockie |-> "dockie-0", podded |-> "podded-0", hosted |-> "local",
                  remote |-> "remote-0", stray |-> "local"]
=============================================================================
