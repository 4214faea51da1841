------------------------------ MODULE MCEnvSnap ------------------------------
(* Instances of EnvSnap: a spec of each scheme, as cmd/prod.go and dev.go    *)
(* write them, with one part changed, taken out or added, and a second spec. *)
EXTENDS EnvSnap

MCPorts == {<<"10000">>, <<"10001">>}

Urls == <<<<"10000">>, <<"/v1/Backup">>, <<"/v1/Restore">>, <<"/var/data">>>>

Right == {
  << <<"statefulset">>, <<"fg", "dockie">> >> \o Urls,
  << <<"pod">>, <<"ledgie">>, <<"fg", "ledgie-0">> >> \o Urls,
  << <<"host">>, <<"tickie">>, <<"box">> >> \o Urls,
  << <<"local">>, <<"multi">> >> \o Urls}

Parts == {<<"">>, <<"x">>, <<"10001">>, <<"fg", "">>, <<"", "dockie">>, <<"fg", "dockie">>,
          <<"fg", "dockie", "main">>, <<"fg", "dockie", "">>, <<"fg", "dockie", "main", "x">>,
          <<"nfs">>}

Changed == UNION {{[spec EXCEPT ![i] = part] : i \in DOMAIN spec, part \in Parts} : spec \in Right}

Cut == {SubSeq(spec, 1, Len(spec) - 1) : spec \in Right}

Longer == {Append(spec, <<"x">>) : spec \in Right}

Second == CHOOSE spec \in Right : spec[1] = <<"statefulset">>

\* Archive specs, right and wrong: as services they are refused.
Archives ==
  {<<<<scheme>>, names, path>> :
     scheme \in {"statefulset", "pod", "host", "local", "nfs"},
     names \in Parts,
     path \in {<<"">>, <<"/var/data">>, <<"/var/data", "<pod>", "server">>}}

MCCommands == UNION {{<<spec, Second>>, <<Second, spec>>} :
                       spec \in Right \cup Changed \cup Cut \cup Longer \cup Archives}
=============================================================================
