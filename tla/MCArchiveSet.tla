----------------------------- MODULE MCArchiveSet -----------------------------
(* An instance of ArchiveSet: a statefulset's archive with files of two pods,  *)
(* two of the same time, and two others; the latest files of each are a ms     *)
(* before the first seek, and one is a ms before a file of another archive.    *)
EXTENDS ArchiveSet

MCArchive == {"dockie", "ledgie", "tickie"}
MCNow     == 13
MCSecond  == 3

Taken == [dockie |-> {<<"dockie-0", 6>>, <<"dockie-0", 12>>,
                      <<"dockie-1", 6>>, <<"dockie-1", 9>>},
          ledgie |-> {<<"ledgie", 3>>, <<"ledgie", 6>>, <<"ledgie", 9>>, <<"ledgie", 12>>},
          tickie |-> {<<"tickie", 3>>, <<"tickie", 8>>, <<"tickie", 12>>}]

MCFile == UNION {Taken[a] : a \in MCArchive}
MCOf   == [f \in MCFile |-> CHOOSE a \in MCArchive : f \in Taken[a]]
MCTime == [f \in MCFile |-> f[2]]
=============================================================================
