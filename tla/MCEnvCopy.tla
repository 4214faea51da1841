------------------------------ MODULE MCEnvCopy ------------------------------
(* An instance of EnvCopy: a statefulset of two pods, whose lists hold enough *)
(* files for an append in place, copied to a local archive, and a local one,  *)
(* copied to a pod; an earlier run left nothing or a part of every file.      *)
EXTENDS EnvCopy, TLC
CONSTANTS dockie, multi, p0, p1
MCOf == (p0 :> dockie) @@ (p1 :> dockie) @@ (multi :> multi)
MCNames == (p0 :> <<1, 2, NoDate, 3, 4, 5>>) @@ (p1 :> <<NoDate, 6>>) @@ (multi :> <<3>>)
MCLeftovers == {[f \in File |-> n] : n \in {0, Size + 1}}
MCDst == (dockie :> "local") @@ (multi :> "pod")
=============================================================================
