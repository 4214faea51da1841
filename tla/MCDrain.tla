------------------------------- MODULE MCDrain -------------------------------
(* Instances of Drain: the pods are interchangeable.                         *)
EXTENDS Drain, TLC
Symmetry == Permutations(Pod)
=============================================================================
