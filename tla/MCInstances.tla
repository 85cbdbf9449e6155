----------------------------- MODULE MCInstances -----------------------------
(* Any two addresses are as good as each other. *)
EXTENDS Instances, TLC

IhandlesSymmetry == Permutations(Ihandles)
=============================================================================
