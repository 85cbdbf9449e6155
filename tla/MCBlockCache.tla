---------------------------- MODULE MCBlockCache ----------------------------
(***************************************************************************)
(* BlockCache for TLC: the blocks other than block 0 are interchangeable.  *)
(***************************************************************************)
EXTENDS BlockCache, TLC

Symmetry == Permutations(Blocks \ {Zero})
=============================================================================
