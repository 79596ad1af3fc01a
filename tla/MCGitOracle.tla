------------------------------ MODULE MCGitOracle ------------------------------
(***************************************************************************)
(* Instances of GitOracle for TLC.  Two contents are interchangeable.      *)
(***************************************************************************)
EXTENDS GitOracle

Symmetry == Permutations(Blobs)
=============================================================================
