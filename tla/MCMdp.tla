------------------------------- MODULE MCMdp -------------------------------
(* Instances of Mdp for TLC. *)
EXTENDS Mdp

Symmetry == Permutations(Workers)
=============================================================================
