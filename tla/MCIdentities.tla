---------------------------- MODULE MCIdentities -----------------------------
(* Instances of Identities for TLC; runs and environments are symmetric. *)
EXTENDS Identities, TLC
Symmetry == Permutations(Runs) \cup Permutations(Envs)
=============================================================================
