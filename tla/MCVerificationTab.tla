------------------------- MODULE MCVerificationTab -------------------------
(* Instances of VerificationTab for TLC. *)
EXTENDS VerificationTab, TLC

\* The calls are alike.
Symmetry == Permutations(Calls)
=============================================================================
