--------------------------- MODULE MCProvisioners ---------------------------
(* Instances of Provisioners for TLC; processes and accounts are           *)
(* interchangeable.  Two of the three relays are in the same country.        *)
EXTENDS Provisioners, TLC

CONSTANTS r1, r2, r3

MCCountry == (r1 :> 1) @@ (r2 :> 1) @@ (r3 :> 2)

Symmetry == Permutations(Procs) \cup Permutations(Accounts)
=============================================================================
