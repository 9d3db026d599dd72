---------------------------- MODULE MCActivation ----------------------------
(* Instances of Activation for TLC. *)
EXTENDS Activation, TLC

\* One license allows one installation, the other one two.
MCLimit == [l \in Licenses |-> l]

\* Installation ids are interchangeable, and so are the clients.
Symmetry == Permutations(Installs) \cup Permutations(Clients)
=============================================================================
