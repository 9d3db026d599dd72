----------------------------- MODULE MCControl -----------------------------
(* Instances of ControlChannel for TLC. *)
EXTENDS ControlChannel
=============================================================================
