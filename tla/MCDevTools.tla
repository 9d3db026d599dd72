----------------------------- MODULE MCDevTools -----------------------------
(* Instances of DevTools for TLC. *)
EXTENDS DevTools
=============================================================================
