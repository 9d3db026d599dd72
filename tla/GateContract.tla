---------------------------- MODULE GateContract ----------------------------
(***************************************************************************)
(* What routing/provider/gate.go promises its callers, with no handler,    *)
(* lock or snapshot in sight: a gate is OPEN, CLOSING (somebody is inside  *)
(* Close or Shutdown) or CLOSED; it takes on a tunnel only while OPEN and  *)
(* becomes CLOSED only when no tunnel is left.                             *)
(***************************************************************************)
CONSTANT Conns   \* the client connections that may ever arrive

VARIABLES
  mode,   \* "OPEN", "CLOSING" or "CLOSED"
  live    \* connections the browser can move data on

vars == <<mode, live>>

Init ==
  /\ mode = "CLOSED"
  /\ live = {}

\* A CONNECT request is let through.
Admit(c) ==
  /\ mode = "OPEN"
  /\ c \notin live
  /\ live' = live \cup {c}
  /\ UNCHANGED mode

\* A tunnel ends, for whatever reason, in whatever mode.
Drop(c) ==
  /\ c \in live
  /\ live' = live \ {c}
  /\ UNCHANGED mode

BeginClose ==
  /\ mode' = "CLOSING"
  /\ UNCHANGED live

EndClose ==
  /\ mode = "CLOSING"
  /\ live = {}
  /\ mode' = "CLOSED"
  /\ UNCHANGED live

Reopen ==
  /\ mode' = "OPEN"
  /\ UNCHANGED live

Next ==
  \/ \E c \in Conns : Admit(c) \/ Drop(c)
  \/ BeginClose
  \/ EndClose
  \/ Reopen

Spec == Init /\ [][Next]_vars
=============================================================================
