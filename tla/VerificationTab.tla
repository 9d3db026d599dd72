-------------------------- MODULE VerificationTab --------------------------
(***************************************************************************)
(* The verification tab of an identity, from its two sides: one Navigate   *)
(* after another in it (Navigation), and the diagnostics.run calls that    *)
(* open it, navigate in it and close it (Diagnostics).  Diagnostics takes  *)
(* of a navigation that it succeeds, fails or is blocked; Navigation is    *)
(* about when that is true.  The two share no state, so a behaviour is one *)
(* of the side that is looked at.                                          *)
(***************************************************************************)
EXTENDS Naturals

CONSTANTS
  Sides,                                      \* the sides that are explored
  MaxDocs, MaxAttempts,                       \* Navigation
  Calls, M, MaxEvents, Busy, MaxDials, NoCall \* Diagnostics

ASSUME VerificationTabAssumption ==
  /\ Sides \subseteq {"navigation", "diagnostics"}
  /\ MaxDocs \in Nat /\ MaxAttempts \in Nat \ {0}
  /\ M \in Nat \ {0} /\ MaxEvents \in Nat \ {0}
  /\ Busy \subseteq 1 .. M /\ MaxDials \in Nat
  /\ NoCall \notin Calls

VARIABLES
  side,
  \* Navigation
  at, docOnly, attempt, n, doc, shown, queue, final, result, settled, framed,
  \* Diagnostics
  pc, sub, Page, sampler, tabs, sampling, closed, open, conn, made, events, cursor,
  resumed, late, meddled, cut, panicked, overlap

Nav == INSTANCE Navigation

Diag == INSTANCE Diagnostics

navVars == <<at, docOnly, attempt, n, doc, shown, queue, final, result, settled,
             framed>>
diagVars == <<pc, sub, Page, sampler, tabs, sampling, closed, open, conn, made,
              events, cursor, resumed, late, meddled, cut, panicked, overlap>>
vars == <<side, navVars, diagVars>>

Init ==
  /\ side \in Sides
  /\ Nav!Init /\ Diag!Init

Navigations ==
  /\ side = "navigation"
  /\ Nav!Next
  /\ UNCHANGED <<side, diagVars>>

DiagnosticsRuns ==
  /\ side = "diagnostics"
  /\ Diag!Next
  /\ UNCHANGED <<side, navVars>>

Next == Navigations \/ DiagnosticsRuns

Spec == Init /\ [][Next]_vars

-----------------------------------------------------------------------------
(* Properties, stated with their comments in the modules of the two sides *)

\* The result of a navigation is its own: a success is that of the document asked
\* for, and never Chromium's page for a net error, and a blocked navigation, V7's
\* proof that the gate is closed, failed itself.
ResultIsItsOwn == Nav!SuccessIsItsOwn /\ Nav!BlockedIsItsOwn

\* Diagnostics one after another never crash the controller and leave no sampler
\* and no tab.
DiagnosticsCleansUp == Diag!DiagnosticsCleansUp

\* V7 passes for a CONNECT admitted after it reopened the gate, or for one that
\* was dialing since before, or when another opened the gate meanwhile; and it sees
\* every one admitted since, as long as the log is not cut.
ResumeIsSeen == Diag!ResumeIsSeen
=============================================================================
