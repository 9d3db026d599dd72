------------------------------ MODULE DevTools ------------------------------
(***************************************************************************)
(* The DevTools connection of an identity's Chromium, from its two ends:   *)
(* the client that Calls and subscribers share (Cdp), and the process with *)
(* the loop that gives its pages the timezone (Browser).  Browser takes of *)
(* the client that commands are written in order, that a full subscription *)
(* loses an event and that a Call is answered, fails or times out; Cdp is  *)
(* about how.  The two share no state, so a behaviour is one of the end    *)
(* that is looked at.                                                      *)
(***************************************************************************)
EXTENDS Naturals, FiniteSets, Sequences

CONSTANTS
  Ends,                            \* the ends that are explored
  Ids, Subs, Closers, Cap, NoId,   \* Cdp
  First, Pages, Workers, QueueMax  \* Browser

ASSUME DevToolsAssumption ==
  /\ Ends \subseteq {"client", "browser"}
  /\ Cap \in Nat \ {0} /\ NoId \notin Ids
  /\ First \notin Pages \cup Workers /\ Pages \cap Workers = {}
  /\ QueueMax \in Nat \ {0}

VARIABLES
  end,
  \* Cdp
  up, closed, reader, answer, pending, replies, pc, subs, finished, queue,
  panicked, closer,
  \* Browser
  at, proc, conn, auto, target, zone, attached, loop, cur, wire, refused, dropped

Client == INSTANCE Cdp

Chromium == INSTANCE Browser WITH pc <- at, queue <- attached

clientVars == <<up, closed, reader, answer, pending, replies, pc, subs, finished,
                queue, panicked, closer>>
chromiumVars == <<at, proc, conn, auto, target, zone, attached, loop, cur, wire,
                  refused, dropped>>
vars == <<end, clientVars, chromiumVars>>

Init ==
  /\ end \in Ends
  /\ Client!Init /\ Chromium!Init

ClientSteps ==
  /\ end = "client"
  /\ Client!Next
  /\ UNCHANGED <<end, chromiumVars>>

ChromiumSteps ==
  /\ end = "browser"
  /\ Chromium!Next
  /\ UNCHANGED <<end, clientVars>>

Next == ClientSteps \/ ChromiumSteps

Spec == Init /\ [][Next]_vars

FairSpec ==
  /\ Spec
  /\ end = "client" => Client!Fairness
  /\ end = "browser" => Chromium!Fairness

-----------------------------------------------------------------------------
(* Properties, stated with their comments in the modules of the two ends *)

\* The read loop never blocks on a Call's channel.
ReaderNeverBlocks == Client!ReaderNeverBlocks

\* No event is sent on a closed channel and none is closed twice.
NoPanic == Client!NoPanic

\* When the browser is gone every Call and every Close returns.
CallsReturn == Client!CallsReturn

\* A failed launch and a closed browser leave no process and no pipe.
NothingIsLeft == Chromium!NothingIsLeft

\* No page opened under auto-attach runs a script without the timezone, unless
\* Chromium refused it.
NewPagesHaveTheZone == Chromium!NewPagesHaveTheZone

\* A target paused by auto-attach is resumed unless its event was dropped.
PausedPagesResume == Chromium!PausedPagesResume
=============================================================================
