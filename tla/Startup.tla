------------------------------ MODULE Startup ------------------------------
(***************************************************************************)
(* Session.Run, failAndAbort, abort and Shutdown (controller/startup/      *)
(* session.go) with the checks V1-V9 (controller/verify/verify.go): from   *)
(* taking the identity-set lock to READY, or to a torn-down session.       *)
(*                                                                         *)
(* The main goroutine moves through phases; in the phases that call        *)
(* Session.parallel every identity has a goroutine of its own (its place   *)
(* is at[i]) and the phase ends when all of them have.  Any step that      *)
(* talks to a network, a browser or a disk may fail, and browsers may die. *)
(***************************************************************************)
EXTENDS Naturals, FiniteSets

CONSTANTS
  N,             \* identities
  IPs,           \* public addresses a route may lead to
  Host,          \* the host's own address (a route may lead there too)
  NoIP           \* a nil net.IP

ASSUME StartupAssumption ==
  /\ N \in Nat \ {0}
  /\ Host \in IPs
  /\ NoIP \notin IPs

Ids == 1 .. N

VARIABLES
  canReplace, \* the provisioner is a SessionReplacer: Decodo is, Static not
  silent,     \* identities with a tunnel whose far end is silent (no code)
  phase,      \* where Run is
  at,         \* where each identity's goroutine is in the current phase
  lock,       \* the identity set is locked
  subjects,   \* identities whose gate listens (s.subjects)
  hostKnown,  \* HostIPs learnt the host's IPv4
  gate,       \* Gate.open
  browser,    \* "none", "alive" or "dead"
  routeIP,    \* Subject.RouteIP
  browserIP,  \* Subject.BrowserIP
  badCheck,   \* Subject.Results holds a check that did not pass
  passed,     \* allOK of verifyAll
  replaced    \* slots separateSharedExits has replaced

netVars == <<routeIP, browserIP, badCheck, passed, replaced, hostKnown>>
vars == <<canReplace, silent, phase, at, lock, subjects, gate, browser,
          netVars>>

Phases == {"start", "locked", "provision", "routes", "separate", "launch",
           "V2", "V3", "V456", "V7", "V3again", "V8", "url", "ready",
           "closing", "releasing", "ended"}

Places == {"todo", "started", "retry", "closed", "ok", "err"}

Init ==
  /\ canReplace \in BOOLEAN
  /\ silent = {}
  /\ phase = "start"
  /\ at = [i \in Ids |-> "todo"]
  /\ lock = FALSE
  /\ subjects = {}
  /\ hostKnown = FALSE
  /\ gate = [i \in Ids |-> FALSE]
  /\ browser = [i \in Ids |-> "none"]
  /\ routeIP = [i \in Ids |-> NoIP]
  /\ browserIP = [i \in Ids |-> NoIP]
  /\ badCheck = [i \in Ids |-> FALSE]
  /\ passed = TRUE
  /\ replaced = {}

-----------------------------------------------------------------------------
(* Phases *)

\* The main goroutine goes on to the next phase; its goroutines start afresh.
Enter(p) ==
  /\ phase' = p
  /\ at' = [i \in Ids |-> "todo"]

\* wg.Wait of parallel: everyone is done, and somebody failed or nobody did.
AllDone == \A i \in Ids : at[i] \in {"ok", "err"}
SomeErr == \E i \in Ids : at[i] = "err"

Step(i, from, to) ==
  /\ at[i] = from
  /\ at' = [at EXCEPT ![i] = to]

\* identity.Manager.Open and Set.Lock.
TakeLock ==
  /\ phase = "start"
  /\ \/ Enter("locked") /\ lock' = TRUE
     \/ Enter("ended") /\ UNCHANGED lock
  /\ UNCHANGED <<canReplace, silent, subjects, gate, browser, netVars>>

\* Set.Ensure, the provisioner and browser.Find: each error unlocks and
\* returns, without a session to abort.
Prepare ==
  /\ phase = "locked"
  /\ \/ Enter("provision") /\ UNCHANGED lock
     \/ Enter("ended") /\ lock' = FALSE
  /\ UNCHANGED <<canReplace, silent, subjects, gate, browser, netVars>>

\* Provision, then one gate per identity; a failure aborts with the gates so
\* far.  HostIPs is best effort.
Provision ==
  /\ phase = "provision"
  /\ \/ /\ Enter("closing")
        /\ \E k \in 0 .. N - 1 : subjects' = 1 .. k
        /\ UNCHANGED hostKnown
     \/ /\ Enter("routes")
        /\ subjects' = Ids
        /\ hostKnown' \in BOOLEAN
  /\ UNCHANGED <<canReplace, silent, lock, gate, browser, routeIP, browserIP,
                 badCheck, passed, replaced>>

-----------------------------------------------------------------------------
(* bringUpRoute, one goroutine per identity *)

StartRoute(i) ==
  /\ phase = "routes"
  /\ Step(i, "todo", "started") \/ Step(i, "todo", "err")
  /\ UNCHANGED <<canReplace, silent, phase, lock, subjects, gate, browser,
                 netVars>>

\* V1RouteUp.  A failed V1 stays in Results; it is followed by one replacement
\* if the provisioner can replace sessions and the new one starts.
V1(i) ==
  /\ phase = "routes"
  /\ at[i] \in {"started", "retry"}
  /\ \/ /\ \E ip \in IPs : routeIP' = [routeIP EXCEPT ![i] = ip]
        /\ Step(i, at[i], "ok")
        /\ UNCHANGED badCheck
     \/ /\ badCheck' = [badCheck EXCEPT ![i] = TRUE]
        /\ \/ Step(i, at[i], "err")
           \/ canReplace /\ Step(i, "started", "retry")
        /\ UNCHANGED routeIP
  /\ UNCHANGED <<canReplace, silent, phase, lock, subjects, gate, browser,
                 browserIP, passed, replaced, hostKnown>>

RoutesUp ==
  /\ phase = "routes"
  /\ AllDone
  /\ Enter(IF SomeErr THEN "closing"
           ELSE IF canReplace THEN "separate" ELSE "launch")
  /\ UNCHANGED <<canReplace, silent, lock, subjects, gate, browser, netVars>>

-----------------------------------------------------------------------------
(* separateSharedExits *)

\* sharedExit: the first identity whose address an earlier one has.
Sharing == {i \in Ids : \E j \in 1 .. i - 1 : routeIP[j] = routeIP[i]}
SharedExit == CHOOSE i \in Sharing : \A j \in Sharing : i <= j

Separated ==
  /\ phase = "separate"
  /\ Sharing = {}
  /\ Enter("launch")
  /\ UNCHANGED <<canReplace, silent, lock, subjects, gate, browser, netVars>>


\* A slot is replaced at most once; the replacement's V1 decides.
Separate ==
  /\ phase = "separate"
  /\ Sharing # {}
  /\ LET i == SharedExit IN
     \/ /\ i \notin replaced
        /\ \E ip \in IPs : routeIP' = [routeIP EXCEPT ![i] = ip]
        /\ replaced' = replaced \cup {i}
        /\ UNCHANGED <<phase, at, badCheck>>
     \/ /\ i \notin replaced
        /\ Enter("closing")
        /\ badCheck' \in {badCheck, [badCheck EXCEPT ![i] = TRUE]}
        /\ replaced' = replaced \cup {i}
        /\ UNCHANGED routeIP
     \/ /\ i \in replaced
        /\ Enter("closing")
        /\ UNCHANGED <<routeIP, replaced, badCheck>>
  /\ UNCHANGED <<canReplace, silent, lock, subjects, gate, browser, browserIP,
                 passed, hostKnown>>

-----------------------------------------------------------------------------
(* Browsers, one goroutine per identity *)

\* Gate.Open comes before Launch.
OpenGate(i) ==
  /\ phase = "launch"
  /\ Step(i, "todo", "started")
  /\ gate' = [gate EXCEPT ![i] = TRUE]
  /\ UNCHANGED <<canReplace, silent, phase, lock, subjects, browser, netVars>>

\* Launch fails and the gate is closed again; or the browser runs, and
\* FirstPage and Begin succeed or not.
Launch(i) ==
  /\ phase = "launch"
  /\ \/ /\ Step(i, "started", "err")
        /\ gate' = [gate EXCEPT ![i] = FALSE]
        /\ UNCHANGED browser
     \/ /\ Step(i, "started", "ok") \/ Step(i, "started", "err")
        /\ browser' = [browser EXCEPT ![i] = "alive"]
        /\ UNCHANGED gate
  /\ UNCHANGED <<canReplace, silent, phase, lock, subjects, netVars>>

Launched ==
  /\ phase = "launch"
  /\ AllDone
  /\ Enter(IF SomeErr THEN "closing" ELSE "V2")
  /\ UNCHANGED <<canReplace, silent, lock, subjects, gate, browser, netVars>>

\* Chromium crashes, or the user closes its window.
BrowserDies(i) ==
  /\ browser[i] = "alive"
  /\ browser' = [browser EXCEPT ![i] = "dead"]
  /\ UNCHANGED <<canReplace, silent, phase, at, lock, subjects, gate, netVars>>

\* The far end of a tunnel of i's browser neither sends nor closes from here
\* on ...
FarEndStalls(i) ==
  /\ gate[i] /\ browser[i] = "alive"
  /\ silent' = silent \cup {i}
  /\ UNCHANGED <<canReplace, phase, at, lock, subjects, gate, browser, netVars>>

\* ... until it does after all.
FarEndEnds(i) ==
  /\ i \in silent
  /\ silent' = silent \ {i}
  /\ UNCHANGED <<canReplace, phase, at, lock, subjects, gate, browser, netVars>>

-----------------------------------------------------------------------------
(* verifyAll *)

\* The comparison with the host is only made when its address is known.
OnHost(ip) == hostKnown /\ ip = Host

\* A check of identity i failed.
Fails(i) ==
  /\ badCheck' = [badCheck EXCEPT ![i] = TRUE]
  /\ passed' = FALSE

\* The browser's navigation to the echo service reports an address.  V2
\* records it as the browser's before it compares it with the host's.
V2(i) ==
  /\ phase = "V2"
  /\ Step(i, "todo", "ok")
  /\ \/ \E ip \in IPs :
          /\ browser[i] = "alive"
          /\ browserIP' = [browserIP EXCEPT ![i] = ip]
          /\ IF OnHost(ip)
               THEN Fails(i) /\ UNCHANGED routeIP
               ELSE /\ routeIP' = [routeIP EXCEPT ![i] = ip]
                    /\ UNCHANGED <<badCheck, passed>>
     \/ Fails(i) /\ UNCHANGED <<browserIP, routeIP>>
  /\ UNCHANGED <<canReplace, silent, phase, lock, subjects, gate, browser,
                 replaced, hostKnown>>

\* V3Separation: everyone has an address, not the host's, and no two the same.
AreSeparate ==
  /\ \A i \in Ids : browserIP[i] # NoIP /\ ~OnHost(browserIP[i])
  /\ \A i, j \in Ids : i # j => browserIP[i] # browserIP[j]

\* It is recorded on every subject.
V3(now, next) ==
  /\ phase = now
  /\ Enter(next)
  /\ IF AreSeparate
       THEN UNCHANGED <<badCheck, passed>>
       ELSE badCheck' = [i \in Ids |-> TRUE] /\ passed' = FALSE
  /\ UNCHANGED <<canReplace, silent, lock, subjects, gate, browser, routeIP,
                 browserIP, replaced, hostKnown>>

\* V4, V5 and V6 look at the gate's log, an IPv6 navigation and the pages of
\* two identities: any of them may fail, on any identity.
V456 ==
  /\ phase = "V456"
  /\ Enter("V7")
  /\ \/ UNCHANGED <<badCheck, passed>>
     \/ \E i \in Ids : Fails(i)
  /\ UNCHANGED <<canReplace, silent, lock, subjects, gate, browser, routeIP,
                 browserIP, replaced, hostKnown>>

\* V7FailClosed: the gate is closed ...
V7Close(i) ==
  /\ phase = "V7"
  /\ Step(i, "todo", "closed")
  /\ gate' = [gate EXCEPT ![i] = FALSE]
  /\ UNCHANGED <<canReplace, silent, phase, lock, subjects, browser, netVars>>

\* Mutant of V7Open: the address after V7 is not pinned.
V7OpenUnpinned(i) ==
  /\ phase = "V7"
  /\ Step(i, "closed", "ok")
  /\ gate' = [gate EXCEPT ![i] = TRUE]
  /\ \E ip \in IPs : browserIP' = [browserIP EXCEPT ![i] = ip]
  /\ UNCHANGED <<canReplace, silent, phase, lock, subjects, browser, routeIP,
                 badCheck, passed, replaced, hostKnown>>

\* ... and opened again whatever was seen; a resumed navigation may report
\* another address, which becomes the browser's and the route's.
V7Open(i) ==
  /\ phase = "V7"
  /\ Step(i, "closed", "ok")
  /\ gate' = [gate EXCEPT ![i] = TRUE]
  /\ \/ \E ip \in IPs :
          /\ browser[i] = "alive"
          /\ ~OnHost(ip)
          /\ browserIP' = [browserIP EXCEPT ![i] = ip]
          /\ routeIP' = [routeIP EXCEPT ![i] = ip]
          /\ UNCHANGED <<badCheck, passed>>
     \/ Fails(i) /\ UNCHANGED <<browserIP, routeIP>>
  /\ UNCHANGED <<canReplace, silent, phase, lock, subjects, browser, replaced,
                 hostKnown>>

\* Mutant of PhaseEnds: the main goroutine waits for one identity only.
PhaseEndsEarly(now, next) ==
  /\ phase = now
  /\ \E i \in Ids : at[i] \in {"ok", "err"}
  /\ Enter(next)
  /\ UNCHANGED <<canReplace, silent, lock, subjects, gate, browser, netVars>>

\* The end of a phase that ran on all identities in parallel.
PhaseEnds(now, next) ==
  /\ phase = now
  /\ AllDone
  /\ Enter(next)
  /\ UNCHANGED <<canReplace, silent, lock, subjects, gate, browser, netVars>>

\* V8, then Run looks at what verifyAll returned.
Verdict ==
  /\ phase = "V8"
  /\ \/ /\ UNCHANGED <<badCheck, passed>>
        /\ Enter(IF passed THEN "url" ELSE "closing")
     \/ \E i \in Ids : Fails(i) /\ Enter("closing")
  /\ UNCHANGED <<canReplace, silent, lock, subjects, gate, browser, routeIP,
                 browserIP, replaced, hostKnown>>

\* V9StartupURL, one goroutine per identity: the document answered, or at least
\* a CONNECT for its host went through the gate.
V9(i) ==
  /\ phase = "url"
  /\ \/ Step(i, "todo", "ok") /\ UNCHANGED badCheck
     \/ /\ Step(i, "todo", "err")
        /\ badCheck' = [badCheck EXCEPT ![i] = TRUE]
  /\ UNCHANGED <<canReplace, silent, phase, lock, subjects, gate, browser,
                 routeIP, browserIP, passed, replaced, hostKnown>>

\* READY or abort; READY at once when no startup URL is configured.
StartupURL ==
  /\ phase = "url"
  /\ \/ AllDone /\ Enter(IF SomeErr THEN "closing" ELSE "ready")
     \/ (\A i \in Ids : at[i] = "todo") /\ Enter("ready")
  /\ UNCHANGED <<canReplace, silent, lock, subjects, gate, browser, netVars>>

-----------------------------------------------------------------------------
(* Teardown *)

\* A signal, a stop request or all windows closed: Shutdown closes the
\* browsers (some may not obey) and goes on to abort.
Shutdown ==
  /\ phase = "ready"
  /\ Enter("closing")
  /\ \E S \in SUBSET Ids :
       browser' = [i \in Ids |-> IF i \in S /\ browser[i] = "alive"
                                   THEN "dead" ELSE browser[i]]
  /\ UNCHANGED <<canReplace, silent, lock, subjects, gate, netVars>>

\* abort walks over the subjects in order; each one's gate is closed ...
AbortGate(i) ==
  /\ phase = "closing"
  /\ \A j \in 1 .. i - 1 : at[j] # "todo"
  /\ Step(i, "todo", "closed")
  /\ gate' = [gate EXCEPT ![i] = @ /\ i \notin subjects]
  /\ UNCHANGED <<canReplace, silent, phase, lock, subjects, browser, netVars>>

\* ... and its browser killed in a goroutine, while the walk goes on.
Kill(i) ==
  /\ phase = "closing"
  /\ Step(i, "closed", "ok")
  /\ browser' = [browser EXCEPT ![i] = IF @ = "alive" /\ i \in subjects
                                         THEN "dead" ELSE @]
  /\ UNCHANGED <<canReplace, silent, phase, lock, subjects, gate, netVars>>

\* Then gates are shut down, routes and provisioner closed, the set unlocked.
\* Gate.Shutdown waits for its handlers, and one whose far end is silent stays
\* in pipe, which has no deadline.
Release ==
  /\ phase = "releasing"
  /\ subjects \cap silent = {}
  /\ Enter("ended")
  /\ gate' = [i \in Ids |-> gate[i] /\ i \notin subjects]
  /\ lock' = FALSE
  /\ UNCHANGED <<canReplace, silent, subjects, browser, netVars>>

-----------------------------------------------------------------------------
Next ==
  \/ TakeLock \/ Prepare \/ Provision \/ RoutesUp \/ Separated \/ Separate
  \/ Launched \/ Verdict \/ StartupURL \/ Shutdown \/ Release
  \/ \E i \in Ids :
       \/ StartRoute(i) \/ V1(i) \/ OpenGate(i) \/ Launch(i) \/ BrowserDies(i)
       \/ FarEndStalls(i) \/ FarEndEnds(i)
       \/ V2(i) \/ V9(i) \/ V7Close(i) \/ V7Open(i) \/ AbortGate(i) \/ Kill(i)
  \/ V3("V3", "V456") \/ V3("V3again", "V8")
  \/ V456
  \/ PhaseEnds("V2", "V3") \/ PhaseEnds("V7", "V3again")
  \/ PhaseEnds("closing", "releasing")

Spec == Init /\ [][Next]_vars

\* What no call of Run does: a signal stops a READY session, a browser dies, the
\* far end of a tunnel falls silent or wakes up.
Outside ==
  \/ Shutdown
  \/ \E i \in Ids : BrowserDies(i) \/ FarEndStalls(i) \/ FarEndEnds(i)

\* Every call of the startup has a deadline, so Run keeps moving, but for
\* Gate.Shutdown, which is not enabled while a far end holds it; nothing makes
\* the outside move.
FairSpec ==
  /\ Spec
  /\ WF_vars(Next /\ ~Outside)

-----------------------------------------------------------------------------
(* Properties *)

\* Types of the session, its subjects and their checks.
TypeOK ==
  /\ canReplace \in BOOLEAN
  /\ silent \in SUBSET Ids
  /\ phase \in Phases
  /\ at \in [Ids -> Places]
  /\ lock \in BOOLEAN /\ hostKnown \in BOOLEAN /\ passed \in BOOLEAN
  /\ subjects \in SUBSET Ids /\ replaced \in SUBSET Ids
  /\ gate \in [Ids -> BOOLEAN]
  /\ browser \in [Ids -> {"none", "alive", "dead"}]
  /\ routeIP \in [Ids -> IPs \cup {NoIP}]
  /\ browserIP \in [Ids -> IPs \cup {NoIP}]
  /\ badCheck \in [Ids -> BOOLEAN]

\* status.go:76: the identity is reported "verified".
Verified(i) == ~badCheck[i]

\* session.go:72-74, README.md:145.  READY means verified and isolated: each
\* browser was seen on an address of its own, which is also the one the monitor
\* is going to hold its route to, although V2 and V7 may each see a new address;
\* none is the host's, if that is known; and over static routes every identity
\* is reported verified.  (Over a provisioner that replaces sessions it may not
\* be: a V1 that failed before its session was replaced stays in Results.)
ReadyIsVerified ==
  phase = "ready" =>
    /\ \A i \in Ids :
         /\ gate[i] /\ browser[i] # "none"
         /\ routeIP[i] = browserIP[i] /\ browserIP[i] # NoIP
         /\ hostKnown => browserIP[i] # Host
         /\ ~canReplace => Verified(i)
    /\ \A i, j \in Ids : i # j => browserIP[i] # browserIP[j]

\* ENGINEERING_PLAN.md:267, "No Chromium process may survive a failed start",
\* at whichever step it failed; the gates are shut and the set is unlocked.
NothingSurvives ==
  phase = "ended" =>
    /\ ~lock
    /\ \A i \in Ids : browser[i] # "alive" /\ ~gate[i]

=============================================================================
