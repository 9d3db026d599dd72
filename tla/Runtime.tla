------------------------------ MODULE Runtime ------------------------------
(***************************************************************************)
(* One READY identity after startup: its route and gate under the health   *)
(* monitor (controller/health/health.go), Session.reestablish and the      *)
(* control-channel methods route.stop, route.start and diagnostics.run     *)
(* (controller/startup/session.go, status.go, controller/verify).          *)
(*                                                                         *)
(* The monitor loop of the identity is one process, every control-channel  *)
(* call another (ipc.serve runs each connection's request in a goroutine   *)
(* of its own).  They share Route.status, Gate.open and Subject.RouteIP    *)
(* with no common lock, so each read or write of one of these is a step.   *)
(* Gate.Close is one step here; Supervision has it as it is and implements *)
(* this module.  The other identities appear through the addresses they    *)
(* are pinned to.                                                          *)
(***************************************************************************)
EXTENDS Naturals

CONSTANTS
  IPs,        \* public addresses
  Pin,        \* the address the session was pinned to at startup
  OtherPins,  \* the addresses the other identities are pinned to
  NoIP,       \* "no address": a probe that failed
  Ops,        \* goroutines serving control-channel calls
  Methods     \* the methods the operator uses

AllMethods == {"route.stop", "route.start", "diagnostics.run"}

ASSUME RuntimeAssumption ==
  /\ Pin \in IPs
  /\ OtherPins \subseteq IPs \ {Pin}
  /\ NoIP \notin IPs
  /\ Methods \subseteq AllMethods

VARIABLES
  status,    \* Route.status of the subject's current route
  gate,      \* Gate.open
  dialing,   \* an admitted CONNECT is being dialled: it has seen the status
  tunnels,   \* addresses by which live tunnels of the browser leave
  routeIP,   \* Subject.RouteIP, the pin
  down,      \* State.Down of the monitor
  alive,     \* the browser runs
  gone,      \* browserGone of the monitor loop
  mon,       \* where the monitor loop is
  wasDown,   \* probe's local copy of State.Down
  monIP,     \* the address the monitor's probe (or reestablish) saw
  pinned,    \* reestablish's local copy of Subject.RouteIP
  op,        \* where each control-channel call is
  opIP,      \* the address it saw
  up,        \* the upstream accepts connections (environment)
  egress     \* the address the route leads to (environment)

gateVars == <<gate, dialing, tunnels>>
probeVars == <<wasDown, monIP, pinned>>
monVars == <<down, gone, mon, probeVars>>
opVars == <<op, opIP>>
envVars == <<alive, up, egress>>
vars == <<status, gateVars, routeIP, monVars, opVars, envVars>>

Statuses == {"VERIFYING", "READY", "DOWN"}
MonPCs == {"wait", "reach", "ip", "judge", "setReady", "open", "keepReady",
           "markDown", "setDown", "close", "again", "redial", "install"}
OpPCs == {"none", "stopClose", "startIP", "startJudge", "startOpen",
          "V1", "V2", "V7close", "V7open", "V7resume"}

\* startup ended READY: V1-V9 passed, the gate is open, the pin is set.
Init ==
  /\ status = "READY"
  /\ gate = TRUE
  /\ dialing = FALSE
  /\ tunnels = {}
  /\ routeIP = Pin
  /\ down = FALSE
  /\ gone = FALSE
  /\ mon = "wait"
  /\ wasDown = FALSE
  /\ monIP = NoIP
  /\ pinned = NoIP
  /\ op = [o \in Ops |-> "none"]
  /\ opIP = [o \in Ops |-> NoIP]
  /\ alive = TRUE
  /\ up = TRUE
  /\ egress = Pin

-----------------------------------------------------------------------------
(* Shared helpers *)

\* Route.Dial forwards only in these two states.
Dialable == status \in {"READY", "VERIFYING"}

\* provider.PublicIP through the route: the egress, or an error (always
\* possible: every probe has a deadline).
PublicIP == {NoIP} \cup (IF up /\ Dialable THEN {egress} ELSE {})

\* Gate.Close: nothing is admitted and nothing stays live.
CloseGate == gate' = FALSE /\ dialing' = FALSE /\ tunnels' = {}

OpenGate == gate' = TRUE /\ UNCHANGED <<dialing, tunnels>>

-----------------------------------------------------------------------------
(* The monitor loop *)

Goto(l) == mon' = l

\* <-s.Browser.Exited(), acted on once.
NoticeExit ==
  /\ mon = "wait"
  /\ ~alive /\ ~gone
  /\ gone' = TRUE
  /\ CloseGate
  /\ UNCHANGED <<status, routeIP, down, mon, probeVars, opVars, envVars>>

\* <-probe.C
Tick ==
  /\ mon = "wait"
  /\ Goto("reach")
  /\ UNCHANGED <<status, gateVars, routeIP, down, gone, probeVars, opVars,
                 envVars>>

\* Mutant of Reachable: a route already down is not blocked again.
ReachableOnce ==
  /\ mon = "reach"
  /\ wasDown' = down
  /\ \/ ~up /\ Goto(IF down THEN "wait" ELSE "markDown")
     \/ up /\ Goto("ip")
     \/ up /\ ~down /\ Goto("wait")
  /\ monIP' = NoIP
  /\ UNCHANGED <<status, gateVars, routeIP, down, gone, pinned, opVars,
                 envVars>>

\* Route.Reachable, then State.Down is copied.  A reachable route gets the full
\* check on recovery always, otherwise when the IP interval has passed.
Reachable ==
  /\ mon = "reach"
  /\ wasDown' = down
  /\ \/ ~up /\ Goto("markDown")
     \/ up /\ Goto("ip")
     \/ up /\ ~down /\ Goto("wait")
  /\ monIP' = NoIP
  /\ UNCHANGED <<status, gateVars, routeIP, down, gone, pinned, opVars,
                 envVars>>

\* DOWN becomes VERIFYING so that the probe may dial; PublicIP.
ProbeIP ==
  /\ mon = "ip"
  /\ status' = IF status = "DOWN" THEN "VERIFYING" ELSE status
  /\ monIP' \in {NoIP} \cup (IF up THEN {egress} ELSE {})
  /\ Goto("judge")
  /\ UNCHANGED <<gateVars, routeIP, down, gone, wasDown, pinned, opVars,
                 envVars>>

\* Mutant of Judge: a changed address blocks only a route that was up.
JudgeOnce ==
  /\ mon = "judge"
  /\ IF monIP # routeIP
       THEN Goto(IF wasDown THEN "wait" ELSE "markDown") /\ UNCHANGED down
       ELSE IF wasDown THEN Goto("setReady") /\ down' = FALSE
                       ELSE Goto("keepReady") /\ UNCHANGED down
  /\ UNCHANGED <<status, gateVars, routeIP, gone, probeVars, opVars,
                 envVars>>

\* The probe failed, or saw another address, or the route is as it was.
Judge ==
  /\ mon = "judge"
  /\ IF monIP # routeIP
       THEN Goto("markDown") /\ UNCHANGED down
       ELSE IF wasDown THEN Goto("setReady") /\ down' = FALSE
                       ELSE Goto("keepReady") /\ UNCHANGED down
  /\ UNCHANGED <<status, gateVars, routeIP, gone, probeVars, opVars,
                 envVars>>

\* Mutant of SetReady: a restored route does not reopen its gate.
SetReadyOnly ==
  /\ mon \in {"setReady", "keepReady"}
  /\ status' = "READY"
  /\ Goto("wait")
  /\ UNCHANGED <<gateVars, routeIP, down, gone, probeVars, opVars,
                 envVars>>

SetReady ==
  /\ mon \in {"setReady", "keepReady"}
  /\ status' = "READY"
  /\ Goto(IF mon = "setReady" THEN "open" ELSE "wait")
  /\ UNCHANGED <<gateVars, routeIP, down, gone, probeVars, opVars,
                 envVars>>

Reopen ==
  /\ mon = "open"
  /\ OpenGate
  /\ Goto("wait")
  /\ UNCHANGED <<status, routeIP, down, gone, probeVars, opVars, envVars>>

\* markDown: the flag, the status and the gate, in that order.
MarkDown ==
  /\ mon = "markDown"
  /\ down' = TRUE
  /\ Goto("setDown")
  /\ UNCHANGED <<status, gateVars, routeIP, gone, probeVars, opVars,
                 envVars>>

SetDown ==
  /\ mon = "setDown"
  /\ status' = "DOWN"
  /\ Goto("close")
  /\ UNCHANGED <<gateVars, routeIP, down, gone, probeVars, opVars,
                 envVars>>

\* Mutant of MarkDownClose: the gate of a route that fails is left as it is.
MarkDownOnly ==
  /\ mon = "close"
  /\ Goto("wait") \/ (monIP = NoIP /\ Goto("again"))
  /\ UNCHANGED <<status, gateVars, routeIP, down, gone, probeVars, opVars,
                 envVars>>

\* A changed address is not followed by maybeReestablish; a failed probe is,
\* once the route has been down for ReestablishAfter.
MarkDownClose ==
  /\ mon = "close"
  /\ CloseGate
  /\ Goto("wait") \/ (monIP = NoIP /\ Goto("again"))
  /\ UNCHANGED <<status, routeIP, down, gone, probeVars, opVars, envVars>>

\* Session.reestablish: close the gate and note the pin ...
ReestablishClose ==
  /\ mon = "again"
  /\ CloseGate
  /\ pinned' = routeIP
  /\ Goto("redial")
  /\ UNCHANGED <<status, routeIP, down, gone, wasDown, monIP, opVars, envVars>>

\* ... Provisioner.Reestablish, Start and PublicIP of the new route: an error
\* or some address ...
ReestablishDial ==
  /\ mon = "redial"
  /\ \/ monIP' \in IPs /\ Goto("install") /\ UNCHANGED pinned
     \/ pinned' = NoIP /\ Goto("wait") /\ UNCHANGED monIP
  /\ UNCHANGED <<status, gateVars, routeIP, down, gone, wasDown, opVars,
                 envVars>>

\* ... which must be the address pinned when it began, and no other identity's.
ReestablishInstall ==
  /\ mon = "install"
  /\ Goto("wait")
  /\ pinned' = NoIP
  /\ IF monIP = pinned /\ monIP \notin OtherPins
       THEN status' = "VERIFYING" /\ up' = TRUE /\ egress' = monIP
       ELSE UNCHANGED <<status, up, egress>>
  /\ UNCHANGED <<gateVars, routeIP, down, gone, wasDown, monIP, opVars,
                 alive>>

Monitor ==
  \/ NoticeExit \/ Tick \/ Reachable \/ ProbeIP \/ Judge \/ SetReady \/ Reopen
  \/ MarkDown \/ SetDown \/ MarkDownClose
  \/ ReestablishClose \/ ReestablishDial \/ ReestablishInstall

-----------------------------------------------------------------------------
(* Control-channel calls *)

OpAt(o, from, to) ==
  /\ op[o] = from
  /\ op' = [op EXCEPT ![o] = to]

\* SetRouteEnabled(false): the status, then the gate.
RouteStop(o) ==
  /\ "route.stop" \in Methods
  /\ OpAt(o, "none", "stopClose")
  /\ status' = "DOWN"
  /\ UNCHANGED <<gateVars, routeIP, opIP, monVars, envVars>>

RouteStopClose(o) ==
  /\ OpAt(o, "stopClose", "none")
  /\ CloseGate
  /\ UNCHANGED <<status, routeIP, opIP, monVars, envVars>>

\* SetRouteEnabled(true): VERIFYING, a probe, and on the pinned address READY
\* and an open gate.  On any other outcome DOWN; the gate is not touched.
RouteStart(o) ==
  /\ "route.start" \in Methods
  /\ OpAt(o, "none", "startIP")
  /\ status' = "VERIFYING"
  /\ UNCHANGED <<gateVars, routeIP, opIP, monVars, envVars>>

RouteStartIP(o) ==
  /\ OpAt(o, "startIP", "startJudge")
  /\ \E ip \in PublicIP : opIP' = [opIP EXCEPT ![o] = ip]
  /\ UNCHANGED <<status, gateVars, routeIP, monVars, envVars>>

RouteStartJudge(o) ==
  /\ OpAt(o, "startJudge", IF opIP[o] = routeIP THEN "startOpen" ELSE "none")
  /\ status' = IF opIP[o] = routeIP THEN "READY" ELSE "DOWN"
  /\ opIP' = [opIP EXCEPT ![o] = NoIP]
  /\ UNCHANGED <<gateVars, routeIP, monVars, envVars>>

RouteStartOpen(o) ==
  /\ OpAt(o, "startOpen", "none")
  /\ OpenGate
  /\ UNCHANGED <<status, routeIP, opIP, monVars, envVars>>

\* Diagnostics refuses to run without a browser.
DiagnosticsRun(o) ==
  /\ "diagnostics.run" \in Methods
  /\ alive
  /\ OpAt(o, "none", "V1")
  /\ UNCHANGED <<status, gateVars, routeIP, opIP, monVars, envVars>>

\* V1 and V2 record whatever address they see: the controller's, through the
\* route, and the browser's, through the gate.  A failed check changes nothing.
DiagnosticsV1(o) ==
  /\ OpAt(o, "V1", "V2")
  /\ \E ip \in PublicIP : routeIP' = IF ip = NoIP THEN routeIP ELSE ip
  /\ UNCHANGED <<status, gateVars, opIP, monVars, envVars>>

\* An address the browser sees when it navigates to the echo service.
BrowserIP == IF gate /\ alive THEN PublicIP ELSE {NoIP}

DiagnosticsV2(o) ==
  /\ OpAt(o, "V2", "V7close")
  /\ \E ip \in BrowserIP : routeIP' = IF ip = NoIP THEN routeIP ELSE ip
  /\ UNCHANGED <<status, gateVars, opIP, monVars, envVars>>

\* V7: close, see navigation fail, reopen whatever came of it, navigate again
\* and record the address.
DiagnosticsV7Close(o) ==
  /\ OpAt(o, "V7close", "V7open")
  /\ CloseGate
  /\ UNCHANGED <<status, routeIP, opIP, monVars, envVars>>

DiagnosticsV7Open(o) ==
  /\ OpAt(o, "V7open", "V7resume")
  /\ OpenGate
  /\ UNCHANGED <<status, routeIP, opIP, monVars, envVars>>

DiagnosticsV7Resume(o) ==
  /\ OpAt(o, "V7resume", "none")
  /\ \E ip \in BrowserIP : routeIP' = IF ip = NoIP THEN routeIP ELSE ip
  /\ UNCHANGED <<status, gateVars, opIP, monVars, envVars>>

OpStep(o) ==
  \/ RouteStopClose(o) \/ RouteStartIP(o) \/ RouteStartJudge(o)
  \/ RouteStartOpen(o) \/ DiagnosticsV1(o) \/ DiagnosticsV2(o)
  \/ DiagnosticsV7Close(o) \/ DiagnosticsV7Open(o) \/ DiagnosticsV7Resume(o)

OpCall(o) == RouteStop(o) \/ RouteStart(o) \/ DiagnosticsRun(o)

-----------------------------------------------------------------------------
(* The browser and the network *)

\* A CONNECT the gate admits; Route.Dial looks at the status before it dials.
Connect ==
  /\ alive /\ gate /\ Dialable
  /\ ~dialing
  /\ dialing' = TRUE
  /\ UNCHANGED <<status, gate, tunnels, routeIP, monVars, opVars, envVars>>

\* A dial succeeds, by now perhaps of a route whose status is DOWN; there may be
\* others.
Browse ==
  /\ dialing /\ up
  /\ dialing' \in BOOLEAN
  /\ tunnels' = tunnels \cup {egress}
  /\ UNCHANGED <<status, gate, routeIP, monVars, opVars, envVars>>

\* A dial fails, a page has what it wanted: connections end by themselves too.
ConnectionEnds ==
  /\ \/ dialing /\ dialing' = FALSE /\ UNCHANGED tunnels
     \/ \E ip \in tunnels : tunnels' = tunnels \ {ip} /\ UNCHANGED dialing
  /\ UNCHANGED <<status, gate, routeIP, monVars, opVars, envVars>>

BrowserExits ==
  /\ alive
  /\ alive' = FALSE
  /\ dialing' = FALSE
  /\ tunnels' = {}
  /\ UNCHANGED <<status, gate, routeIP, monVars, opVars, up, egress>>

NetworkChanges ==
  /\ \/ up' = ~up /\ UNCHANGED egress
     \/ egress' \in IPs \ {egress} /\ UNCHANGED up
  /\ UNCHANGED <<status, gateVars, routeIP, monVars, opVars, alive>>

Next ==
  \/ Monitor
  \/ \E o \in Ops : OpCall(o) \/ OpStep(o)
  \/ Connect \/ Browse \/ ConnectionEnds
  \/ BrowserExits
  \/ NetworkChanges

Spec == Init /\ [][Next]_vars

(***************************************************************************)
(* The ticker fires and the monitor's probes return (each has a deadline); *)
(* so do the calls in progress.  A healthy probe is eventually a full one  *)
(* (IPCheckInterval), and a probe of a route that works and goes on        *)
(* working eventually succeeds.  Nothing is assumed of the network, of the *)
(* browser, or of the operator's making calls.                             *)
(***************************************************************************)
Fairness ==
  /\ WF_vars(Monitor)
  /\ \A o \in Ops : WF_vars(OpStep(o))
  /\ SF_vars(Reachable /\ mon' = "ip")
  /\ SF_vars(ProbeIP /\ monIP' # NoIP)

FairSpec == Spec /\ Fairness

-----------------------------------------------------------------------------
(* Properties *)

\* Types of Route.status, Gate.open, Subject.RouteIP and the monitor's State.
TypeOK ==
  /\ status \in Statuses
  /\ gate \in BOOLEAN /\ dialing \in BOOLEAN
  /\ tunnels \in SUBSET IPs
  /\ routeIP \in IPs
  /\ down \in BOOLEAN /\ gone \in BOOLEAN /\ wasDown \in BOOLEAN
  /\ mon \in MonPCs
  /\ monIP \in IPs \cup {NoIP} /\ pinned \in IPs \cup {NoIP}
  /\ op \in [Ops -> OpPCs]
  /\ opIP \in [Ops -> IPs \cup {NoIP}]
  /\ alive \in BOOLEAN /\ up \in BOOLEAN
  /\ egress \in IPs

OpsIdle == \A o \in Ops : op[o] = "none"
NoCalls == []OpsIdle
NoDiagnostics ==
  [](\A o \in Ops : op[o] \notin {"V1", "V2", "V7close", "V7open", "V7resume"})

\* docs/SCOPE.md:253, "gate refuses when route is not READY and closes existing
\* tunnels on transition to DOWN": with no call and no probe in progress, a
\* route whose status is DOWN has a closed gate.
DownStatusClosesGate ==
  (mon = "wait" /\ OpsIdle /\ status = "DOWN") => ~gate

\* A route that stays up at the pinned address is not blocked for ever: the
\* monitor keeps coming back to an open gate after outages and failed probes.
\* (After a route.stop it does not: the monitor never opens that gate again.)
RecoveryReopens ==
  (NoCalls /\ <>[](up /\ egress = routeIP /\ alive)) => []<>(gate /\ ~down)

\* health.go:1-4, "closes the gate the moment a route fails", and ENGINEERING_PLAN
\* 3.7, "A changed public IP is a session failure ... the gate stays closed": a
\* route that never again leads to the pinned address, be it dead, moved or
\* one after the other, ends with a closed gate and nothing flowing, whatever
\* the operator keeps stopping and starting.
UnfitRouteIsClosed ==
  (NoDiagnostics /\ <>[]~(up /\ egress = routeIP)) => <>[](~gate /\ tunnels = {})

\* Whatever calls were made, diagnostics included: once they stop and the route
\* settles on an address, the gate is not left open on an address other than
\* the recorded one, nor on a route that went dead.
SettledGateMatchesPin ==
  /\ \A ip \in IPs :
       <>[](up /\ egress = ip /\ OpsIdle) => <>[](gate => routeIP = ip)
  /\ <>[](~up /\ OpsIdle) => <>[](~gate)
=============================================================================
