---------------------------- MODULE Supervision ----------------------------
(***************************************************************************)
(* A gate and the health monitor that supervises its route, with nobody    *)
(* else at work: controller/health/health.go over routing/provider/gate.go *)
(* and routing/socks5/server.go.                                           *)
(*                                                                         *)
(* Runtime takes Gate.Close for one step.  Here it is the code's: the      *)
(* monitor stores the flag, copies the connections and closes them one by  *)
(* one, while handlers go on reading requests, dialling and copying.  What *)
(* the monitor does besides is Runtime's, and so is the specification that *)
(* the two together are to implement (RuntimeSpec).                        *)
(***************************************************************************)
EXTENDS Gate

CONSTANTS
  Self,                      \* the monitor loop, the gate's only caller
  IPs, Pin, OtherPins, NoIP  \* Runtime

ASSUME SupervisionAssumption ==
  /\ Callers = {Self}
  /\ Pin \in IPs /\ OtherPins \subseteq IPs \ {Pin} /\ NoIP \notin IPs

VARIABLES
  \* Runtime
  status, routeIP, down, alive, exited, mon, wasDown, monIP, pinned, up, egress,
  cleared,   \* connections whose dial has seen the route's status
  exit,      \* the address by which a dialled connection leaves
  wasOpen    \* history: the gate was open when the Close in progress began

gateVars == vars
monVars == <<status, routeIP, down, alive, exited, mon, wasDown, monIP, pinned, up, egress>>
dialVars == <<cleared, exit>>
supervisedVars == <<gateVars, monVars, dialVars, wasOpen>>

Closing == call[Self] # "none"

\* The dial of an admitted connection, and the tunnel it became.
Dialing(c) == Live(c) /\ pc[c] = "dialing" /\ c \in cleared
Tunnel(c) == Live(c) /\ pc[c] \in {"dialed", "piping"}

(***************************************************************************)
(* What Runtime sees.  A Close takes effect when it returns: until then it *)
(* is as if the gate were as before.  Without a browser there is nobody to *)
(* use a connection.                                                       *)
(***************************************************************************)
GateSeen == open \/ (Closing /\ wasOpen)
DialingSeen == alive /\ \E c \in Conns : Dialing(c)
TunnelsSeen == {ip \in IPs : alive /\ \E c \in Conns : Tunnel(c) /\ exit[c] = ip}

Seen == INSTANCE Runtime
        WITH Ops <- {}, Methods <- {},
             gate <- GateSeen, dialing <- DialingSeen, tunnels <- TunnelsSeen,
             gone <- exited,
             op <- [o \in {} |-> "none"], opIP <- [o \in {} |-> NoIP]

-----------------------------------------------------------------------------
\* startup ended READY and opened the gate.
SupervisedInit ==
  /\ open = TRUE
  /\ route \in Routes
  /\ closed = FALSE /\ listening = TRUE /\ loop = "accept"
  /\ tracked = {}
  /\ pc = [c \in Conns |-> "idle"]
  /\ sock = [c \in Conns |-> "none"]
  /\ via = [c \in Conns |-> NoRoute]
  /\ pump = [c \in Conns |-> {}]
  /\ gone = [c \in Conns |-> {}]
  /\ strayed = FALSE
  /\ call = [k \in Callers |-> "none"]
  /\ sweep = [k \in Callers |-> {}]
  /\ status = "READY" /\ routeIP = Pin /\ down = FALSE /\ alive = TRUE /\ exited = FALSE
  /\ mon = "wait" /\ wasDown = FALSE /\ monIP = NoIP /\ pinned = NoIP
  /\ up = TRUE /\ egress = Pin
  /\ cleared = {}
  /\ exit = [c \in Conns |-> NoIP]
  /\ wasOpen = FALSE

-----------------------------------------------------------------------------
(* The gate's own goroutines and the remote ends *)

\* Route.Dial reads the status before it dials (upstream.go:92).
DialChecks(c) ==
  /\ pc[c] = "dialing" /\ c \notin cleared
  /\ Seen!Dialable
  /\ cleared' = cleared \cup {c}
  /\ UNCHANGED <<gateVars, monVars, exit, wasOpen>>

\* A step of the loop, of a handler or of a remote end.  A dial that was let
\* through succeeds while the upstream answers.
Serve(c) ==
  /\ \/ Accept(c) \/ Track(c) \/ Handler(c)
     \/ \E dir \in {"up", "down"} : WriteFails(c, dir)
     \/ \E end \in {"client", "far"} : RemoteCloses(c, end)
  /\ IF pc[c] = "dialing" /\ pc'[c] = "dialed"
       THEN c \in cleared /\ up /\ exit' = [exit EXCEPT ![c] = egress]
       ELSE UNCHANGED exit
  /\ UNCHANGED <<monVars, cleared, wasOpen>>

-----------------------------------------------------------------------------
(* The monitor loop *)

\* Probing and judging, the flag and the status, and the new route's dial: the
\* steps that leave the gate alone.
Probe ==
  /\ ~Closing
  /\ UNCHANGED <<gateVars, dialVars, wasOpen, alive>>
  /\ \/ Seen!Tick \/ Seen!Reachable \/ Seen!ProbeIP \/ Seen!Judge \/ Seen!SetReady
     \/ Seen!MarkDown \/ Seen!SetDown \/ Seen!ReestablishDial

\* Gate.Close, in NoticeExit, markDown and reestablish: the flag ...
BeginClose ==
  /\ mon \in {"close", "again"} \/ (mon = "wait" /\ ~alive /\ ~exited)
  /\ CloseStore(Self)
  /\ wasOpen' = open
  /\ UNCHANGED <<monVars, dialVars>>

\* ... CloseConnections ...
Sweep ==
  /\ Snapshot(Self) \/ \E c \in Conns : CloseOne(Self, c)
  /\ UNCHANGED <<monVars, dialVars, wasOpen>>

\* ... and what its caller does next.
EndClose ==
  /\ CloseReturns(Self)
  /\ \/ mon = "wait" /\ exited' = TRUE /\ UNCHANGED <<mon, pinned>>
     \/ /\ mon = "close"
        /\ mon' = "wait" \/ (monIP = NoIP /\ mon' = "again")
        /\ UNCHANGED <<exited, pinned>>
     \/ mon = "again" /\ mon' = "redial" /\ pinned' = routeIP /\ UNCHANGED exited
  /\ UNCHANGED <<status, routeIP, down, alive, wasDown, monIP, up, egress, dialVars, wasOpen>>

\* The route is as it was: Gate.Open.
Restore ==
  /\ mon = "open"
  /\ Open
  /\ mon' = "wait"
  /\ UNCHANGED <<status, routeIP, down, alive, exited, wasDown, monIP, pinned, up, egress,
                 dialVars, wasOpen>>

\* reestablish: the new route is installed with SetRoute, or refused.
Install ==
  /\ mon = "install"
  /\ IF monIP = pinned /\ monIP \notin OtherPins
       THEN \E r \in Routes : SetRoute(r)
       ELSE UNCHANGED gateVars
  /\ UNCHANGED <<dialVars, wasOpen, alive>>
  /\ Seen!ReestablishInstall

-----------------------------------------------------------------------------
(* The browser and the network *)

\* Chromium ends; the handlers notice as its sockets are closed (RemoteCloses).
Exits ==
  /\ alive
  /\ alive' = FALSE
  /\ UNCHANGED <<gateVars, status, routeIP, down, exited, mon, wasDown, monIP, pinned, up,
                 egress, dialVars, wasOpen>>

Network ==
  /\ UNCHANGED <<gateVars, dialVars, wasOpen, alive>>
  /\ Seen!NetworkChanges

SupervisedNext ==
  \/ \E c \in Conns : DialChecks(c) \/ Serve(c)
  \/ Probe \/ BeginClose \/ Sweep \/ EndClose \/ Restore \/ Install
  \/ Exits \/ Network

SupervisedSpec == SupervisedInit /\ [][SupervisedNext]_supervisedVars

-----------------------------------------------------------------------------
(* Properties *)

\* health.go:61-65, "The gate stays closed until the original egress IP is seen
\* again": between two probes, a route that the monitor holds to be down, or
\* whose status is DOWN, has a closed gate and no connection that carries
\* anything, through outages, moved addresses and reestablished routes, and
\* whatever handlers were doing when Close came.
DownKeepsGateClosed ==
  mon = "wait" /\ ~Closing /\ (down \/ status = "DOWN") =>
    ~open /\ \A c \in Conns : ~Live(c)

\* The monitor with the gate as it is implements the monitor with a gate that is
\* closed in one step: a Close takes effect at the latest when it returns, and
\* nothing is dialled afterwards.
RuntimeSpec == Seen!Spec
=============================================================================
