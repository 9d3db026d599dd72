-------------------------------- MODULE Gate --------------------------------
(***************************************************************************)
(* One gate: the loopback SOCKS5 listener that is the only proxy a         *)
(* Chromium identity knows (routing/provider/gate.go over                  *)
(* routing/socks5/server.go).                                              *)
(*                                                                         *)
(* Concurrent parties: the accept loop, one handler goroutine per          *)
(* connection, any number of callers inside Gate.Close or Gate.Shutdown,   *)
(* callers of Gate.Open and Gate.SetRoute, and the two remote ends of a    *)
(* tunnel.  Steps are as small as the code's: one per atomic load or       *)
(* store, per critical section of Server.mu and per blocking call.         *)
(***************************************************************************)
EXTENDS Naturals

CONSTANTS
  Conns,      \* client connections (each arrives at most once)
  Routes,     \* routes the gate may be bound to
  NoRoute,    \* "this handler has not read g.route"
  Callers     \* goroutines that call Close or Shutdown

ASSUME RoutesAssumption == Routes # {} /\ NoRoute \notin Routes

VARIABLES
  open,       \* Gate.open
  route,      \* Gate.route
  closed,     \* Server.closed
  listening,  \* the listener has not been closed
  loop,       \* the accept loop: "accept", "track" or "ended"
  tracked,    \* Server.conns
  pc,         \* where the handler of a connection is
  sock,       \* our end of the client connection: "none", "open", "closed"
  via,        \* the route a handler read for its dial
  pump,       \* directions of the tunnel still being copied
  gone,       \* remote ends that closed: "client", "far"
  strayed,    \* history: SetRoute was called on a gate not closed and quiet
  call,       \* where a caller of Close or Shutdown is
  sweep       \* connections that caller has snapshotted and not yet closed

connVars == <<tracked, pc, sock, via, pump, gone>>
callVars == <<strayed, call, sweep>>
vars == <<open, route, closed, listening, loop, tracked, pc, sock, via, pump,
          gone, strayed, call, sweep>>

-----------------------------------------------------------------------------
\* Handler positions, in the order handle() reaches them.
PCs == {"idle", "accepted", "handshake", "request", "admitted", "dialing",
        "dialed", "piping", "unwind", "untracked", "done"}

\* Past the Refuse check and not yet unwinding.
Admitted(c) == pc[c] \in {"admitted", "dialing", "dialed", "piping"}

\* The browser can still move data on this connection.
Live(c) == Admitted(c) /\ sock[c] = "open"

\* The handler goroutine of c is running (Server.wg counts it).
Running(c) == pc[c] \notin {"idle", "accepted", "done"}

\* Positions of a caller: Close is stored-sweeping, Shutdown the rest.
CloseCalls == {"stored", "sweeping"}
ShutCalls == {"sdStored", "sdMarked", "sdUnlistened", "sdSweeping",
              "sdWaitLoop", "sdWaitHandlers"}
Calls == {"none"} \cup CloseCalls \cup ShutCalls

\* The caller has cleared Gate.open and will still take its snapshot.
WillSnapshot(k) ==
  call[k] \in {"stored", "sdMarked", "sdUnlistened"}

\* Nobody is inside Close or Shutdown.
Quiet == \A k \in Callers : call[k] = "none"

-----------------------------------------------------------------------------
Init ==
  /\ open = FALSE
  /\ route \in Routes
  /\ closed = FALSE
  /\ listening = TRUE
  /\ loop = "accept"
  /\ tracked = {}
  /\ pc = [c \in Conns |-> "idle"]
  /\ sock = [c \in Conns |-> "none"]
  /\ via = [c \in Conns |-> NoRoute]
  /\ pump = [c \in Conns |-> {}]
  /\ gone = [c \in Conns |-> {}]
  /\ strayed = FALSE
  /\ call = [k \in Callers |-> "none"]
  /\ sweep = [k \in Callers |-> {}]

-----------------------------------------------------------------------------
(* The accept loop *)

Accept(c) ==
  /\ loop = "accept"
  /\ listening
  /\ pc[c] = "idle"
  /\ loop' = "track"
  /\ pc' = [pc EXCEPT ![c] = "accepted"]
  /\ sock' = [sock EXCEPT ![c] = "open"]
  /\ UNCHANGED <<open, route, closed, listening, tracked, via, pump, gone,
                 callVars>>

AcceptFails ==
  /\ loop = "accept"
  /\ ~listening
  /\ loop' = "ended"
  /\ UNCHANGED <<open, route, closed, listening, connVars, callVars>>

\* track(c) and, when it succeeds, the start of the handler.
Track(c) ==
  /\ pc[c] = "accepted"
  /\ IF closed
       THEN /\ sock' = [sock EXCEPT ![c] = "closed"]
            /\ pc' = [pc EXCEPT ![c] = "done"]
            /\ loop' = "ended"
            /\ UNCHANGED tracked
       ELSE /\ tracked' = tracked \cup {c}
            /\ pc' = [pc EXCEPT ![c] = "handshake"]
            /\ loop' = "accept"
            /\ UNCHANGED sock
  /\ UNCHANGED <<open, route, closed, listening, via, pump, gone, callVars>>

-----------------------------------------------------------------------------
(* The handler of a connection *)

Move(c, to) == pc' = [pc EXCEPT ![c] = to]

\* negotiate, the request head and readTarget succeed on a CONNECT.
Handshake(c) ==
  /\ pc[c] = "handshake"
  /\ sock[c] = "open"
  /\ Move(c, "request")
  /\ UNCHANGED <<open, route, closed, listening, loop, tracked, sock, via,
                 pump, gone, callVars>>

\* Wrong version, method, address type or command, a read error, the deadline.
HandshakeFails(c) ==
  /\ pc[c] = "handshake"
  /\ Move(c, "unwind")
  /\ UNCHANGED <<open, route, closed, listening, loop, tracked, sock, via,
                 pump, gone, callVars>>

\* Mutant of CheckRefuse: the gate is not asked.
CheckNothing(c) ==
  /\ pc[c] = "request"
  /\ Move(c, "admitted")
  /\ UNCHANGED <<open, route, closed, listening, loop, tracked, sock, via,
                 pump, gone, callVars>>

\* s.Refuse(): one atomic load of Gate.open decides.
CheckRefuse(c) ==
  /\ pc[c] = "request"
  /\ Move(c, IF open THEN "admitted" ELSE "unwind")
  /\ UNCHANGED <<open, route, closed, listening, loop, tracked, sock, via,
                 pump, gone, callVars>>

\* The Dial closure reads g.route under g.mu, then dials without the lock.
ReadRoute(c) ==
  /\ pc[c] = "admitted"
  /\ via' = [via EXCEPT ![c] = route]
  /\ Move(c, "dialing")
  /\ UNCHANGED <<open, route, closed, listening, loop, tracked, sock, pump,
                 gone, callVars>>

Dial(c) ==
  /\ pc[c] = "dialing"
  /\ Move(c, "dialed") \/ Move(c, "unwind")
  /\ UNCHANGED <<open, route, closed, listening, loop, tracked, sock, via,
                 pump, gone, callVars>>

\* Writing the success reply fails on a socket we closed and may fail on one
\* the client closed; otherwise both copies start.
Reply(c) ==
  /\ pc[c] = "dialed"
  /\ \/ /\ sock[c] = "open"
        /\ Move(c, "piping")
        /\ pump' = [pump EXCEPT ![c] = {"up", "down"}]
     \/ /\ sock[c] = "closed" \/ "client" \in gone[c]
        /\ Move(c, "unwind")
        /\ UNCHANGED pump
  /\ UNCHANGED <<open, route, closed, listening, loop, tracked, sock, via,
                 gone, callVars>>

\* Mutant of SourceGone: a copy does not notice that we closed the client.
SourceGoneByPeer(c, dir) == (IF dir = "up" THEN "client" ELSE "far") \in gone[c]

\* The end a copy reads from ("up" reads the client, "down" the far end) is
\* closed: by us, for the client's, or by its peer.
SourceGone(c, dir) ==
  IF dir = "up" THEN sock[c] = "closed" \/ "client" \in gone[c]
                ELSE "far" \in gone[c]

Other(dir) == IF dir = "up" THEN "down" ELSE "up"

\* io.Copy is parked in a read; it returns when the end it reads closes ...
CopyEnds(c, dir) ==
  /\ pc[c] = "piping"
  /\ dir \in pump[c]
  /\ SourceGone(c, dir)
  /\ pump' = [pump EXCEPT ![c] = @ \ {dir}]
  /\ UNCHANGED <<open, route, closed, listening, loop, tracked, pc, sock, via,
                 gone, callVars>>

\* ... or when that end sends something the other one can no longer take.
WriteFails(c, dir) ==
  /\ pc[c] = "piping"
  /\ dir \in pump[c]
  /\ ~SourceGone(c, dir)
  /\ SourceGone(c, Other(dir))
  /\ pump' = [pump EXCEPT ![c] = @ \ {dir}]
  /\ UNCHANGED <<open, route, closed, listening, loop, tracked, pc, sock, via,
                 gone, callVars>>

\* wg.Wait in pipe; the deferred upstream.Close.
PipeReturns(c) ==
  /\ pc[c] = "piping"
  /\ pump[c] = {}
  /\ Move(c, "unwind")
  /\ UNCHANGED <<open, route, closed, listening, loop, tracked, sock, via,
                 pump, gone, callVars>>

\* untrack: the map entry goes first, under the lock ...
Untrack(c) ==
  /\ pc[c] = "unwind"
  /\ tracked' = tracked \ {c}
  /\ Move(c, "untracked")
  /\ UNCHANGED <<open, route, closed, listening, loop, sock, via, pump, gone,
                 callVars>>

\* ... and the socket afterwards, outside it; the handler's locals die.
CloseClient(c) ==
  /\ pc[c] = "untracked"
  /\ sock' = [sock EXCEPT ![c] = "closed"]
  /\ via' = [via EXCEPT ![c] = NoRoute]
  /\ gone' = [gone EXCEPT ![c] = {}]
  /\ Move(c, "done")
  /\ UNCHANGED <<open, route, closed, listening, loop, tracked, pump, callVars>>

-----------------------------------------------------------------------------
(* The remote ends (external) *)

\* An end that closes earlier is noticed here: the handler looks at neither
\* before the dial, except that a read fails (HandshakeFails).
RemoteCloses(c, end) ==
  /\ pc[c] \in {"dialed", "piping"}
  /\ end \notin gone[c]
  /\ gone' = [gone EXCEPT ![c] = @ \cup {end}]
  /\ UNCHANGED <<open, route, closed, listening, loop, tracked, pc, sock, via,
                 pump, callVars>>

-----------------------------------------------------------------------------
(* The gate's owner *)

Open ==
  /\ open' = TRUE
  /\ UNCHANGED <<route, closed, listening, loop, connVars, callVars>>

SetRoute(r) ==
  /\ route' = r
  /\ strayed' = (strayed \/ open \/ ~Quiet)
  /\ UNCHANGED <<open, closed, listening, loop, connVars, call, sweep>>

At(k, from, to) ==
  /\ call[k] = from
  /\ call' = [call EXCEPT ![k] = to]

\* Close: open.Store(false), then CloseConnections.
CloseStore(k) ==
  /\ At(k, "none", "stored")
  /\ open' = FALSE
  /\ UNCHANGED <<route, closed, listening, loop, connVars, strayed,
                 sweep>>

\* Mutant of Snapshot: only established tunnels are swept.
SnapshotPipes(k) ==
  /\ At(k, "stored", "sweeping") \/ At(k, "sdUnlistened", "sdSweeping")
  /\ sweep' = [sweep EXCEPT ![k] = {c \in tracked : pc[c] = "piping"}]
  /\ UNCHANGED <<open, route, closed, listening, loop, connVars, strayed>>

\* CloseConnections copies Server.conns under the lock ...
Snapshot(k) ==
  /\ At(k, "stored", "sweeping") \/ At(k, "sdUnlistened", "sdSweeping")
  /\ sweep' = [sweep EXCEPT ![k] = tracked]
  /\ UNCHANGED <<open, route, closed, listening, loop, connVars, strayed>>

\* ... and closes the copies one by one outside it.
CloseOne(k, c) ==
  /\ call[k] \in {"sweeping", "sdSweeping"}
  /\ c \in sweep[k]
  /\ sweep' = [sweep EXCEPT ![k] = @ \ {c}]
  /\ sock' = [sock EXCEPT ![c] = "closed"]
  /\ UNCHANGED <<open, route, closed, listening, loop, tracked, pc, via, pump,
                 gone, strayed, call>>

CloseReturns(k) ==
  /\ sweep[k] = {}
  /\ At(k, "sweeping", "none") \/ At(k, "sdSweeping", "sdWaitLoop")
  /\ UNCHANGED <<open, route, closed, listening, loop, connVars, strayed,
                 sweep>>

\* Shutdown: open.Store(false), then Server.Close.
ShutdownStore(k) ==
  /\ At(k, "none", "sdStored")
  /\ open' = FALSE
  /\ UNCHANGED <<route, closed, listening, loop, connVars, strayed,
                 sweep>>

\* The first caller marks the server closed; a later one returns at once.
ShutdownMark(k) ==
  /\ At(k, "sdStored", IF closed THEN "none" ELSE "sdMarked")
  /\ closed' = TRUE
  /\ UNCHANGED <<open, route, listening, loop, connVars, strayed,
                 sweep>>

ShutdownUnlisten(k) ==
  /\ At(k, "sdMarked", "sdUnlistened")
  /\ listening' = FALSE
  /\ UNCHANGED <<open, route, closed, loop, connVars, strayed,
                 sweep>>

\* Mutant of ShutdownWaits: only the accept loop is waited for.
ShutdownWaitsLoop(k) ==
  /\ At(k, "sdWaitLoop", "none")
  /\ loop = "ended"
  /\ UNCHANGED <<open, route, closed, listening, loop, connVars, strayed, sweep>>

\* listenWG.Wait, then wg.Wait.
ShutdownWaits(k) ==
  /\ \/ At(k, "sdWaitLoop", "sdWaitHandlers") /\ loop = "ended"
     \/ At(k, "sdWaitHandlers", "none") /\ \A c \in Conns : ~Running(c)
  /\ UNCHANGED <<open, route, closed, listening, loop, connVars, strayed,
                 sweep>>

-----------------------------------------------------------------------------
Handler(c) ==
  \/ Handshake(c) \/ HandshakeFails(c) \/ CheckRefuse(c) \/ ReadRoute(c)
  \/ Dial(c) \/ Reply(c) \/ (\E dir \in {"up", "down"} : CopyEnds(c, dir))
  \/ PipeReturns(c) \/ Untrack(c) \/ CloseClient(c)

Caller(k) ==
  \/ Snapshot(k) \/ CloseReturns(k) \/ ShutdownMark(k) \/ ShutdownUnlisten(k)
  \/ ShutdownWaits(k) \/ \E c \in Conns : CloseOne(k, c)

Next ==
  \/ \E c \in Conns : Accept(c) \/ Track(c) \/ Handler(c)
  \/ \E c \in Conns, dir \in {"up", "down"} : WriteFails(c, dir)
  \/ AcceptFails
  \/ \E c \in Conns, end \in {"client", "far"} : RemoteCloses(c, end)
  \/ Open
  \/ \E r \in Routes : SetRoute(r)
  \/ \E k \in Callers : CloseStore(k) \/ ShutdownStore(k) \/ Caller(k)

Spec == Init /\ [][Next]_vars

(***************************************************************************)
(* Goroutines that can run do run: the handlers (their reads and dials are *)
(* bounded by the 15 s deadline), the accept loop and whoever is inside    *)
(* Close or Shutdown.  Nothing is assumed of the remote ends, nor that     *)
(* anybody calls Open, Close, Shutdown or SetRoute.                        *)
(***************************************************************************)
Fairness ==
  /\ \A c \in Conns : WF_vars(Track(c)) /\ WF_vars(Handler(c))
  /\ WF_vars(AcceptFails)
  /\ \A k \in Callers : WF_vars(Caller(k))

FairSpec == Spec /\ Fairness

-----------------------------------------------------------------------------
(* Properties *)

\* Types of the state of gate.go's Gate and server.go's Server.
TypeOK ==
  /\ open \in BOOLEAN
  /\ route \in Routes
  /\ closed \in BOOLEAN
  /\ listening \in BOOLEAN
  /\ loop \in {"accept", "track", "ended"}
  /\ tracked \in SUBSET Conns
  /\ pc \in [Conns -> PCs]
  /\ sock \in [Conns -> {"none", "open", "closed"}]
  /\ via \in [Conns -> Routes \cup {NoRoute}]
  /\ pump \in [Conns -> SUBSET {"up", "down"}]
  /\ gone \in [Conns -> SUBSET {"client", "far"}]
  /\ strayed \in BOOLEAN
  /\ call \in [Callers -> Calls]
  /\ sweep \in [Callers -> SUBSET Conns]

\* "Close refuses new requests and terminates all live tunnels" (gate.go:100):
\* once the gate is not open and no Close or Shutdown is still running, no
\* connection that passed the Refuse check has an open client socket, however
\* Refuse, track, the snapshot and a concurrent Open interleaved.
ClosedGateCarriesNothing ==
  (~open /\ Quiet) => \A c \in Conns : ~Live(c)

\* Server.Close (server.go:135-153): once the one caller that did the work is
\* back, the loop has ended, every handler is gone and nothing is tracked, so
\* nothing the loop accepted late was left behind.
ShutdownLeavesNothing ==
  (closed /\ Quiet) =>
    /\ ~listening /\ loop = "ended" /\ tracked = {}
    /\ \A c \in Conns : pc[c] \in {"idle", "done"} /\ sock[c] # "open"

\* SetRoute (gate.go:89-95) asks that the gate be CLOSED meanwhile.  If every
\* caller does as it asks, no live tunnel runs over a route that was replaced,
\* though a handler reads g.route an arbitrary time after it was admitted.
LiveTunnelsUseTheRoute ==
  ~strayed => \A c \in Conns : Live(c) => via[c] \in {route, NoRoute}

\* The gate seen through its contract: Admit is the Refuse check, a caller
\* inside Close or Shutdown is CLOSING, the browser's view of a tunnel is
\* what counts as live (gate.go:26-28).
Contract == INSTANCE GateContract WITH
  mode <- IF open THEN "OPEN" ELSE IF Quiet THEN "CLOSED" ELSE "CLOSING",
  live <- {c \in Conns : Live(c)}

ContractSpec == Contract!Spec

\* Only the far end can keep this handler: its client is cut off and the copy
\* towards the far end has ended, the copy from the far end waits for it.
WaitsOnFarEnd(c) ==
  pc[c] = "piping" /\ pump[c] = {"down"} /\ "far" \notin gone[c]

\* Shutdown returns (abort and so `tab-router stop` wait for it,
\* session.go:640) unless a far end keeps a handler.
ShutdownReturns ==
  \A k \in Callers :
    (call[k] \in ShutCalls) ~>
      (call[k] = "none" \/ \E c \in Conns : WaitsOnFarEnd(c))
=============================================================================
