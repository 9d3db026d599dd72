----------------------------- MODULE GateProofs -----------------------------
(***************************************************************************)
(* Proofs about Gate for any set of connections, routes and callers.       *)
(*                                                                         *)
(* ClosedGateCarriesNothing is not inductive: while a caller is inside     *)
(* Close, admitted connections are still live.  What holds in every state  *)
(* is Covered: a live connection of a gate that is not open is on the list *)
(* of somebody who will close it, or somebody has yet to draw up a list    *)
(* that must contain it.  That in turn needs to know which connections are *)
(* tracked (Placement), who may own a list (Lists), and why a second       *)
(* Shutdown may return early without closing anything (Marked).            *)
(***************************************************************************)
EXTENDS Supervision, TLAPS

Placement ==
  \A c \in Conns :
    /\ c \in tracked <=> pc[c] \in {"handshake", "request", "admitted",
                                    "dialing", "dialed", "piping", "unwind"}
    /\ pc[c] = "idle" => sock[c] = "none"
    /\ pc[c] = "done" => sock[c] = "closed"
    /\ pc[c] \in {"idle", "accepted", "handshake", "request", "admitted"}
         => via[c] = NoRoute

Loop ==
  /\ \A c \in Conns : pc[c] = "accepted" => loop = "track"
  /\ \A c, d \in Conns : pc[c] = "accepted" /\ pc[d] = "accepted" => c = d

Lists ==
  \A k \in Callers :
    /\ sweep[k] # {} => call[k] \in {"sweeping", "sdSweeping"}
    /\ \A c \in sweep[k] : pc[c] \notin {"idle", "accepted"}

Listed(c) == \E k \in Callers : c \in sweep[k]

Covered ==
  \A c \in Conns :
    Live(c) => \/ open
               \/ \E k \in Callers : WillSnapshot(k) \/ call[k] = "sdStored"
               \/ Listed(c)

Marked ==
  closed => \/ \E k \in Callers : call[k] \in {"sdMarked", "sdUnlistened"}
            \/ \A c \in tracked : sock[c] = "closed" \/ Listed(c)

\* The caller of Shutdown that found the server not yet closed.
Worker(k) == call[k] \in ShutCalls \ {"sdStored"}

Finished ==
  /\ ~listening /\ loop = "ended" /\ tracked = {}
  /\ \A c \in Conns : pc[c] \in {"idle", "done"}

Workers ==
  /\ closed => (\E k \in Callers : Worker(k)) \/ Finished
  /\ \A k \in Callers : Worker(k) => call[k] = "sdMarked" \/ ~listening
  /\ \A k \in Callers : call[k] = "sdWaitHandlers" => loop = "ended"

IInv ==
  /\ TypeOK
  /\ Placement
  /\ Loop
  /\ Lists
  /\ Covered
  /\ Marked
  /\ Workers
  /\ LiveTunnelsUseTheRoute

-----------------------------------------------------------------------------
\* Every state Init allows satisfies the inductive invariant.
LEMMA InitInv == Init => IInv
  <1> SUFFICES ASSUME Init PROVE IInv
    OBVIOUS
  <1> USE RoutesAssumption DEF Init
  <1>1. TypeOK
    BY DEF TypeOK, PCs, Calls
  <1>2. Placement /\ Loop
    BY DEF Placement, Loop
  <1>3. Lists
    BY DEF Lists
  <1>4. Covered /\ LiveTunnelsUseTheRoute
    BY DEF Covered, LiveTunnelsUseTheRoute, Live, Admitted
  <1>5. Marked
    BY DEF Marked
  <1>6. Workers
    BY DEF Workers, Worker, ShutCalls
  <1> QED
    BY <1>1, <1>2, <1>3, <1>4, <1>5, <1>6 DEF IInv

\* Every step of the gate, the handlers, the callers and the remote ends
\* keeps it.
LEMMA StepInv == IInv /\ [Next]_vars => IInv'
  <1> SUFFICES ASSUME IInv, [Next]_vars PROVE IInv'
    OBVIOUS
  <1> USE RoutesAssumption
      DEF IInv, TypeOK, PCs, Calls, CloseCalls, ShutCalls, Placement, Loop,
          Lists, Listed, Covered, Marked, Workers, Worker, Finished,
          LiveTunnelsUseTheRoute, Live, Admitted, Running, WillSnapshot,
          Quiet, connVars, callVars, Move, At
  <1>1. ASSUME NEW c \in Conns, Accept(c) PROVE IInv'
    BY <1>1 DEF Accept
  <1>2. ASSUME NEW c \in Conns, Track(c) PROVE IInv'
    BY <1>2 DEF Track
  <1>3. ASSUME NEW c \in Conns, Handshake(c) PROVE IInv'
    BY <1>3 DEF Handshake
  <1>4. ASSUME NEW c \in Conns, HandshakeFails(c) PROVE IInv'
    BY <1>4 DEF HandshakeFails
  <1>5. ASSUME NEW c \in Conns, CheckRefuse(c) PROVE IInv'
    BY <1>5 DEF CheckRefuse
  <1>6. ASSUME NEW c \in Conns, ReadRoute(c) PROVE IInv'
    BY <1>6 DEF ReadRoute
  <1>7. ASSUME NEW c \in Conns, Dial(c) PROVE IInv'
    BY <1>7 DEF Dial
  <1>8. ASSUME NEW c \in Conns, Reply(c) PROVE IInv'
    BY <1>8 DEF Reply
  <1>9. ASSUME NEW c \in Conns, NEW dir \in {"up", "down"}, CopyEnds(c, dir) PROVE IInv'
    BY <1>9 DEF CopyEnds
  <1>10. ASSUME NEW c \in Conns, PipeReturns(c) PROVE IInv'
    BY <1>10 DEF PipeReturns
  <1>11. ASSUME NEW c \in Conns, Untrack(c) PROVE IInv'
    BY <1>11 DEF Untrack
  <1>12. ASSUME NEW c \in Conns, CloseClient(c) PROVE IInv'
    BY <1>12 DEF CloseClient
  <1>13. ASSUME NEW c \in Conns, NEW dir \in {"up", "down"}, WriteFails(c, dir) PROVE IInv'
    BY <1>13 DEF WriteFails
  <1>14. CASE AcceptFails
    BY <1>14 DEF AcceptFails
  <1>15. ASSUME NEW c \in Conns, NEW end \in {"client", "far"}, RemoteCloses(c, end) PROVE IInv'
    BY <1>15 DEF RemoteCloses
  <1>16. CASE Open
    BY <1>16 DEF Open
  <1>17. ASSUME NEW r \in Routes, SetRoute(r) PROVE IInv'
    <2>1. TypeOK'
      BY <1>17 DEF SetRoute
    <2>2. Placement'
      BY <1>17 DEF SetRoute
    <2>3. Loop'
      BY <1>17 DEF SetRoute
    <2>4. Lists'
      BY <1>17 DEF SetRoute
    <2>5. Covered'
      BY <1>17 DEF SetRoute
    <2>6. Marked'
      BY <1>17 DEF SetRoute
    <2>7. Workers'
      BY <1>17 DEF SetRoute
    <2>8. LiveTunnelsUseTheRoute'
      BY <1>17 DEF SetRoute
    <2> QED
      BY <2>1, <2>2, <2>3, <2>4, <2>5, <2>6, <2>7, <2>8
  <1>18. ASSUME NEW k \in Callers, CloseStore(k) PROVE IInv'
    <2>1. TypeOK'
      BY <1>18 DEF CloseStore
    <2>2. Placement'
      BY <1>18 DEF CloseStore
    <2>3. Loop'
      BY <1>18 DEF CloseStore
    <2>4. Lists'
      BY <1>18 DEF CloseStore
    <2>5. Covered'
      BY <1>18 DEF CloseStore
    <2>6. Marked'
      BY <1>18 DEF CloseStore
    <2>7. Workers'
      BY <1>18 DEF CloseStore
    <2>8. LiveTunnelsUseTheRoute'
      BY <1>18 DEF CloseStore
    <2> QED
      BY <2>1, <2>2, <2>3, <2>4, <2>5, <2>6, <2>7, <2>8
  <1>19. ASSUME NEW k \in Callers, ShutdownStore(k) PROVE IInv'
    <2>1. TypeOK'
      BY <1>19 DEF ShutdownStore
    <2>2. Placement'
      BY <1>19 DEF ShutdownStore
    <2>3. Loop'
      BY <1>19 DEF ShutdownStore
    <2>4. Lists'
      BY <1>19 DEF ShutdownStore
    <2>5. Covered'
      BY <1>19 DEF ShutdownStore
    <2>6. Marked'
      BY <1>19 DEF ShutdownStore
    <2>7. Workers'
      BY <1>19 DEF ShutdownStore
    <2>8. LiveTunnelsUseTheRoute'
      BY <1>19 DEF ShutdownStore
    <2> QED
      BY <2>1, <2>2, <2>3, <2>4, <2>5, <2>6, <2>7, <2>8
  <1>20. ASSUME NEW k \in Callers, Snapshot(k) PROVE IInv'
    BY <1>20 DEF Snapshot
  <1>21. ASSUME NEW k \in Callers, CloseReturns(k) PROVE IInv'
    BY <1>21 DEF CloseReturns
  <1>22. ASSUME NEW k \in Callers, ShutdownMark(k) PROVE IInv'
    BY <1>22 DEF ShutdownMark
  <1>23. ASSUME NEW k \in Callers, ShutdownUnlisten(k) PROVE IInv'
    <2>1. TypeOK'
      BY <1>23 DEF ShutdownUnlisten
    <2>2. Placement'
      BY <1>23 DEF ShutdownUnlisten
    <2>3. Loop'
      BY <1>23 DEF ShutdownUnlisten
    <2>4. Lists'
      BY <1>23 DEF ShutdownUnlisten
    <2>5. Covered'
      BY <1>23 DEF ShutdownUnlisten
    <2>6. Marked'
      BY <1>23 DEF ShutdownUnlisten
    <2>7. Workers'
      BY <1>23 DEF ShutdownUnlisten
    <2>8. LiveTunnelsUseTheRoute'
      BY <1>23 DEF ShutdownUnlisten
    <2> QED
      BY <2>1, <2>2, <2>3, <2>4, <2>5, <2>6, <2>7, <2>8
  <1>24. ASSUME NEW k \in Callers, ShutdownWaits(k) PROVE IInv'
    BY <1>24 DEF ShutdownWaits
  <1>25. ASSUME NEW k \in Callers, NEW c \in Conns, CloseOne(k, c) PROVE IInv'
    <2>1. TypeOK'
      BY <1>25 DEF CloseOne
    <2>2. Placement'
      BY <1>25 DEF CloseOne
    <2>3. Loop'
      BY <1>25 DEF CloseOne
    <2>4. Lists'
      BY <1>25 DEF CloseOne
    <2>5. Covered'
      BY <1>25 DEF CloseOne
    <2>6. Marked'
      BY <1>25 DEF CloseOne
    <2>7. Workers'
      BY <1>25 DEF CloseOne
    <2>8. LiveTunnelsUseTheRoute'
      BY <1>25 DEF CloseOne
    <2> QED
      BY <2>1, <2>2, <2>3, <2>4, <2>5, <2>6, <2>7, <2>8
  <1>26. CASE UNCHANGED vars
    BY <1>26 DEF vars
  <1> HIDE DEF IInv, TypeOK, PCs, Calls, CloseCalls, ShutCalls, Placement, Loop,
          Lists, Listed, Covered, Marked, Workers, Worker, Finished,
          LiveTunnelsUseTheRoute, Live, Admitted, Running, WillSnapshot,
          Quiet, connVars, callVars, Move, At
  <1> QED
    BY <1>1, <1>2, <1>3, <1>4, <1>5, <1>6, <1>7, <1>8, <1>9, <1>10, <1>11,
       <1>12, <1>13, <1>14, <1>15, <1>16, <1>17, <1>18, <1>19, <1>20,
       <1>21, <1>22, <1>23, <1>24, <1>25, <1>26
    DEF Next, Handler, Caller

\* The inductive invariant holds in every reachable state of the gate.
THEOREM Invariance == Spec => []IInv
  BY InitInv, StepInv, PTL DEF Spec

\* The state of gate.go and server.go keeps its types.
THEOREM TypeCorrect == Spec => []TypeOK
  <1>1. IInv => TypeOK
    BY DEF IInv
  <1> QED
    BY <1>1, Invariance, PTL

-----------------------------------------------------------------------------
\* A gate that is not open and that nobody is closing has no live connection.
LEMMA QuietIsDead ==
  ASSUME IInv, ~open, Quiet, NEW c \in Conns
  PROVE  ~Live(c)
  BY DEF IInv, Covered, Listed, Lists, Quiet, WillSnapshot

\* gate.go:100, "Close refuses new requests and terminates all live tunnels",
\* for any number of connections, concurrent closers and re-openers.
THEOREM CloseIsEffective == Spec => []ClosedGateCarriesNothing
  <1>1. IInv => ClosedGateCarriesNothing
    BY QuietIsDead DEF ClosedGateCarriesNothing
  <1> QED
    BY <1>1, Invariance, PTL

\* server.go:135-153, Server.Close stops the listener and closes all
\* connections: when it is back nothing of the server is left.
THEOREM ShutdownIsComplete == Spec => []ShutdownLeavesNothing
  <1>1. ASSUME IInv, closed, Quiet
        PROVE  Finished /\ \A c \in Conns : sock[c] # "open"
    <2>1. \A k \in Callers : ~Worker(k)
      BY <1>1 DEF Quiet, Worker, ShutCalls
    <2>2. Finished
      BY <1>1, <2>1 DEF IInv, Workers
    <2> QED
      BY <1>1, <2>2 DEF IInv, Placement, Finished
  <1>2. IInv => ShutdownLeavesNothing
    BY <1>1 DEF ShutdownLeavesNothing, Finished
  <1> QED
    BY <1>2, Invariance, PTL

\* The first caller of Shutdown does the work, and alone.
OneWorker ==
  /\ \A j, k \in Callers : Worker(j) /\ Worker(k) => j = k
  /\ \A k \in Callers : Worker(k) => closed

\* closed is set by the one who becomes the worker, and is never taken back.
LEMMA OneWorkerKeeps == IInv /\ OneWorker /\ [Next]_vars => OneWorker'
  <1> SUFFICES ASSUME IInv, OneWorker, [Next]_vars
               PROVE  OneWorker'
    OBVIOUS
  <1>0. call \in [Callers -> Calls]
    BY DEF IInv, TypeOK
  <1>1. ASSUME UNCHANGED <<call, closed>>
        PROVE  OneWorker'
    BY <1>1 DEF OneWorker, Worker
  <1>2. ASSUME NEW k \in Callers, ShutdownMark(k)
        PROVE  OneWorker'
    BY <1>2, <1>0 DEF OneWorker, Worker, ShutdownMark, At, ShutCalls
  <1>3. ASSUME NEW k \in Callers,
               \/ CloseStore(k) \/ ShutdownStore(k) \/ Snapshot(k) \/ CloseReturns(k)
               \/ ShutdownUnlisten(k) \/ ShutdownWaits(k)
        PROVE  OneWorker'
    <2>1. /\ closed' = closed /\ \A j \in Callers \ {k} : call'[j] = call[j]
          /\ Worker(k)' => Worker(k)
      BY <1>3, <1>0 DEF CloseStore, ShutdownStore, Snapshot, CloseReturns, ShutdownUnlisten,
         ShutdownWaits, At, Worker, ShutCalls
    <2>2. \A j \in Callers : Worker(j)' => Worker(j)
      BY <2>1 DEF Worker
    <2> QED
      BY <2>1, <2>2 DEF OneWorker
  <1>4. ASSUME NEW k \in Callers, NEW c \in Conns, CloseOne(k, c)
        PROVE  UNCHANGED <<call, closed>>
    BY <1>4 DEF CloseOne
  <1>5. ASSUME NEW c \in Conns, Accept(c) \/ Track(c) \/ Handler(c)
        PROVE  UNCHANGED <<call, closed>>
    BY <1>5 DEF Accept, Track, Handler, Handshake, HandshakeFails, CheckRefuse, ReadRoute,
       Dial, Reply, CopyEnds, PipeReturns, Untrack, CloseClient, callVars
  <1>6. ASSUME NEW c \in Conns, NEW dir, WriteFails(c, dir) \/ RemoteCloses(c, dir)
        PROVE  UNCHANGED <<call, closed>>
    BY <1>6 DEF WriteFails, RemoteCloses, callVars
  <1>7. ASSUME NEW r \in Routes, AcceptFails \/ Open \/ SetRoute(r)
        PROVE  UNCHANGED <<call, closed>>
    BY <1>7 DEF AcceptFails, Open, SetRoute, callVars
  <1>8. ASSUME UNCHANGED vars
        PROVE  UNCHANGED <<call, closed>>
    BY <1>8 DEF vars, callVars
  <1> QED
    BY <1>1, <1>2, <1>3, <1>4, <1>5, <1>6, <1>7, <1>8, RoutesAssumption DEF Next, Caller

\* The safety half of ShutdownReturns (server.go:135-153): a Shutdown that waits for
\* its goroutines has closed the client side of every connection that is left, or a
\* Close beside it is about to.  It waits for nobody that was not told.
Told ==
  \A k \in Callers : call[k] \in {"sdWaitLoop", "sdWaitHandlers"} =>
    \A c \in tracked : sock[c] = "closed"
                        \/ \E j \in Callers : call[j] = "sweeping" /\ c \in sweep[j]

\* Server.Close is carried out by one caller, and waits only for connections that
\* have been closed under it.
THEOREM ShutdownWaitsForTheClosed == Spec => [](OneWorker /\ Told)
  <1>1. Init => OneWorker
    BY DEF Init, OneWorker, Worker, ShutCalls
  <1>2. ASSUME IInv, OneWorker, NEW k \in Callers, NEW c \in tracked,
               call[k] \in {"sdWaitLoop", "sdWaitHandlers"}, sock[c] # "closed"
        PROVE  \E j \in Callers : call[j] = "sweeping" /\ c \in sweep[j]
    <2>1. Worker(k)
      BY <1>2 DEF Worker, ShutCalls
    <2>2. closed /\ \A j \in Callers : Worker(j) => j = k
      BY <2>1, <1>2 DEF OneWorker
    <2>3. \A j \in Callers : call[j] \notin {"sdMarked", "sdUnlistened", "sdSweeping"}
      BY <2>2, <1>2 DEF Worker, ShutCalls
    <2>4. Listed(c)
      BY <2>2, <2>3, <1>2 DEF IInv, Marked
    <2>5. PICK j \in Callers : c \in sweep[j]
      BY <2>4 DEF Listed
    <2>6. call[j] = "sweeping"
      BY <2>3, <2>5, <1>2 DEF IInv, Lists
    <2> QED
      BY <2>5, <2>6
  <1>3. IInv /\ OneWorker => Told
    BY <1>2 DEF Told
  <1> QED
    BY <1>1, <1>3, Invariance, OneWorkerKeeps, PTL DEF Spec

\* gate.go:89-95: if SetRoute is only called on a closed gate, live tunnels
\* run over the current route.
THEOREM NoTunnelOnAReplacedRoute == Spec => []LiveTunnelsUseTheRoute
  <1>1. IInv => LiveTunnelsUseTheRoute
    BY DEF IInv
  <1> QED
    BY <1>1, Invariance, PTL

-----------------------------------------------------------------------------
(* The gate implements its contract *)

Mode == IF open THEN "OPEN" ELSE IF Quiet THEN "CLOSED" ELSE "CLOSING"

LiveSet == {c \in Conns : Live(c)}

\* What a step does to the mapped variables: nothing, or one contract step.
Mapped ==
  \/ UNCHANGED <<Mode, LiveSet>>
  \/ Mode = "OPEN" /\ UNCHANGED Mode /\ \E c \in Conns : c \notin LiveSet /\ LiveSet' = LiveSet \cup {c}
  \/ UNCHANGED Mode /\ \E c \in Conns : c \in LiveSet /\ LiveSet' = LiveSet \ {c}
  \/ Mode' = "CLOSING" /\ UNCHANGED LiveSet
  \/ Mode = "CLOSING" /\ LiveSet = {} /\ Mode' = "CLOSED" /\ UNCHANGED LiveSet
  \/ Mode' = "OPEN" /\ UNCHANGED LiveSet

\* A step of the gate is a step of its contract or leaves it alone.
LEMMA StepMapped == IInv /\ IInv' /\ [Next]_vars => Mapped
  <1> SUFFICES ASSUME IInv, IInv', [Next]_vars PROVE Mapped
    OBVIOUS
  <1> USE DEF Mapped, Mode, LiveSet, Live, Admitted, Quiet, connVars, callVars,
          Move, At, IInv, TypeOK, PCs, Calls, CloseCalls, ShutCalls
  <1>0. ~open' /\ Quiet' => LiveSet' = {}
    BY DEF Covered, Listed, Lists, WillSnapshot
  <1>1. ASSUME NEW c \in Conns, Accept(c) PROVE Mapped
    BY <1>1 DEF Accept
  <1>2. ASSUME NEW c \in Conns, Track(c) PROVE Mapped
    BY <1>2 DEF Track
  <1>3. ASSUME NEW c \in Conns, Handshake(c) PROVE Mapped
    BY <1>3 DEF Handshake
  <1>4. ASSUME NEW c \in Conns, HandshakeFails(c) PROVE Mapped
    BY <1>4 DEF HandshakeFails
  <1>5. ASSUME NEW c \in Conns, CheckRefuse(c) PROVE Mapped
    BY <1>5 DEF CheckRefuse
  <1>6. ASSUME NEW c \in Conns, ReadRoute(c) PROVE Mapped
    BY <1>6 DEF ReadRoute
  <1>7. ASSUME NEW c \in Conns, Dial(c) PROVE Mapped
    BY <1>7 DEF Dial
  <1>8. ASSUME NEW c \in Conns, Reply(c) PROVE Mapped
    BY <1>8 DEF Reply
  <1>9. ASSUME NEW c \in Conns, NEW dir \in {"up", "down"}, CopyEnds(c, dir) PROVE Mapped
    BY <1>9 DEF CopyEnds
  <1>10. ASSUME NEW c \in Conns, PipeReturns(c) PROVE Mapped
    BY <1>10 DEF PipeReturns
  <1>11. ASSUME NEW c \in Conns, Untrack(c) PROVE Mapped
    BY <1>11 DEF Untrack
  <1>12. ASSUME NEW c \in Conns, CloseClient(c) PROVE Mapped
    BY <1>12 DEF CloseClient
  <1>13. ASSUME NEW c \in Conns, NEW dir \in {"up", "down"}, WriteFails(c, dir) PROVE Mapped
    BY <1>13 DEF WriteFails
  <1>14. CASE AcceptFails
    BY <1>14 DEF AcceptFails
  <1>15. ASSUME NEW c \in Conns, NEW end \in {"client", "far"}, RemoteCloses(c, end) PROVE Mapped
    BY <1>15 DEF RemoteCloses
  <1>16. CASE Open
    BY <1>16 DEF Open
  <1>17. ASSUME NEW r \in Routes, SetRoute(r) PROVE Mapped
    BY <1>17 DEF SetRoute
  <1>18. ASSUME NEW k \in Callers, CloseStore(k) PROVE Mapped
    BY <1>18 DEF CloseStore
  <1>19. ASSUME NEW k \in Callers, ShutdownStore(k) PROVE Mapped
    BY <1>19 DEF ShutdownStore
  <1>20. ASSUME NEW k \in Callers, Snapshot(k) PROVE Mapped
    BY <1>20 DEF Snapshot
  <1>21. ASSUME NEW k \in Callers, CloseReturns(k) PROVE Mapped
    <2>1. UNCHANGED LiveSet /\ open' = open /\ ~Quiet
      BY <1>21 DEF CloseReturns
    <2>2. Mode' = Mode \/ (Mode = "CLOSING" /\ Mode' = "CLOSED" /\ LiveSet' = {})
      BY <2>1, <1>0
    <2> QED
      BY <2>1, <2>2
  <1>22. ASSUME NEW k \in Callers, ShutdownMark(k) PROVE Mapped
    <2>1. UNCHANGED LiveSet /\ open' = open /\ ~Quiet
      BY <1>22 DEF ShutdownMark
    <2>2. Mode' = Mode \/ (Mode = "CLOSING" /\ Mode' = "CLOSED" /\ LiveSet' = {})
      BY <2>1, <1>0
    <2> QED
      BY <2>1, <2>2
  <1>23. ASSUME NEW k \in Callers, ShutdownUnlisten(k) PROVE Mapped
    BY <1>23 DEF ShutdownUnlisten
  <1>24. ASSUME NEW k \in Callers, ShutdownWaits(k) PROVE Mapped
    <2>1. UNCHANGED LiveSet /\ open' = open /\ ~Quiet
      BY <1>24 DEF ShutdownWaits
    <2>2. Mode' = Mode \/ (Mode = "CLOSING" /\ Mode' = "CLOSED" /\ LiveSet' = {})
      BY <2>1, <1>0
    <2> QED
      BY <2>1, <2>2
  <1>25. ASSUME NEW k \in Callers, NEW c \in Conns, CloseOne(k, c) PROVE Mapped
    BY <1>25 DEF CloseOne
  <1>26. CASE UNCHANGED vars
    BY <1>26 DEF vars
  <1> HIDE DEF Mapped, IInv
  <1> QED
    BY <1>1, <1>2, <1>3, <1>4, <1>5, <1>6, <1>7, <1>8, <1>9, <1>10, <1>11,
       <1>12, <1>13, <1>14, <1>15, <1>16, <1>17, <1>18, <1>19, <1>20,
       <1>21, <1>22, <1>23, <1>24, <1>25, <1>26
    DEF Next, Handler, Caller

\* gate.go:26-28: the gate, its handlers and its callers together implement
\* the three-mode contract the rest of the program relies on.
THEOREM ImplementsContract == Spec => ContractSpec
  <1>1. Init => Contract!Init
    BY DEF Init, Contract!Init, Live, Admitted, Quiet
  <1>2. Mapped => [Contract!Next]_(Contract!vars)
    BY DEF Mapped, Mode, LiveSet, Contract!Next, Contract!vars, Contract!Admit,
           Contract!Drop, Contract!BeginClose, Contract!EndClose,
           Contract!Reopen
  <1> QED
    BY <1>1, <1>2, StepMapped, Invariance, PTL
    DEF Spec, ContractSpec, Contract!Spec

-----------------------------------------------------------------------------
(***************************************************************************)
(* The gate under the monitor.  Every step of Supervision is one of Gate,  *)
(* or leaves the gate alone, so IInv goes on holding.  Judged follows the  *)
(* monitor round its loop: an open gate and a route held to be down meet   *)
(* only between the flag and the Close.  Sealed makes of QuietIsDead what  *)
(* a refinement needs: nothing is live behind a gate that Runtime sees     *)
(* closed, also while a gate that was closed is being closed again.        *)
(***************************************************************************)

Watched ==
  /\ status \in {"VERIFYING", "READY", "DOWN"} /\ routeIP = Pin
  /\ down \in BOOLEAN /\ alive \in BOOLEAN /\ exited \in BOOLEAN /\ wasDown \in BOOLEAN
  /\ up \in BOOLEAN /\ wasOpen \in BOOLEAN /\ egress \in IPs
  /\ exit \in [Conns -> IPs \cup {NoIP}]
  /\ \A c \in Conns : pc[c] \in {"dialed", "piping"} => exit[c] \in IPs
  /\ cleared \subseteq Conns
  /\ \A c \in cleared :
       pc[c] \notin {"idle", "accepted", "handshake", "request", "admitted"}

\* The monitor calls Close and nothing else, at three places, and replaces the
\* route only between a Close and the next Open.
OneCaller ==
  /\ ~closed /\ ~strayed
  /\ call[Self] \in {"none", "stored", "sweeping"}
  /\ Closing => ~open /\ mon \in {"wait", "close", "again"}
  /\ Closing /\ mon = "wait" => ~alive /\ ~exited
  /\ mon \in {"again", "redial", "install"} => ~open

Judged ==
  /\ status = "DOWN" => down
  /\ down /\ mon \notin {"setDown", "close"} => ~open
  /\ mon \in {"setReady", "open"} => ~down
  /\ mon = "setDown" => down
  /\ mon = "install" => monIP \in IPs
  /\ mon \in {"ip", "judge"} => wasDown = down
  /\ mon = "judge" => status # "DOWN"

Sealed == ~GateSeen => \A c \in Conns : ~Live(c)

SInv == Watched /\ OneCaller /\ Judged /\ Sealed

\* Nobody is inside Close when the monitor is not.
LEMMA OnlySelf == Quiet <=> ~Closing
BY SupervisionAssumption DEF Quiet, Closing

\* With the gate that startup opened the invariant of the gate holds too.
LEMMA SupervisedInitInv == SupervisedInit => IInv /\ SInv
<1> SUFFICES ASSUME SupervisedInit PROVE IInv /\ SInv
  OBVIOUS
<1> USE RoutesAssumption, SupervisionAssumption DEF SupervisedInit
<1>1. TypeOK
  BY DEF TypeOK, PCs, Calls
<1>2. Placement /\ Loop
  BY DEF Placement, Loop
<1>3. Lists
  BY DEF Lists
<1>4. Covered /\ LiveTunnelsUseTheRoute
  BY DEF Covered, LiveTunnelsUseTheRoute, Live, Admitted
<1>5. Marked
  BY DEF Marked
<1>6. Workers
  BY DEF Workers, Worker, ShutCalls
<1>7. Watched
  BY DEF Watched
<1>8. OneCaller
  BY DEF OneCaller, Closing
<1>9. Judged /\ Sealed
  BY DEF Judged, Sealed, GateSeen
<1> QED
  BY <1>1, <1>2, <1>3, <1>4, <1>5, <1>6, <1>7, <1>8, <1>9 DEF IInv, SInv

\* A step of the composition is one of the gate, or none.
LEMMA StepOfTheGate == [SupervisedNext]_supervisedVars => [Next]_vars
<1> SUFFICES ASSUME [SupervisedNext]_supervisedVars PROVE [Next]_vars
  OBVIOUS
<1> USE SupervisionAssumption
<1>1. ASSUME NEW c \in Conns, DialChecks(c) PROVE UNCHANGED vars
  BY <1>1 DEF DialChecks, gateVars
<1>2. ASSUME NEW c \in Conns, Serve(c) PROVE Next
  BY <1>2, Zenon DEF Serve, Next
<1>3. CASE Probe
  BY <1>3 DEF Probe, gateVars
<1>4. CASE BeginClose
  BY <1>4 DEF BeginClose, Next
<1>5. CASE Sweep
  BY <1>5 DEF Sweep, Next, Caller
<1>6. CASE EndClose
  BY <1>6 DEF EndClose, Next, Caller
<1>7. CASE Restore
  BY <1>7 DEF Restore, Next
<1>8. CASE Install
  BY <1>8 DEF Install, Next, gateVars
<1>9. CASE Exits
  BY <1>9 DEF Exits, gateVars
<1>10. CASE Network
  BY <1>10 DEF Network, gateVars
<1>11. CASE UNCHANGED supervisedVars
  BY <1>11 DEF supervisedVars, gateVars
<1> QED
  BY <1>1, <1>2, <1>3, <1>4, <1>5, <1>6, <1>7, <1>8, <1>9, <1>10, <1>11 DEF SupervisedNext

\* What a step of a handler, of the accept loop or of a remote end does to the
\* connections: it is about one of them, which becomes live only at an open gate,
\* dials only from "admitted", has a tunnel only from a dial, and begins again never.
LEMMA ServeStep ==
  ASSUME IInv, ~closed, NEW c \in Conns,
         \/ Accept(c) \/ Track(c) \/ Handler(c)
         \/ \E dir \in {"up", "down"} : WriteFails(c, dir)
         \/ \E end \in {"client", "far"} : RemoteCloses(c, end)
  PROVE  /\ UNCHANGED <<open, closed, strayed, call>>
         /\ \A d \in Conns : d # c => pc'[d] = pc[d] /\ sock'[d] = sock[d]
         /\ Live(c)' => Live(c) \/ open
         /\ pc'[c] = "dialing" => pc[c] \in {"dialing", "admitted"}
         /\ pc'[c] \in {"dialed", "piping"} => pc[c] \in {"dialing", "dialed", "piping"}
         /\ pc[c] = "dialing" /\ pc'[c] # "dialing" => /\ pc'[c] \in {"dialed", "unwind"}
                                                       /\ sock' = sock
         /\ pc'[c] = "piping" => pc[c] # "dialing"
         /\ pc'[c] \in {"idle", "accepted", "handshake", "request", "admitted"} =>
              pc[c] \in {"idle", "accepted", "handshake", "request", "admitted"}
         /\ sock[c] # "open" => sock'[c] # "open" \/ pc'[c] = "accepted"
<1> DEFINE Done ==
      /\ UNCHANGED <<open, closed, strayed, call>>
      /\ \A d \in Conns : d # c => pc'[d] = pc[d] /\ sock'[d] = sock[d]
      /\ Live(c)' => Live(c) \/ open
      /\ pc'[c] = "dialing" => pc[c] \in {"dialing", "admitted"}
      /\ pc'[c] \in {"dialed", "piping"} => pc[c] \in {"dialing", "dialed", "piping"}
      /\ pc[c] = "dialing" /\ pc'[c] # "dialing" => /\ pc'[c] \in {"dialed", "unwind"}
                                                    /\ sock' = sock
      /\ pc'[c] = "piping" => pc[c] # "dialing"
      /\ pc'[c] \in {"idle", "accepted", "handshake", "request", "admitted"} =>
           pc[c] \in {"idle", "accepted", "handshake", "request", "admitted"}
      /\ sock[c] # "open" => sock'[c] # "open" \/ pc'[c] = "accepted"
<1> SUFFICES Done
  OBVIOUS
<1>0. pc \in [Conns -> PCs] /\ sock \in [Conns -> {"none", "open", "closed"}]
  BY DEF IInv, TypeOK
<1> USE <1>0 DEF PCs, Live, Admitted, Move, callVars, connVars
<1>1. CASE Accept(c)
  BY <1>1 DEF Accept
<1>2. CASE Track(c)
  BY <1>2 DEF Track
<1>3. CASE Handshake(c) \/ HandshakeFails(c)
  BY <1>3 DEF Handshake, HandshakeFails
<1>4. CASE CheckRefuse(c)
  BY <1>4 DEF CheckRefuse
<1>5. CASE ReadRoute(c) \/ Dial(c)
  BY <1>5 DEF ReadRoute, Dial
<1>6. CASE Reply(c)
  BY <1>6 DEF Reply
<1>7. ASSUME NEW dir \in {"up", "down"}, CopyEnds(c, dir) \/ WriteFails(c, dir) PROVE Done
  BY <1>7 DEF CopyEnds, WriteFails
<1>8. CASE PipeReturns(c) \/ Untrack(c)
  BY <1>8 DEF PipeReturns, Untrack
<1>9. CASE CloseClient(c)
  BY <1>9 DEF CloseClient
<1>10. ASSUME NEW end \in {"client", "far"}, RemoteCloses(c, end) PROVE Done
  BY <1>10 DEF RemoteCloses
<1> HIDE DEF Done
<1> QED
  BY <1>1, <1>2, <1>3, <1>4, <1>5, <1>6, <1>7, <1>8, <1>9, <1>10, Zenon DEF Handler

\* Each step keeps what the monitor relies on.
LEMMA SupervisedStepInv ==
  IInv /\ SInv /\ [SupervisedNext]_supervisedVars => IInv' /\ SInv'
<1> SUFFICES ASSUME IInv, SInv, [SupervisedNext]_supervisedVars PROVE IInv' /\ SInv'
  OBVIOUS
<1>0. IInv'
  BY StepOfTheGate, StepInv
<1>s. Watched /\ OneCaller /\ Judged /\ Sealed
  BY DEF SInv
<1>t. /\ Self \in Callers /\ pc \in [Conns -> PCs] /\ call \in [Callers -> Calls]
      /\ Pin \in IPs /\ NoIP \notin IPs
  BY SupervisionAssumption DEF IInv, TypeOK
<1> USE DEF monVars, dialVars
<1>1. ASSUME NEW c \in Conns, DialChecks(c) PROVE SInv'
  <2>1. /\ UNCHANGED vars /\ UNCHANGED <<monVars, exit, wasOpen>>
        /\ cleared' = cleared \cup {c} /\ pc[c] = "dialing"
    BY <1>1 DEF DialChecks, gateVars
  <2>2. Watched'
    BY <2>1, <1>s DEF Watched, vars
  <2>3. OneCaller' /\ Judged' /\ Sealed'
    BY <2>1, <1>s DEF OneCaller, Judged, Sealed, GateSeen, Closing, Live, Admitted, vars
  <2> QED
    BY <2>2, <2>3 DEF SInv
<1>2. ASSUME NEW c \in Conns, Serve(c) PROVE SInv'
  <2>1. /\ UNCHANGED <<monVars, cleared, wasOpen>>
        /\ IF pc[c] = "dialing" /\ pc'[c] = "dialed"
             THEN exit' = [exit EXCEPT ![c] = egress]
             ELSE UNCHANGED exit
    BY <1>2 DEF Serve
  <2>2. /\ UNCHANGED <<open, closed, strayed, call>>
        /\ \A d \in Conns : d # c => pc'[d] = pc[d] /\ sock'[d] = sock[d]
        /\ Live(c)' => Live(c) \/ open
        /\ pc'[c] \in {"dialed", "piping"} => pc[c] \in {"dialing", "dialed", "piping"}
        /\ pc[c] = "dialing" /\ pc'[c] # "dialing" => pc'[c] \in {"dialed", "unwind"}
        /\ pc'[c] = "piping" => pc[c] # "dialing"
        /\ pc'[c] \in {"idle", "accepted", "handshake", "request", "admitted"} =>
             pc[c] \in {"idle", "accepted", "handshake", "request", "admitted"}
    BY <1>2, <1>s, ServeStep DEF Serve, OneCaller
  <2>3. exit' \in [Conns -> IPs \cup {NoIP}]
    BY <2>1, <1>s DEF Watched
  <2>4. ASSUME NEW d \in Conns, pc'[d] \in {"dialed", "piping"} PROVE exit'[d] \in IPs
    <3>1. CASE d # c
      BY <3>1, <2>4, <2>1, <2>2, <1>s DEF Watched
    <3>2. CASE d = c /\ pc[c] = "dialing"
      BY <3>2, <2>4, <2>1, <2>2, <1>s DEF Watched
    <3>3. CASE d = c /\ pc[c] # "dialing"
      BY <3>3, <2>4, <2>1, <2>2, <1>s DEF Watched
    <3> QED
      BY <3>1, <3>2, <3>3
  <2>5. ASSUME NEW d \in cleared
        PROVE  pc'[d] \notin {"idle", "accepted", "handshake", "request", "admitted"}
    BY <2>5, <2>2, <1>s DEF Watched
  <2>6. Watched'
    BY <2>1, <2>3, <2>4, <2>5, <1>s DEF Watched
  <2>7. OneCaller' /\ Judged'
    BY <2>1, <2>2, <1>s DEF OneCaller, Judged, Closing
  <2>8. \A d \in Conns : Live(d)' => Live(d) \/ open
    BY <2>2 DEF Live, Admitted
  <2>9. Sealed'
    BY <2>1, <2>2, <2>8, <1>s DEF Sealed, GateSeen, Closing
  <2> QED
    BY <2>6, <2>7, <2>9 DEF SInv
<1>3. CASE Probe
  <2>1. /\ ~Closing /\ UNCHANGED <<vars, cleared, exit, wasOpen, alive>>
        /\ \/ Seen!Tick \/ Seen!Reachable \/ Seen!ProbeIP \/ Seen!Judge \/ Seen!SetReady
           \/ Seen!MarkDown \/ Seen!SetDown \/ Seen!ReestablishDial
    BY <1>3 DEF Probe, gateVars
  <2>2. UNCHANGED <<open, closed, strayed, call, pc, sock>>
    BY <2>1 DEF vars
  <2> USE DEF Seen!Tick, Seen!Reachable, Seen!ProbeIP, Seen!Judge, Seen!SetReady,
              Seen!MarkDown, Seen!SetDown, Seen!ReestablishDial, Seen!Goto,
              Seen!probeVars, Seen!monVars, Seen!envVars
  <2>3. /\ UNCHANGED <<routeIP, exited, up, egress>>
        /\ status' \in {"VERIFYING", "READY", "DOWN"}
        /\ down' \in BOOLEAN /\ wasDown' \in BOOLEAN
    BY <2>1, <1>s DEF Watched
  <2>4. Judged'
    BY <2>1, <2>2, <1>s DEF Judged, OneCaller, Watched
  <2>5. mon' \in {"again", "redial", "install"} => mon \in {"again", "redial", "install"}
    BY <2>1
  <2> HIDE DEF Seen!Tick, Seen!Reachable, Seen!ProbeIP, Seen!Judge, Seen!SetReady,
              Seen!MarkDown, Seen!SetDown, Seen!ReestablishDial, Seen!Goto,
              Seen!probeVars, Seen!monVars, Seen!envVars
  <2>6. Watched'
    BY <2>1, <2>2, <2>3, <1>s DEF Watched
  <2>7. OneCaller'
    BY <2>1, <2>2, <2>3, <2>5, <1>s DEF OneCaller, Closing
  <2>8. Sealed'
    BY <2>1, <2>2, <1>s DEF Sealed, GateSeen, Closing, Live, Admitted
  <2> QED
    BY <2>4, <2>6, <2>7, <2>8, <1>0 DEF SInv
<1>4. CASE BeginClose
  <2>1. /\ mon \in {"close", "again"} \/ (mon = "wait" /\ ~alive /\ ~exited)
        /\ call[Self] = "none" /\ call' = [call EXCEPT ![Self] = "stored"]
        /\ open' = FALSE /\ wasOpen' = open
        /\ UNCHANGED <<monVars, dialVars, closed, strayed, pc, sock>>
    BY <1>4 DEF BeginClose, CloseStore, At, connVars
  <2>2. call'[Self] = "stored"
    BY <2>1, <1>t
  <2>3. Watched'
    BY <2>1, <1>s DEF Watched, IInv, TypeOK
  <2>4. OneCaller' /\ Judged'
    BY <2>1, <2>2, <1>s DEF OneCaller, Judged, Closing
  <2>5. Sealed'
    BY <2>1, <2>2, <1>s DEF Sealed, GateSeen, Closing, Live, Admitted
  <2> QED
    BY <2>3, <2>4, <2>5, <1>0 DEF SInv
<1>5. CASE Sweep
  <2> DEFINE Swept ==
        /\ UNCHANGED <<monVars, dialVars, wasOpen, open, closed, strayed, pc>>
        /\ call'[Self] # "none" <=> call[Self] # "none"
        /\ call'[Self] \in {"none", "stored", "sweeping"}
        /\ \A c \in Conns : sock'[c] = "open" => sock[c] = "open"
  <2>1. Swept
    <3>1. CASE Snapshot(Self)
      BY <3>1, <1>5, <1>s, <1>t DEF Sweep, Snapshot, At, connVars, OneCaller
    <3>2. ASSUME NEW c \in Conns, CloseOne(Self, c) PROVE Swept
      BY <3>2, <1>5, <1>s, <1>t DEF Sweep, CloseOne, OneCaller, IInv, TypeOK
    <3> QED
      BY <1>5, <3>1, <3>2 DEF Sweep
  <2>2. Watched'
    BY <2>1, <1>s DEF Watched
  <2>3. OneCaller' /\ Judged'
    BY <2>1, <1>s DEF OneCaller, Judged, Closing
  <2>4. Sealed'
    BY <2>1, <1>s DEF Sealed, GateSeen, Closing, Live, Admitted
  <2> QED
    BY <2>2, <2>3, <2>4, <1>0 DEF SInv
<1>6. CASE EndClose
  <2>1. /\ call[Self] = "sweeping" /\ call' = [call EXCEPT ![Self] = "none"]
        /\ UNCHANGED <<open, closed, strayed, pc, sock>>
        /\ UNCHANGED <<status, routeIP, down, alive, wasDown, monIP, up, egress, dialVars, wasOpen>>
    BY <1>6, <1>s DEF EndClose, CloseReturns, At, connVars, OneCaller
  <2>2. \/ mon = "wait" /\ exited' = TRUE /\ mon' = mon
        \/ mon = "close" /\ mon' \in {"wait", "again"} /\ exited' = exited
        \/ mon = "again" /\ mon' = "redial" /\ exited' = exited
    BY <1>6 DEF EndClose
  <2>3. call'[Self] = "none" /\ ~open /\ Closing
    BY <2>1, <1>t, <1>s DEF OneCaller, Closing
  <2>4. Watched'
    BY <2>1, <2>2, <1>s DEF Watched
  <2>5. OneCaller' /\ Judged'
    BY <2>1, <2>2, <2>3, <1>s DEF OneCaller, Judged, Closing
  <2>6. \A c \in Conns : ~Live(c)'
    <3>1. Quiet' /\ ~open'
      BY <2>1, <2>3, SupervisionAssumption DEF Quiet
    <3> QED
      BY <3>1, <1>0 DEF IInv, Covered, Listed, Lists, Quiet, WillSnapshot
  <2>7. Sealed'
    BY <2>6 DEF Sealed
  <2> QED
    BY <2>4, <2>5, <2>7, <1>0 DEF SInv
<1>7. CASE Restore
  <2>1. /\ mon = "open" /\ open' = TRUE /\ mon' = "wait"
        /\ UNCHANGED <<closed, strayed, call, pc, sock>>
        /\ UNCHANGED <<status, routeIP, down, alive, exited, wasDown, monIP, pinned, up,
                       egress, dialVars, wasOpen>>
    BY <1>7 DEF Restore, Open, connVars, callVars
  <2>2. Watched' /\ Sealed'
    BY <2>1, <1>s DEF Watched, Sealed, GateSeen
  <2>3. OneCaller' /\ Judged'
    BY <2>1, <1>s DEF OneCaller, Judged, Closing
  <2> QED
    BY <2>2, <2>3, <1>0 DEF SInv
<1>8. CASE Install
  <2>1. /\ mon = "install" /\ mon' = "wait"
        /\ status' \in {status, "VERIFYING"} /\ up' \in {up, TRUE} /\ egress' \in {egress, monIP}
        /\ UNCHANGED <<routeIP, down, exited, wasDown, alive, cleared, exit, wasOpen>>
    BY <1>8 DEF Install, Seen!ReestablishInstall, Seen!Goto, Seen!opVars
  <2>2. egress' \in IPs
    BY <1>8, <1>s, <1>t DEF Install, Seen!ReestablishInstall, Watched, Judged
  <2>3. ~open /\ ~Closing /\ Quiet
    BY <2>1, <1>s, OnlySelf DEF OneCaller
  <2>4. UNCHANGED <<open, closed, call, pc, sock>> /\ strayed' = strayed
    BY <1>8, <2>3, <1>s DEF Install, SetRoute, gateVars, vars, connVars, OneCaller,
       IInv, TypeOK
  <2>5. Watched'
    BY <2>1, <2>2, <2>4, <1>s DEF Watched
  <2>6. OneCaller' /\ Judged'
    BY <2>1, <2>3, <2>4, <1>s DEF OneCaller, Judged, Closing
  <2>7. Sealed'
    BY <2>1, <2>4, <1>s DEF Sealed, GateSeen, Closing, Live, Admitted
  <2> QED
    BY <2>5, <2>6, <2>7, <1>0 DEF SInv
<1>9. CASE Exits \/ Network \/ UNCHANGED supervisedVars
  <2>1. /\ UNCHANGED <<vars, status, routeIP, down, exited, mon, wasDown, monIP, cleared, exit,
                       wasOpen>>
        /\ alive' \in BOOLEAN /\ (alive' => alive)
        /\ up' \in BOOLEAN /\ egress' \in IPs
    <3>1. CASE Exits
      BY <3>1, <1>s DEF Exits, gateVars, Watched
    <3>2. CASE Network
      <4>1. /\ UNCHANGED <<vars, cleared, exit, wasOpen, alive, status, routeIP, down, exited, mon,
                             wasDown, monIP>>
            /\ (up' = ~up /\ egress' = egress) \/ (egress' \in IPs /\ up' = up)
        BY <3>2 DEF Network, Seen!NetworkChanges, Seen!monVars, Seen!probeVars, gateVars
      <4>2. up' \in BOOLEAN
        BY <4>1, <1>s, Zenon DEF Watched
      <4> QED
        BY <4>1, <4>2, <1>s DEF Watched
    <3>3. CASE UNCHANGED supervisedVars
      BY <3>3, <1>s DEF supervisedVars, gateVars, Watched
    <3> QED
      BY <1>9, <3>1, <3>2, <3>3
  <2>2. UNCHANGED <<open, closed, strayed, call, pc, sock>>
    BY <2>1 DEF vars
  <2>3. Watched'
    BY <2>1, <2>2, <1>s DEF Watched
  <2>4. OneCaller' /\ Judged'
    BY <2>1, <2>2, <1>s DEF OneCaller, Judged, Closing, Watched
  <2>5. Sealed'
    BY <2>1, <2>2, <1>s DEF Sealed, GateSeen, Closing, Live, Admitted
  <2> QED
    BY <2>3, <2>4, <2>5, <1>0 DEF SInv
<1> QED
  BY <1>0, <1>1, <1>2, <1>3, <1>4, <1>5, <1>6, <1>7, <1>8, <1>9 DEF SupervisedNext

\* Gate and monitor together keep both invariants.
LEMMA SupervisedInvariance == SupervisedSpec => [](IInv /\ SInv)
BY SupervisedInitInv, SupervisedStepInv, PTL DEF SupervisedSpec

\* health.go:61-65 over gate.go:100 as it is, with its flag, snapshot and one close
\* after the other: a route that is held to be down has a closed gate and no
\* connection that carries anything, for any number of connections, routes and
\* addresses.
THEOREM DownRouteCarriesNothing == SupervisedSpec => []DownKeepsGateClosed
<1>1. IInv /\ SInv => DownKeepsGateClosed
  BY DEF SInv, OneCaller, Judged, Sealed, GateSeen, DownKeepsGateClosed
<1> QED
  BY <1>1, SupervisedInvariance, PTL

\* gate.go:89-95 asks of SetRoute's caller that the gate be CLOSED meanwhile, and
\* health.go with session.go's reestablish does as it asks; so no live tunnel is ever
\* on a route that was replaced.
THEOREM RoutesChangeBehindAClosedGate ==
  SupervisedSpec => []\A c \in Conns : Live(c) => via[c] \in {route, NoRoute}
<1>1. IInv /\ SInv => \A c \in Conns : Live(c) => via[c] \in {route, NoRoute}
  BY DEF IInv, SInv, OneCaller, LiveTunnelsUseTheRoute
<1> QED
  BY <1>1, SupervisedInvariance, PTL

-----------------------------------------------------------------------------
(* The monitor over the gate implements the monitor over a gate of one step *)

\* What Runtime's variables are besides the gate's.
restVars == <<status, routeIP, down, exited, mon, wasDown, monIP, pinned, up, egress>>

\* A step that Runtime does not see.
LEMMA Unseen ==
  ASSUME UNCHANGED <<restVars, alive, GateSeen, DialingSeen, TunnelsSeen>>
  PROVE  UNCHANGED Seen!vars
BY DEF restVars, Seen!vars, Seen!gateVars, Seen!monVars, Seen!probeVars, Seen!opVars,
   Seen!envVars

\* One connection stops dialling, or its tunnel ends, and the others go on.
LEMMA OneEnds ==
  ASSUME IInv, SInv, IInv', SInv', UNCHANGED <<restVars, alive, GateSeen>>,
         NEW c \in Conns,
         \A d \in Conns : d # c => /\ Dialing(d)' <=> Dialing(d)
                                   /\ Tunnel(d)' <=> Tunnel(d)
                                   /\ exit'[d] = exit[d],
         Dialing(c)' => Dialing(c), Tunnel(c)' => Tunnel(c), exit'[c] = exit[c]
  PROVE  [Seen!Next]_(Seen!vars)
<1> USE DEF restVars
<1>1. DialingSeen \in BOOLEAN /\ DialingSeen' \in BOOLEAN
  BY DEF DialingSeen
<1>2. DialingSeen' => DialingSeen
  BY DEF DialingSeen
<1>3. ~(Dialing(c) /\ Tunnel(c))
  BY DEF Dialing, Tunnel
<1>4. TunnelsSeen' = TunnelsSeen \/ TunnelsSeen' = TunnelsSeen \ {exit[c]}
  <2>1. \A ip \in IPs : ip \in TunnelsSeen' => ip \in TunnelsSeen
    BY DEF TunnelsSeen
  <2>2. \A ip \in IPs : ip \in TunnelsSeen /\ ip \notin TunnelsSeen' => ip = exit[c]
    BY DEF TunnelsSeen
  <2>3. TunnelsSeen \subseteq IPs /\ TunnelsSeen' \subseteq IPs
    BY DEF TunnelsSeen
  <2> QED
    BY <2>1, <2>2, <2>3
<1>5. CASE TunnelsSeen' = TunnelsSeen /\ DialingSeen' = DialingSeen
  BY <1>5, Unseen
<1>6. CASE TunnelsSeen' = TunnelsSeen /\ DialingSeen' # DialingSeen
  <2>1. Seen!ConnectionEnds
    BY <1>6, <1>1, <1>2 DEF Seen!ConnectionEnds, Seen!monVars, Seen!probeVars, Seen!opVars,
       Seen!envVars
  <2> QED
    BY <2>1 DEF Seen!Next
<1>7. CASE TunnelsSeen' # TunnelsSeen
  <2>1. Tunnel(c) /\ ~Tunnel(c)'
    BY <1>7 DEF TunnelsSeen
  <2>2. DialingSeen' = DialingSeen
    BY <2>1, <1>1, <1>3 DEF DialingSeen
  <2>3. exit[c] \in TunnelsSeen /\ TunnelsSeen' = TunnelsSeen \ {exit[c]}
    BY <1>4, <1>7
  <2>4. Seen!ConnectionEnds
    BY <2>2, <2>3 DEF Seen!ConnectionEnds, Seen!monVars, Seen!probeVars, Seen!opVars,
       Seen!envVars
  <2> QED
    BY <2>4 DEF Seen!Next
<1> QED
  BY <1>5, <1>6, <1>7

\* A gate that nobody touches is seen as it was.
LEMMA SameGate ==
  ASSUME UNCHANGED <<vars, cleared, exit, wasOpen, alive>>
  PROVE  UNCHANGED <<GateSeen, DialingSeen, TunnelsSeen>>
<1>1. UNCHANGED <<open, call, pc, sock>>
  BY DEF vars
<1> QED
  BY <1>1 DEF GateSeen, DialingSeen, TunnelsSeen, Closing, Dialing, Tunnel, Live, Admitted

\* Every step of the composition is a step of Runtime, or is not seen there.
LEMMA StepSeen ==
  IInv /\ SInv /\ IInv' /\ SInv' /\ [SupervisedNext]_supervisedVars =>
    [Seen!Next]_(Seen!vars)
<1> SUFFICES ASSUME IInv, SInv, IInv', SInv', [SupervisedNext]_supervisedVars
             PROVE  [Seen!Next]_(Seen!vars)
  OBVIOUS
<1>s. Watched /\ OneCaller /\ Judged /\ Sealed /\ Watched' /\ OneCaller' /\ Sealed'
  BY DEF SInv
<1>b. /\ GateSeen \in BOOLEAN /\ GateSeen' \in BOOLEAN
      /\ DialingSeen \in BOOLEAN /\ DialingSeen' \in BOOLEAN
      /\ TunnelsSeen \subseteq IPs /\ TunnelsSeen' \subseteq IPs
  BY DEF GateSeen, DialingSeen, TunnelsSeen, IInv, TypeOK, Watched, SInv
<1>t. /\ Self \in Callers /\ call \in [Callers -> Calls] /\ pc \in [Conns -> PCs]
  BY SupervisionAssumption DEF IInv, TypeOK
<1>1. ASSUME NEW c \in Conns, DialChecks(c) PROVE [Seen!Next]_(Seen!vars)
  <2>1. /\ UNCHANGED <<open, call, pc, sock, exit, wasOpen, monVars>>
        /\ cleared' = cleared \cup {c} /\ pc[c] = "dialing" /\ Seen!Dialable
    BY <1>1 DEF DialChecks, gateVars, vars
  <2>2. UNCHANGED <<restVars, alive>>
    BY <2>1 DEF restVars, monVars
  <2>3. UNCHANGED <<GateSeen, TunnelsSeen>>
    BY <2>1, <2>2 DEF GateSeen, TunnelsSeen, Closing, Tunnel, Live, Admitted
  <2>4. DialingSeen => DialingSeen'
    BY <2>1, <2>2 DEF DialingSeen, Dialing, Live, Admitted
  <2>5. CASE DialingSeen' = DialingSeen
    BY <2>2, <2>3, <2>5, Unseen
  <2>6. CASE DialingSeen' # DialingSeen
    <3>1. ~DialingSeen /\ DialingSeen' = TRUE
      BY <2>4, <2>6, <1>b
    <3>2. alive /\ \E d \in Conns : Live(d)
      BY <3>1, <2>1, <2>2 DEF DialingSeen, Dialing, Live, Admitted
    <3>3. GateSeen
      BY <3>2, <1>s DEF Sealed
    <3>4. Seen!Connect
      BY <3>1, <3>2, <3>3, <2>1, <2>2, <2>3 DEF Seen!Connect, restVars, Seen!monVars,
         Seen!probeVars, Seen!opVars, Seen!envVars
    <3> QED
      BY <3>4 DEF Seen!Next
  <2> QED
    BY <2>5, <2>6
<1>2. ASSUME NEW c \in Conns, Serve(c) PROVE [Seen!Next]_(Seen!vars)
  <2>1. /\ UNCHANGED <<monVars, cleared, wasOpen>>
        /\ IF pc[c] = "dialing" /\ pc'[c] = "dialed"
             THEN c \in cleared /\ up /\ exit' = [exit EXCEPT ![c] = egress]
             ELSE UNCHANGED exit
    BY <1>2 DEF Serve
  <2>2. /\ UNCHANGED <<open, closed, strayed, call>>
        /\ \A d \in Conns : d # c => pc'[d] = pc[d] /\ sock'[d] = sock[d]
        /\ pc'[c] = "dialing" => pc[c] \in {"dialing", "admitted"}
        /\ pc'[c] \in {"dialed", "piping"} => pc[c] \in {"dialing", "dialed", "piping"}
        /\ pc[c] = "dialing" /\ pc'[c] # "dialing" => /\ pc'[c] \in {"dialed", "unwind"}
                                                      /\ sock' = sock
        /\ pc'[c] = "piping" => pc[c] # "dialing"
        /\ sock[c] # "open" => sock'[c] # "open" \/ pc'[c] = "accepted"
    BY <1>2, <1>s, ServeStep DEF Serve, OneCaller
  <2>3. UNCHANGED <<restVars, alive, GateSeen>>
    BY <2>1, <2>2 DEF restVars, monVars, GateSeen, Closing
  <2>4. \A d \in Conns : d # c => /\ Dialing(d)' <=> Dialing(d)
                                  /\ Tunnel(d)' <=> Tunnel(d)
                                  /\ exit'[d] = exit[d]
    BY <2>1, <2>2, <1>s DEF Dialing, Tunnel, Live, Admitted, Watched
  <2>5. CASE pc[c] = "dialing" /\ pc'[c] = "dialed"
    <3>1. /\ c \in cleared /\ up /\ exit'[c] = egress /\ egress \in IPs
          /\ ~Tunnel(c) /\ ~Dialing(c)'
          /\ Tunnel(c)' <=> Dialing(c)
      BY <2>1, <2>2, <2>5, <1>s DEF Tunnel, Dialing, Live, Admitted, Watched
    <3>2. CASE alive /\ Dialing(c)
      <4>1. DialingSeen = TRUE
        BY <3>2, <1>b DEF DialingSeen
      <4>2. TunnelsSeen' = TunnelsSeen \cup {egress}
        <5>1. \A ip \in IPs : ip \in TunnelsSeen' <=> ip \in TunnelsSeen \/ ip = egress
          BY <3>1, <3>2, <2>3, <2>4 DEF TunnelsSeen
        <5> QED
          BY <5>1, <3>1, <1>b
      <4>3. Seen!Browse
        BY <4>1, <4>2, <3>1, <2>3, <1>b DEF Seen!Browse, restVars, Seen!monVars,
           Seen!probeVars, Seen!opVars, Seen!envVars
      <4> QED
        BY <4>3 DEF Seen!Next
    <3>3. CASE ~(alive /\ Dialing(c))
      <4>1. DialingSeen' = DialingSeen
        BY <3>1, <3>3, <2>3, <2>4, <1>b DEF DialingSeen
      <4>2. TunnelsSeen' = TunnelsSeen
        <5>1. \A ip \in IPs : ip \in TunnelsSeen' <=> ip \in TunnelsSeen
          BY <3>1, <3>3, <2>3, <2>4 DEF TunnelsSeen
        <5> QED
          BY <5>1, <1>b
      <4> QED
        BY <4>1, <4>2, <2>3, Unseen
    <3> QED
      BY <3>2, <3>3
  <2>6. CASE ~(pc[c] = "dialing" /\ pc'[c] = "dialed")
    <3>1. exit'[c] = exit[c]
      BY <2>1, <2>6
    <3>2. Dialing(c)' => Dialing(c)
      BY <2>1, <2>2, <1>s DEF Dialing, Live, Admitted, Watched
    <3>3. Tunnel(c)' => Tunnel(c)
      BY <2>2, <2>6 DEF Tunnel, Live, Admitted
    <3> QED
      BY <3>1, <3>2, <3>3, <2>3, <2>4, OneEnds
  <2> QED
    BY <2>5, <2>6
<1>3. CASE Probe
  BY <1>3 DEF Probe, Seen!Next, Seen!Monitor
<1>4. CASE BeginClose
  <2>1. /\ call[Self] = "none" /\ call' = [call EXCEPT ![Self] = "stored"]
        /\ open' = FALSE /\ wasOpen' = open
        /\ UNCHANGED <<monVars, cleared, exit, pc, sock>>
    BY <1>4 DEF BeginClose, CloseStore, At, connVars, dialVars
  <2>2. call'[Self] = "stored"
    BY <2>1, <1>t
  <2>3. GateSeen' = GateSeen
    <3>1. GateSeen' <=> GateSeen
      BY <2>1, <2>2 DEF GateSeen, Closing
    <3> QED
      BY <3>1, <1>b
  <2>4. UNCHANGED <<restVars, alive, DialingSeen, TunnelsSeen>>
    BY <2>1 DEF restVars, monVars, DialingSeen, TunnelsSeen, Dialing, Tunnel, Live, Admitted
  <2> QED
    BY <2>3, <2>4, Unseen
<1>5. CASE Sweep
  <2>1. UNCHANGED <<restVars, alive, cleared, exit, wasOpen>>
    BY <1>5 DEF Sweep, restVars, monVars, dialVars
  <2>2. CASE Snapshot(Self)
    <3>1. /\ UNCHANGED <<open, pc, sock>>
          /\ call[Self] = "stored" /\ call'[Self] = "sweeping"
      BY <2>2, <1>s, <1>t DEF Snapshot, At, connVars, OneCaller
    <3>2. UNCHANGED <<GateSeen, DialingSeen, TunnelsSeen>>
      BY <3>1, <2>1 DEF GateSeen, DialingSeen, TunnelsSeen, Closing, Dialing, Tunnel, Live,
         Admitted
    <3> QED
      BY <3>2, <2>1, Unseen
  <2>3. ASSUME NEW c \in Conns, CloseOne(Self, c) PROVE [Seen!Next]_(Seen!vars)
    <3>1. UNCHANGED <<open, pc, call>> /\ sock' = [sock EXCEPT ![c] = "closed"]
      BY <2>3 DEF CloseOne
    <3>2. /\ \A d \in Conns : d # c => sock'[d] = sock[d]
          /\ sock'[c] = "closed"
      BY <3>1 DEF IInv, TypeOK
    <3>3. UNCHANGED GateSeen
      BY <3>1, <2>1 DEF GateSeen, Closing
    <3>4. /\ \A d \in Conns : d # c => /\ Dialing(d)' <=> Dialing(d)
                                       /\ Tunnel(d)' <=> Tunnel(d)
                                       /\ exit'[d] = exit[d]
          /\ ~Dialing(c)' /\ ~Tunnel(c)' /\ exit'[c] = exit[c]
      BY <3>1, <3>2, <2>1 DEF Dialing, Tunnel, Live, Admitted
    <3> QED
      BY <3>3, <3>4, <2>1, OneEnds
  <2> QED
    BY <1>5, <2>2, <2>3 DEF Sweep
<1>6. CASE EndClose
  <2>1. /\ call[Self] = "sweeping" /\ call' = [call EXCEPT ![Self] = "none"]
        /\ open' = open
        /\ UNCHANGED <<status, routeIP, down, alive, wasDown, monIP, up, egress>>
    BY <1>6, <1>s DEF EndClose, CloseReturns, At, OneCaller
  <2>2. call'[Self] = "none" /\ ~open' /\ Closing
    BY <2>1, <1>t, <1>s DEF OneCaller, Closing
  <2>3. GateSeen' = FALSE
    BY <2>2, <1>b DEF GateSeen, Closing
  <2>4. \A c \in Conns : ~Live(c)'
    BY <2>3, <1>s DEF Sealed
  <2>5. DialingSeen' = FALSE /\ TunnelsSeen' = {}
    BY <2>4, <1>b DEF DialingSeen, TunnelsSeen, Dialing, Tunnel
  <2>6. Seen!CloseGate
    BY <2>3, <2>5 DEF Seen!CloseGate
  <2>7. CASE mon = "wait"
    <3>1. ~alive /\ ~exited /\ exited' = TRUE /\ UNCHANGED <<mon, pinned>>
      BY <2>2, <2>7, <1>6, <1>s DEF OneCaller, EndClose
    <3>2. Seen!NoticeExit
      BY <3>1, <2>1, <2>6, <2>7 DEF Seen!NoticeExit, Seen!probeVars, Seen!opVars, Seen!envVars
    <3> QED
      BY <3>2 DEF Seen!Next, Seen!Monitor
  <2>8. CASE mon = "close"
    <3>1. /\ mon' = "wait" \/ (monIP = NoIP /\ mon' = "again")
          /\ UNCHANGED <<exited, pinned>>
      BY <2>8, <1>6 DEF EndClose
    <3>2. Seen!MarkDownClose
      BY <3>1, <2>1, <2>6, <2>8 DEF Seen!MarkDownClose, Seen!Goto, Seen!probeVars,
         Seen!opVars, Seen!envVars
    <3> QED
      BY <3>2 DEF Seen!Next, Seen!Monitor
  <2>9. CASE mon = "again"
    <3>1. mon' = "redial" /\ pinned' = routeIP /\ UNCHANGED exited
      BY <2>9, <1>6 DEF EndClose
    <3>2. Seen!ReestablishClose
      BY <3>1, <2>1, <2>6, <2>9 DEF Seen!ReestablishClose, Seen!Goto, Seen!opVars,
         Seen!envVars
    <3> QED
      BY <3>2 DEF Seen!Next, Seen!Monitor
  <2> QED
    BY <2>2, <2>7, <2>8, <2>9, <1>s DEF OneCaller
<1>7. CASE Restore
  <2>1. /\ mon = "open" /\ open' = TRUE /\ mon' = "wait"
        /\ UNCHANGED <<pc, sock, status, routeIP, down, alive, exited, wasDown, monIP, pinned,
                       up, egress, cleared, exit>>
    BY <1>7 DEF Restore, Open, connVars, dialVars
  <2>2. UNCHANGED <<DialingSeen, TunnelsSeen>>
    BY <2>1 DEF DialingSeen, TunnelsSeen, Dialing, Tunnel, Live, Admitted
  <2>3. GateSeen' = TRUE
    BY <2>1, <1>b DEF GateSeen
  <2>4. Seen!Reopen
    BY <2>1, <2>2, <2>3 DEF Seen!Reopen, Seen!OpenGate, Seen!Goto, Seen!probeVars,
       Seen!opVars, Seen!envVars
  <2> QED
    BY <2>4 DEF Seen!Next, Seen!Monitor
<1>8. CASE Install
  BY <1>8 DEF Install, Seen!Next, Seen!Monitor
<1>9. CASE Exits
  <2>1. /\ alive /\ alive' = FALSE
        /\ UNCHANGED <<open, call, wasOpen, restVars>>
    BY <1>9 DEF Exits, gateVars, vars, restVars
  <2>2. DialingSeen' = FALSE /\ TunnelsSeen' = {}
    BY <2>1, <1>b DEF DialingSeen, TunnelsSeen
  <2>3. UNCHANGED GateSeen
    BY <2>1 DEF GateSeen, Closing
  <2>4. Seen!BrowserExits
    BY <2>1, <2>2, <2>3 DEF Seen!BrowserExits, restVars, Seen!monVars, Seen!probeVars,
       Seen!opVars
  <2> QED
    BY <2>4 DEF Seen!Next
<1>10. CASE Network
  BY <1>10 DEF Network, Seen!Next
<1>11. CASE UNCHANGED supervisedVars
  <2>1. UNCHANGED <<vars, restVars, alive, cleared, exit, wasOpen>>
    BY <1>11 DEF supervisedVars, gateVars, restVars, monVars, dialVars
  <2> QED
    BY <2>1, SameGate, Unseen
<1> QED
  BY <1>1, <1>2, <1>3, <1>4, <1>5, <1>6, <1>7, <1>8, <1>9, <1>10, <1>11 DEF SupervisedNext

\* health.go over gate.go and server.go implements Runtime without operators, where
\* a Close is one step: what Runtime's properties say of the monitor alone they say
\* of the gate with its handlers.
THEOREM ImplementsRuntime == SupervisedSpec => RuntimeSpec
<1>1. SupervisedInit => Seen!Init
  <2> SUFFICES ASSUME SupervisedInit PROVE Seen!Init
    OBVIOUS
  <2>1. GateSeen = TRUE
    BY DEF SupervisedInit, GateSeen
  <2>2. \A c \in Conns : ~Live(c)
    BY DEF SupervisedInit, Live, Admitted
  <2>3. DialingSeen = FALSE /\ TunnelsSeen = {}
    BY <2>2 DEF DialingSeen, TunnelsSeen, Dialing, Tunnel
  <2> QED
    BY <2>1, <2>3 DEF SupervisedInit, Seen!Init
<1> QED
  BY <1>1, StepSeen, SupervisedInvariance, PTL DEF SupervisedSpec, RuntimeSpec, Seen!Spec
=============================================================================
