------------------------ MODULE ControlChannelProofs ------------------------
(***************************************************************************)
(* Proofs about the control channel, for any number of controllers and     *)
(* clients.                                                                *)
(*                                                                         *)
(* The two safety properties are about controllers one after another.  The *)
(* invariant says what makes a controller the owner of the run directory   *)
(* while it listens (Owned), which of the three files Listen has written,  *)
(* and how far a controller is that has a session (Sessions) or that has   *)
(* acknowledged a --stop (Told): one whose session is not down still       *)
(* listens, so that its --stop still reaches it.                           *)
(***************************************************************************)
EXTENDS ControlChannel, TLAPS

\* A controller with a session; srv.Close comes after sess.Shutdown, except when
\* Listen failed, and then nobody was ever served.
Sessions ==
  \A p \in session :
    /\ pc[p] \in {"ready", "listen", "writing", "accepting", "select", "stopping",
                  "draining", "removing", "leaving"}
    /\ pc[p] = "draining" => conns[p] = {}

\* Who acknowledged a shutdown call has been accepting, and has either shut its
\* session down or is still listening.
Told ==
  \A c \in Clients : told[c] # Nobody =>
    /\ pc[told[c]] \in {"accepting", "select", "stopping", "closing", "draining",
                        "removing", "ended", "dead"}
    /\ told[c] \in session => pc[told[c]] \in {"accepting", "select", "stopping"}

\* The run directory is that of the controller that listens, as far as Listen has
\* written it.
Owned(p) ==
  /\ Listening(p) => sock = p
  /\ Listening(p) /\ (pc[p] = "writing" => "endpoint" \notin todo[p]) => endpoint
  /\ Listening(p) /\ (pc[p] = "writing" => "token" \notin todo[p]) => token = p

\* As long as no controller started during another's life.
Turns ==
  ~overlap =>
    /\ \A p, q \in Procs : Alive(p) /\ Alive(q) => p = q
    /\ \A p \in Procs : Owned(p)
    /\ \A c \in Clients : cl[c] = "stopped" => told[c] \notin session

IInv == TypeOK /\ Sessions /\ Told /\ Turns

ClStates == {"idle", "connect", "sent", "waiting", "stopped", "error"}

\* Where a controller is that has been accepting, and that still is with its
\* session up.
Late == {"accepting", "select", "stopping", "closing", "draining", "removing",
         "ended", "dead"}
Up == {"accepting", "select", "stopping"}

\* The variables' types one by one.
LEMMA Types ==
  ASSUME TypeOK
  PROVE  /\ pc \in [Procs -> PCs] /\ todo \in [Procs -> SUBSET Files]
         /\ session \subseteq Procs /\ asking \subseteq Procs /\ stopCh \subseteq Procs
         /\ conns \in [Procs -> SUBSET Clients]
         /\ sock \in Procs \cup {Nobody} /\ token \in Procs \cup {Nobody}
         /\ pid \in Procs \cup {Nobody}
         /\ endpoint \in BOOLEAN /\ overlap \in BOOLEAN /\ silent \subseteq Procs
         /\ cl \in [Clients -> ClStates]
         /\ saw \in [Clients -> Procs \cup {Nobody}]
         /\ told \in [Clients -> Procs \cup {Nobody}]
BY DEF TypeOK, ClStates

\* What Goto does to the controllers.
LEMMA GotoMoves ==
  ASSUME TypeOK, NEW p \in Procs, NEW from, NEW to \in PCs, Goto(p, from, to)
  PROVE  /\ pc' \in [Procs -> PCs] /\ pc[p] = from /\ pc'[p] = to
         /\ \A q \in Procs \ {p} : pc'[q] = pc[q]
BY DEF TypeOK, Goto

\* A step of a live controller that serves nobody.  What the others have is not
\* touched; what it does to the run directory matters to nobody else as long as it
\* is the only one alive.
LEMMA ProcKeeps ==
  ASSUME IInv, NEW p \in Procs, Alive(p), TypeOK',
         \A q \in Procs \ {p} : pc'[q] = pc[q] /\ conns'[q] = conns[q],
         overlap' = overlap, told' = told,
         \A c \in Clients : cl'[c] = "stopped" => cl[c] = "stopped",
         session' \in {session, session \cup {p}, session \ {p}},
         p \in session' =>
           /\ pc'[p] \in {"ready", "listen", "writing", "accepting", "select",
                          "stopping", "draining", "removing", "leaving"}
           /\ pc'[p] = "draining" => conns'[p] = {},
         pc[p] \in Late => pc'[p] \in Late,
         pc[p] \in Up /\ p \in session' => pc'[p] \in Up,
         pc[p] \in Late /\ p \in session' => p \in session,
         ~overlap => Owned(p)'
  PROVE  IInv'
<1>0. TypeOK /\ Sessions /\ Told /\ Turns
  BY DEF IInv
<1>1. Sessions'
  <2>1. ASSUME NEW q \in session', q # p
        PROVE  q \in session /\ q \in Procs \ {p}
    BY <2>1, <1>0, Types
  <2> QED
    BY <2>1, <1>0 DEF Sessions
<1>2. ASSUME NEW c \in Clients, told[c] # Nobody
      PROVE  /\ pc'[told[c]] \in Late
             /\ told[c] \in session' => told[c] \in session /\ pc'[told[c]] \in Up
  <2>1. /\ pc[told[c]] \in Late /\ (told[c] \in session => pc[told[c]] \in Up)
        /\ told[c] \in Procs
    BY <1>0, <1>2, Types DEF Told, Late, Up
  <2>2. CASE told[c] = p
    BY <2>1, <2>2
  <2>3. CASE told[c] # p
    <3>1. pc'[told[c]] = pc[told[c]] /\ (told[c] \in session' => told[c] \in session)
      BY <2>1, <2>3
    <3> QED
      BY <3>1, <2>1
  <2> QED
    BY <2>2, <2>3
<1>3. Told'
  BY <1>2 DEF Told, Late, Up
<1>4. Turns'
  <2> SUFFICES ASSUME ~overlap
               PROVE  /\ \A q, r \in Procs : Alive(q)' /\ Alive(r)' => q = r
                      /\ \A q \in Procs : Owned(q)'
                      /\ \A c \in Clients : cl'[c] = "stopped" => told[c] \notin session'
    BY DEF Turns
  <2>1. \A q \in Procs \ {p} : ~Alive(q)
    BY <1>0 DEF Turns
  <2>2. \A q \in Procs \ {p} : ~Alive(q)' /\ ~Listening(q)'
    BY <2>1 DEF Alive, Listening
  <2>3. \A q \in Procs : Owned(q)'
    BY <2>2 DEF Owned
  <2>4. ASSUME NEW c \in Clients, cl'[c] = "stopped", told[c] \in session'
        PROVE  FALSE
    <3>1. told[c] \notin session
      BY <2>4, <1>0 DEF Turns
    <3>2. told[c] # Nobody
      <4>1. told[c] \in Procs
        BY <2>4, <1>0, Types
      <4> QED
        BY <4>1, ControlAssumption
    <3> QED
      BY <3>1, <3>2, <2>4, <1>2
  <2> QED
    BY <2>2, <2>3, <2>4
<1> QED
  BY <1>1, <1>3, <1>4 DEF IInv

-----------------------------------------------------------------------------
(* The steps of a controller *)

\* Up to the listener and through the three files.
LEMMA StartKeeps ==
  ASSUME IInv, NEW p \in Procs,
         \/ StartSession(p) \/ CheckPID(p) \/ Leave(p) \/ ListenIPC(p) \/ WriteFile(p)
         \/ StartAccept(p)
  PROVE  IInv'
<1>0. TypeOK /\ Sessions /\ Turns
  BY DEF IInv
<1>1. {"starting", "ready", "listen", "writing", "accepting", "leaving", "ended"}
        \subseteq PCs
  BY DEF PCs
<1>2. CASE StartSession(p)
  <2>1. PICK to \in {"ready", "ended"} :
          /\ Goto(p, "starting", to)
          /\ session' = IF to = "ready" THEN session \cup {p} ELSE session
          /\ UNCHANGED <<todo, asking, stopCh, conns, sock, endpoint, token, pid, cl, saw,
                         told, overlap, silent>>
    BY <1>2 DEF StartSession, fileVars, clientVars
  <2>2. /\ pc' \in [Procs -> PCs] /\ pc[p] = "starting" /\ pc'[p] = to
        /\ \A q \in Procs \ {p} : pc'[q] = pc[q]
    BY <2>1, <1>0, <1>1, GotoMoves
  <2>3. TypeOK'
    BY <2>1, <2>2, <1>0 DEF TypeOK
  <2>4. Alive(p) /\ Owned(p)'
    BY <2>2 DEF Alive, Owned, Listening
  <2>5. p \notin session
    BY <2>2, <1>0 DEF Sessions
  <2> QED
    BY <2>1, <2>2, <2>3, <2>4, <2>5, ProcKeeps DEF Late, Up
<1>3. CASE CheckPID(p)
  <2>1. PICK to \in {"listen", "leaving"} :
          /\ Goto(p, "ready", to)
          /\ UNCHANGED <<todo, session, asking, stopCh, conns, sock, endpoint, token, pid, cl, saw,
                         told, overlap, silent>>
    BY <1>3 DEF CheckPID, fileVars, clientVars
  <2>2. /\ pc' \in [Procs -> PCs] /\ pc[p] = "ready" /\ pc'[p] = to
        /\ \A q \in Procs \ {p} : pc'[q] = pc[q]
    BY <2>1, <1>0, <1>1, GotoMoves
  <2>3. TypeOK'
    BY <2>1, <2>2, <1>0 DEF TypeOK
  <2>4. Alive(p) /\ Owned(p)'
    BY <2>2 DEF Alive, Owned, Listening
  <2> QED
    BY <2>1, <2>2, <2>3, <2>4, ProcKeeps DEF Late, Up
<1>4. CASE ListenIPC(p)
  <2>1. /\ Goto(p, "listen", "writing") /\ sock' = p
        /\ todo' = [todo EXCEPT ![p] = {"endpoint", "token", "pid"}]
        /\ UNCHANGED <<session, asking, stopCh, conns, endpoint, token, pid, cl, saw,
                       told, overlap, silent>>
    BY <1>4 DEF ListenIPC, clientVars
  <2>2. /\ pc' \in [Procs -> PCs] /\ pc[p] = "listen" /\ pc'[p] = "writing"
        /\ \A q \in Procs \ {p} : pc'[q] = pc[q]
    BY <2>1, <1>0, <1>1, GotoMoves
  <2>3. /\ todo' \in [Procs -> SUBSET Files] /\ todo'[p] = {"endpoint", "token", "pid"}
    BY <2>1, <1>0, Types DEF Files
  <2>4. TypeOK'
    BY <2>1, <2>2, <2>3, <1>0 DEF TypeOK
  <2>5. Alive(p) /\ Owned(p)'
    BY <2>1, <2>2, <2>3 DEF Alive, Owned, Listening
  <2> QED
    BY <2>1, <2>2, <2>4, <2>5, ProcKeeps DEF Late, Up
<1>5. CASE WriteFile(p)
  <2>1. PICK f \in todo[p] :
          /\ todo' = [todo EXCEPT ![p] = @ \ {f}]
          /\ endpoint' = (endpoint \/ f = "endpoint")
          /\ token' = IF f = "token" THEN p ELSE token
          /\ pid' = IF f = "pid" THEN p ELSE pid
    BY <1>5 DEF WriteFile
  <2>2. /\ pc[p] = "writing"
        /\ UNCHANGED <<pc, session, asking, stopCh, conns, sock, cl, saw, told, overlap,
                       silent>>
    BY <1>5 DEF WriteFile, clientVars
  <2>3. todo' \in [Procs -> SUBSET Files] /\ todo'[p] = todo[p] \ {f}
    BY <2>1, <1>0, Types
  <2>4. endpoint' \in BOOLEAN
    BY <2>1, Zenon
  <2>5. TypeOK'
    BY <2>1, <2>2, <2>3, <2>4, <1>0 DEF TypeOK
  <2>6. Alive(p) /\ Listening(p)'
    BY <2>2 DEF Alive, Listening
  <2>7. ~overlap => Owned(p)'
    <3>1. ~overlap => /\ sock = p
                      /\ "endpoint" \notin todo[p] => endpoint
                      /\ "token" \notin todo[p] => token = p
      BY <2>2, <1>0 DEF Turns, Owned, Listening
    <3> QED
      BY <3>1, <2>1, <2>2, <2>3 DEF Owned, Listening
  <2>8. p \in session' => pc'[p] \in {"writing"}
    BY <2>2
  <2> QED
    BY <2>2, <2>5, <2>6, <2>7, ProcKeeps DEF Late, Up
<1>6. CASE StartAccept(p)
  <2>1. /\ Goto(p, "writing", "accepting") /\ todo[p] = {}
        /\ UNCHANGED <<todo, session, asking, stopCh, conns, sock, endpoint, token, pid,
                       cl, saw, told, overlap, silent>>
    BY <1>6 DEF StartAccept, fileVars, clientVars
  <2>2. /\ pc' \in [Procs -> PCs] /\ pc[p] = "writing" /\ pc'[p] = "accepting"
        /\ \A q \in Procs \ {p} : pc'[q] = pc[q]
    BY <2>1, <1>0, <1>1, GotoMoves
  <2>3. TypeOK'
    BY <2>1, <2>2, <1>0 DEF TypeOK
  <2>4. Alive(p)
    BY <2>2 DEF Alive
  <2>5. ~overlap => Owned(p)'
    BY <2>1, <2>2, <1>0 DEF Turns, Owned, Listening
  <2> QED
    BY <2>1, <2>2, <2>3, <2>4, <2>5, ProcKeeps DEF Late, Up
<1>7. CASE Leave(p)
  <2>1. /\ Goto(p, "leaving", "ended") /\ session' = session \ {p}
        /\ UNCHANGED <<todo, asking, stopCh, conns, sock, endpoint, token, pid, cl, saw,
                       told, overlap, silent>>
    BY <1>7 DEF Leave, Torn, fileVars, clientVars
  <2>2. /\ pc' \in [Procs -> PCs] /\ pc[p] = "leaving" /\ pc'[p] = "ended"
        /\ \A q \in Procs \ {p} : pc'[q] = pc[q]
    BY <2>1, <1>0, <1>1, GotoMoves
  <2>3. TypeOK'
    BY <2>1, <2>2, <1>0 DEF TypeOK
  <2>4. Alive(p) /\ Owned(p)'
    BY <2>2 DEF Alive, Owned, Listening
  <2> QED
    BY <2>1, <2>2, <2>3, <2>4, ProcKeeps DEF Late, Up
<1> QED
  BY <1>2, <1>3, <1>4, <1>5, <1>6, <1>7

\* The select loop, the shutdown, and Close.
LEMMA StopKeeps ==
  ASSUME IInv, NEW p \in Procs,
         \/ EnterLoop(p) \/ LeaveLoop(p) \/ Shutdown(p) \/ CloseListener(p)
         \/ WriteFails(p) \/ Drained(p) \/ RemoveFile(p) \/ Exit(p) \/ Crash(p)
  PROVE  IInv'
<1>0. TypeOK /\ Sessions /\ Told /\ Turns
  BY DEF IInv
<1>1. PCs = {"idle", "starting", "ready", "listen", "writing", "accepting", "select",
             "stopping", "closing", "draining", "removing", "leaving", "ended", "dead"}
  BY DEF PCs
<1>2. ASSUME NEW kept \in SUBSET conns[p],
             cl' = [c \in Clients |-> IF c \in conns[p] \ kept THEN "error" ELSE cl[c]]
      PROVE  /\ cl' \in [Clients -> ClStates]
             /\ \A c \in Clients : cl'[c] = "stopped" => cl[c] = "stopped"
  BY <1>0, <1>2, Types DEF ClStates
<1>3. CASE EnterLoop(p)
  <2>1. /\ Goto(p, "accepting", "select")
        /\ UNCHANGED <<todo, session, asking, stopCh, conns, sock, endpoint, token, pid,
                       cl, saw, told, overlap, silent>>
    BY <1>3 DEF EnterLoop, fileVars, clientVars
  <2>2. /\ pc' \in [Procs -> PCs] /\ pc[p] = "accepting" /\ pc'[p] = "select"
        /\ \A q \in Procs \ {p} : pc'[q] = pc[q]
    BY <2>1, <1>0, <1>1, GotoMoves
  <2>3. TypeOK'
    BY <2>1, <2>2, <1>0 DEF TypeOK
  <2>4. Alive(p)
    BY <2>2 DEF Alive
  <2>5. ~overlap => Owned(p)'
    BY <2>1, <2>2, <1>0 DEF Turns, Owned, Listening
  <2> QED
    BY <2>1, <2>2, <2>3, <2>4, <2>5, ProcKeeps DEF Late, Up
<1>4. CASE LeaveLoop(p)
  <2>1. /\ Goto(p, "select", "stopping") /\ stopCh' \in {stopCh, stopCh \ {p}}
        /\ UNCHANGED <<todo, session, asking, conns, sock, endpoint, token, pid, cl, saw,
                       told, overlap, silent>>
    BY <1>4 DEF LeaveLoop, fileVars, clientVars
  <2>2. /\ pc' \in [Procs -> PCs] /\ pc[p] = "select" /\ pc'[p] = "stopping"
        /\ \A q \in Procs \ {p} : pc'[q] = pc[q]
    BY <2>1, <1>0, <1>1, GotoMoves
  <2>3. TypeOK'
    BY <2>1, <2>2, <1>0 DEF TypeOK
  <2>4. Alive(p)
    BY <2>2 DEF Alive
  <2>5. ~overlap => Owned(p)'
    BY <2>1, <2>2, <1>0 DEF Turns, Owned, Listening
  <2> QED
    BY <2>1, <2>2, <2>3, <2>4, <2>5, ProcKeeps DEF Late, Up
<1>5. CASE Shutdown(p)
  <2>1. /\ Goto(p, "stopping", "closing") /\ session' = session \ {p}
        /\ UNCHANGED <<todo, asking, stopCh, conns, sock, endpoint, token, pid, cl, saw,
                       told, overlap, silent>>
    BY <1>5 DEF Shutdown, Torn, fileVars, clientVars
  <2>2. /\ pc' \in [Procs -> PCs] /\ pc[p] = "stopping" /\ pc'[p] = "closing"
        /\ \A q \in Procs \ {p} : pc'[q] = pc[q]
    BY <2>1, <1>0, <1>1, GotoMoves
  <2>3. TypeOK'
    BY <2>1, <2>2, <1>0 DEF TypeOK
  <2>4. Alive(p)
    BY <2>2 DEF Alive
  <2>5. ~overlap => Owned(p)'
    BY <2>1, <2>2, <1>0 DEF Turns, Owned, Listening
  <2> QED
    BY <2>1, <2>2, <2>3, <2>4, <2>5, ProcKeeps DEF Late, Up
<1>6. CASE CloseListener(p)
  <2>1. PICK kept \in SUBSET conns[p] :
          /\ conns' = [conns EXCEPT ![p] = kept]
          /\ cl' = [c \in Clients |-> IF c \in conns[p] \ conns'[p] THEN "error" ELSE cl[c]]
    BY <1>6 DEF CloseListener
  <2>2. /\ Goto(p, "closing", "draining") /\ sock' = Nobody
        /\ UNCHANGED <<todo, session, asking, stopCh, endpoint, token, pid, saw, told,
                       overlap, silent>>
    BY <1>6 DEF CloseListener
  <2>3. /\ pc' \in [Procs -> PCs] /\ pc[p] = "closing" /\ pc'[p] = "draining"
        /\ \A q \in Procs \ {p} : pc'[q] = pc[q]
    BY <2>2, <1>0, <1>1, GotoMoves
  <2>4. /\ conns' \in [Procs -> SUBSET Clients] /\ conns'[p] = kept
        /\ \A q \in Procs \ {p} : conns'[q] = conns[q]
    BY <2>1, <1>0, Types
  <2>5. /\ cl' \in [Clients -> ClStates]
        /\ \A c \in Clients : cl'[c] = "stopped" => cl[c] = "stopped"
    BY <2>1, <2>4, <1>2
  <2>6. TypeOK'
    BY <2>2, <2>3, <2>4, <2>5, <1>0 DEF TypeOK, ClStates
  <2>7. p \notin session
    BY <2>3, <1>0 DEF Sessions
  <2>8. Alive(p) /\ Owned(p)'
    BY <2>3 DEF Alive, Owned, Listening
  <2> QED
    BY <2>2, <2>3, <2>4, <2>5, <2>6, <2>7, <2>8, ProcKeeps DEF Late, Up
<1>7. CASE WriteFails(p)
  <2>1. /\ Goto(p, "writing", "draining") /\ sock' = Nobody
        /\ conns' = [conns EXCEPT ![p] = {}]
        /\ cl' = [c \in Clients |-> IF c \in conns[p] THEN "error" ELSE cl[c]]
        /\ UNCHANGED <<todo, session, asking, stopCh, endpoint, token, pid, saw, told,
                       overlap, silent>>
    BY <1>7 DEF WriteFails
  <2>2. /\ pc' \in [Procs -> PCs] /\ pc[p] = "writing" /\ pc'[p] = "draining"
        /\ \A q \in Procs \ {p} : pc'[q] = pc[q]
    BY <2>1, <1>0, <1>1, GotoMoves
  <2>3. /\ conns' \in [Procs -> SUBSET Clients] /\ conns'[p] = {}
        /\ \A q \in Procs \ {p} : conns'[q] = conns[q]
    BY <2>1, <1>0, Types
  <2>4. /\ cl' \in [Clients -> ClStates]
        /\ \A c \in Clients : cl'[c] = "stopped" => cl[c] = "stopped"
    BY <2>1, <1>0, Types DEF ClStates
  <2>5. TypeOK'
    BY <2>1, <2>2, <2>3, <2>4, <1>0 DEF TypeOK, ClStates
  <2>6. Alive(p) /\ Owned(p)'
    BY <2>2 DEF Alive, Owned, Listening
  <2> QED
    BY <2>1, <2>2, <2>3, <2>4, <2>5, <2>6, ProcKeeps DEF Late, Up
<1>8. CASE Drained(p)
  <2>1. /\ Goto(p, "draining", "removing") /\ todo' = [todo EXCEPT ![p] = Files]
        /\ UNCHANGED <<session, asking, stopCh, conns, sock, endpoint, token, pid, cl,
                       saw, told, overlap, silent>>
    BY <1>8 DEF Drained, fileVars, clientVars
  <2>2. /\ pc' \in [Procs -> PCs] /\ pc[p] = "draining" /\ pc'[p] = "removing"
        /\ \A q \in Procs \ {p} : pc'[q] = pc[q]
    BY <2>1, <1>0, <1>1, GotoMoves
  <2>3. todo' \in [Procs -> SUBSET Files]
    BY <2>1, <1>0, Types
  <2>4. TypeOK'
    BY <2>1, <2>2, <2>3, <1>0 DEF TypeOK
  <2>5. Alive(p) /\ Owned(p)'
    BY <2>2 DEF Alive, Owned, Listening
  <2> QED
    BY <2>1, <2>2, <2>4, <2>5, ProcKeeps DEF Late, Up
<1>9. CASE RemoveFile(p)
  <2>1. PICK f \in todo[p] :
          /\ todo' = [todo EXCEPT ![p] = @ \ {f}]
          /\ endpoint' = (endpoint /\ f # "endpoint")
          /\ token' = IF f = "token" THEN Nobody ELSE token
          /\ pid' = IF f = "pid" THEN Nobody ELSE pid
          /\ sock' = IF f = "control.sock" THEN Nobody ELSE sock
    BY <1>9 DEF RemoveFile
  <2>2. /\ pc[p] = "removing"
        /\ UNCHANGED <<pc, session, asking, stopCh, conns, cl, saw, told, overlap,
                       silent>>
    BY <1>9 DEF RemoveFile, clientVars
  <2>3. todo' \in [Procs -> SUBSET Files]
    BY <2>1, <1>0, Types
  <2>4. endpoint' \in BOOLEAN
    BY <2>1, Zenon
  <2>5. TypeOK'
    BY <2>1, <2>2, <2>3, <2>4, <1>0 DEF TypeOK
  <2>6. Alive(p) /\ Owned(p)'
    BY <2>2 DEF Alive, Owned, Listening
  <2> QED
    BY <2>2, <2>5, <2>6, ProcKeeps DEF Late, Up
<1>10. CASE Exit(p)
  <2>1. /\ Goto(p, "removing", "ended") /\ session' = session \ {p}
        /\ UNCHANGED <<todo, asking, stopCh, conns, sock, endpoint, token, pid, cl, saw,
                       told, overlap, silent>>
    BY <1>10 DEF Exit, Torn, fileVars, clientVars
  <2>2. /\ pc' \in [Procs -> PCs] /\ pc[p] = "removing" /\ pc'[p] = "ended"
        /\ \A q \in Procs \ {p} : pc'[q] = pc[q]
    BY <2>1, <1>0, <1>1, GotoMoves
  <2>3. TypeOK'
    BY <2>1, <2>2, <1>0 DEF TypeOK
  <2>4. Alive(p) /\ Owned(p)'
    BY <2>2 DEF Alive, Owned, Listening
  <2> QED
    BY <2>1, <2>2, <2>3, <2>4, ProcKeeps DEF Late, Up
<1>11. CASE Crash(p)
  <2>1. /\ Alive(p) /\ pc' = [pc EXCEPT ![p] = "dead"]
        /\ session' = session \ {p}
        /\ conns' = [conns EXCEPT ![p] = {}]
        /\ cl' = [c \in Clients |-> IF c \in conns[p] THEN "error" ELSE cl[c]]
        /\ UNCHANGED <<todo, asking, stopCh, sock, endpoint, token, pid, saw, told,
                       overlap, silent>>
    BY <1>11 DEF Crash, fileVars
  <2>2. /\ pc' \in [Procs -> PCs] /\ pc'[p] = "dead"
        /\ \A q \in Procs \ {p} : pc'[q] = pc[q]
    BY <2>1, <1>0, <1>1, Types
  <2>3. /\ conns' \in [Procs -> SUBSET Clients]
        /\ \A q \in Procs \ {p} : conns'[q] = conns[q]
    BY <2>1, <1>0, Types
  <2>4. /\ cl' \in [Clients -> ClStates]
        /\ \A c \in Clients : cl'[c] = "stopped" => cl[c] = "stopped"
    BY <2>1, <1>0, Types DEF ClStates
  <2>5. TypeOK'
    BY <2>1, <2>2, <2>3, <2>4, <1>0 DEF TypeOK, ClStates
  <2>6. Owned(p)'
    BY <2>2 DEF Owned, Listening
  <2> QED
    BY <2>1, <2>2, <2>3, <2>4, <2>5, <2>6, ProcKeeps DEF Late, Up
<1> QED
  BY <1>3, <1>4, <1>5, <1>6, <1>7, <1>8, <1>9, <1>10, <1>11

\* A new controller: an overlap, or the only one alive.
LEMMA CheckRunningKeeps ==
  ASSUME IInv, NEW p \in Procs, CheckRunning(p)
  PROVE  IInv'
<1>0. TypeOK /\ Sessions /\ Told /\ Turns
  BY DEF IInv
<1>1. PICK to \in {"starting", "ended"} : Goto(p, "idle", to)
  BY DEF CheckRunning
<1>2. /\ overlap' = (overlap \/ \E q \in Procs : Alive(q))
      /\ UNCHANGED <<todo, session, asking, stopCh, conns, sock, endpoint, token, pid,
                     cl, saw, told, silent>>
  BY DEF CheckRunning, fileVars, clientVars
<1>3. /\ pc' \in [Procs -> PCs] /\ pc[p] = "idle" /\ pc'[p] = to
      /\ \A q \in Procs \ {p} : pc'[q] = pc[q]
  BY <1>0, <1>1, GotoMoves DEF PCs
<1>4. overlap' \in BOOLEAN
  BY <1>2, Zenon
<1>5. TypeOK'
  BY <1>0, <1>2, <1>3, <1>4 DEF TypeOK
<1>6. Sessions'
  <2>1. p \notin session
    BY <1>0, <1>3 DEF Sessions
  <2> QED
    BY <2>1, <1>0, <1>2, <1>3, Types DEF Sessions
<1>7. Told'
  <2>1. \A c \in Clients : told[c] # Nobody => told[c] \in Procs \ {p}
    BY <1>0, <1>3, Types DEF Told
  <2> QED
    BY <2>1, <1>0, <1>2, <1>3 DEF Told
<1>8. Turns'
  <2> SUFFICES ASSUME ~overlap'
               PROVE  Turns'
    BY DEF Turns
  <2>1. ~overlap /\ \A q \in Procs : ~Alive(q)
    BY <1>2
  <2>2. /\ \A q \in Procs \ {p} : ~Alive(q)'
        /\ \A q \in Procs : ~Listening(q)'
    BY <2>1, <1>3 DEF Alive, Listening
  <2>3. \A q \in Procs : Owned(q)'
    BY <2>2 DEF Owned
  <2> QED
    BY <2>1, <2>2, <2>3, <1>0, <1>2 DEF Turns
<1> QED
  BY <1>5, <1>6, <1>7, <1>8 DEF IInv

-----------------------------------------------------------------------------
(* Requests *)

\* The controllers and the run directory stay as they are.
LEMMA StandStill ==
  ASSUME IInv, UNCHANGED <<pc, todo, session, sock, endpoint, token, pid, overlap>>
  PROVE  /\ \A p \in Procs : (Alive(p)' <=> Alive(p)) /\ (Owned(p) => Owned(p)')
         /\ ~overlap => /\ \A p, q \in Procs : Alive(p)' /\ Alive(q)' => p = q
                        /\ \A p \in Procs : Owned(p)'
BY DEF IInv, Turns, Alive, Owned, Listening

\* Requests are served, and a stop is asked for.
LEMMA ServerKeeps ==
  ASSUME IInv, NEW p \in Procs, ServerStep(p)
  PROVE  IInv'
<1>0. TypeOK /\ Sessions /\ Told /\ Turns
  BY DEF IInv
<1>1. CASE RequestStop(p)
  <2>1. /\ asking' = asking \ {p} /\ stopCh' = stopCh \cup {p}
        /\ UNCHANGED <<pc, todo, session, conns, sock, endpoint, token, pid, cl, saw,
                       told, overlap, silent>>
    BY <1>1 DEF RequestStop, fileVars, clientVars
  <2>2. TypeOK'
    BY <2>1, <1>0 DEF TypeOK
  <2>3. Sessions' /\ Told'
    BY <2>1, <1>0 DEF Sessions, Told
  <2>4. Turns'
    BY <2>1, <1>0, StandStill DEF Turns
  <2> QED
    BY <2>2, <2>3, <2>4 DEF IInv
<1>2. ASSUME NEW c \in Clients, Serve(p, c)
      PROVE  IInv'
  <2>1. /\ c \in conns[p] /\ (Accepting(p) \/ pc[p] = "draining")
        /\ conns' = [conns EXCEPT ![p] = @ \ {c}]
        /\ UNCHANGED <<pc, todo, session, stopCh, sock, endpoint, token, pid, saw,
                       overlap, silent>>
    BY <1>2 DEF Serve, fileVars
  <2>2. PICK to \in {"waiting", "error"} :
          /\ cl' = [cl EXCEPT ![c] = to]
          /\ asking' \in {asking, asking \cup {p}}
          /\ told' \in {told, [told EXCEPT ![c] = p]}
    BY <1>2 DEF Serve
  <2>3. /\ conns' \in [Procs -> SUBSET Clients] /\ conns'[p] = conns[p] \ {c}
        /\ \A q \in Procs \ {p} : conns'[q] = conns[q]
    BY <2>1, <1>0, Types
  <2>4. /\ cl' \in [Clients -> ClStates] /\ cl'[c] = to
        /\ \A d \in Clients \ {c} : cl'[d] = cl[d]
    BY <2>2, <1>0, Types DEF ClStates
  <2>5. /\ told' \in [Clients -> Procs \cup {Nobody}] /\ told'[c] \in {told[c], p}
        /\ \A d \in Clients \ {c} : told'[d] = told[d]
    BY <2>2, <1>0, Types
  <2>6. TypeOK'
    BY <2>1, <2>2, <2>3, <2>4, <2>5, <1>0 DEF TypeOK, ClStates
  <2>7. Sessions'
    BY <2>1, <2>3, <1>0, Types DEF Sessions
  <2>8. /\ pc[p] \in Late
        /\ p \in session => pc[p] \in Up
    BY <2>1, <1>0 DEF Accepting, Listening, Sessions, Late, Up
  <2>9. Told'
    <3>1. ASSUME NEW d \in Clients, told'[d] # Nobody
          PROVE  /\ pc[told'[d]] \in Late
                 /\ told'[d] \in session => pc[told'[d]] \in Up
      <4>1. told'[d] = p \/ told'[d] = told[d]
        BY <2>5
      <4> QED
        BY <4>1, <3>1, <2>8, <1>0 DEF Told, Late, Up
    <3> QED
      BY <3>1, <2>1 DEF Told, Late, Up
  <2>10. Turns'
    <3>1. ~overlap => \A d \in Clients : cl'[d] = "stopped" => told'[d] \notin session
      BY <2>4, <2>5, <1>0 DEF Turns
    <3> QED
      BY <3>1, <2>1, StandStill DEF Turns
  <2> QED
    BY <2>6, <2>7, <2>9, <2>10 DEF IInv
<1> QED
  BY <1>1, <1>2 DEF ServerStep

\* --stop reads, connects and polls: it says "stopped" only when the endpoint is
\* not the one of a session that was told to stop.
LEMMA ClientKeeps ==
  ASSUME IInv, NEW c \in Clients, ClientReads(c) \/ ClientConnects(c) \/ ClientPolls(c)
  PROVE  IInv'
<1>0. TypeOK /\ Sessions /\ Told /\ Turns
  BY DEF IInv
<1>1. CASE ClientReads(c)
  <2>1. /\ UNCHANGED <<pc, todo, session, asking, stopCh, conns, sock, endpoint, token,
                       pid, told, overlap, silent>>
        /\ cl[c] = "idle"
        /\ saw' = [saw EXCEPT ![c] = IF Dialed THEN token ELSE Nobody]
    BY <1>1 DEF ClientReads, procVars, fileVars
  <2>2. PICK to \in {"connect", "error"} : cl' = [cl EXCEPT ![c] = to]
    BY <1>1 DEF ClientReads
  <2>3. /\ cl' \in [Clients -> ClStates] /\ cl'[c] = to
        /\ \A d \in Clients \ {c} : cl'[d] = cl[d]
    BY <2>2, <1>0, Types DEF ClStates
  <2>4. saw' \in [Clients -> Procs \cup {Nobody}]
    BY <2>1, <1>0, Types
  <2>5. TypeOK'
    BY <2>1, <2>3, <2>4, <1>0 DEF TypeOK, ClStates
  <2>6. Sessions' /\ Told'
    BY <2>1, <1>0 DEF Sessions, Told
  <2>7. ~overlap => \A d \in Clients : cl'[d] = "stopped" => told[d] \notin session
    BY <2>3, <1>0 DEF Turns
  <2>8. Turns'
    BY <2>1, <2>7, StandStill DEF Turns
  <2> QED
    BY <2>5, <2>6, <2>8 DEF IInv
<1>2. CASE ClientConnects(c)
  <2>1. UNCHANGED <<pc, todo, session, asking, stopCh, sock, endpoint, token, pid, saw,
                    told, overlap, silent>>
    BY <1>2 DEF ClientConnects, fileVars
  <2>2. PICK to \in {"sent", "error"} : cl' = [cl EXCEPT ![c] = to]
    BY <1>2 DEF ClientConnects
  <2>3. \/ conns' = conns
        \/ /\ sock # Nobody /\ Listening(sock)
           /\ conns' = [conns EXCEPT ![sock] = @ \cup {c}]
    BY <1>2 DEF ClientConnects, Answered
  <2>4. /\ cl' \in [Clients -> ClStates] /\ cl'[c] = to
        /\ \A d \in Clients \ {c} : cl'[d] = cl[d]
    BY <2>2, <1>0, Types DEF ClStates
  <2>5. /\ conns' \in [Procs -> SUBSET Clients]
        /\ \A p \in Procs : conns'[p] = conns[p] \/ Listening(p)
    BY <2>3, <1>0, Types
  <2>6. TypeOK'
    BY <2>1, <2>4, <2>5, <1>0 DEF TypeOK, ClStates
  <2>7. Sessions' /\ Told'
    BY <2>1, <2>5, <1>0, Types DEF Sessions, Told, Listening
  <2>8. ~overlap => \A d \in Clients : cl'[d] = "stopped" => told[d] \notin session
    BY <2>4, <1>0 DEF Turns
  <2>9. Turns'
    BY <2>1, <2>8, StandStill DEF Turns
  <2> QED
    BY <2>6, <2>7, <2>9 DEF IInv
<1>3. CASE ClientPolls(c)
  <2>1. UNCHANGED <<pc, todo, session, asking, stopCh, conns, sock, endpoint, token, pid,
                    saw, told, overlap, silent>>
    BY <1>3 DEF ClientPolls, procVars, fileVars
  <2>2. PICK to \in {"error", "stopped"} :
          /\ cl' = [cl EXCEPT ![c] = to]
          /\ to = "stopped" => ~Dialed
    BY <1>3 DEF ClientPolls
  <2>3. /\ cl' \in [Clients -> ClStates] /\ cl'[c] = to
        /\ \A d \in Clients \ {c} : cl'[d] = cl[d]
    BY <2>2, <1>0, Types DEF ClStates
  <2>4. TypeOK'
    BY <2>1, <2>3, <1>0 DEF TypeOK, ClStates
  <2>5. Sessions' /\ Told'
    BY <2>1, <1>0 DEF Sessions, Told
  <2>6. ASSUME ~overlap, told[c] \in session
        PROVE  Dialed
    <3>1. told[c] \in Procs /\ told[c] # Nobody
      BY <2>6, <1>0, Types, ControlAssumption
    <3>2. pc[told[c]] \in {"accepting", "select", "stopping"}
      BY <3>1, <2>6, <1>0 DEF Told
    <3>3. sock = told[c] /\ endpoint /\ token = told[c]
      BY <3>1, <3>2, <2>6, <1>0 DEF Turns, Owned, Listening
    <3> QED
      BY <3>1, <3>2, <3>3 DEF Dialed, Answered, Listening
  <2>7. ~overlap => \A d \in Clients : cl'[d] = "stopped" => told[d] \notin session
    BY <2>2, <2>3, <2>6, <1>0 DEF Turns
  <2>8. Turns'
    BY <2>1, <2>7, StandStill DEF Turns
  <2> QED
    BY <2>4, <2>5, <2>8 DEF IInv
<1> QED
  BY <1>1, <1>2, <1>3

\* A far end falls silent or wakes up.
LEMMA FarEndKeeps ==
  ASSUME IInv, NEW p \in Procs, FarEndStalls(p) \/ FarEndEnds(p)
  PROVE  IInv'
<1>0. TypeOK /\ Sessions /\ Told /\ Turns
  BY DEF IInv
<1>1. /\ silent' \in {silent \cup {p}, silent \ {p}}
      /\ UNCHANGED <<pc, todo, session, asking, stopCh, conns, sock, endpoint, token, pid,
                     cl, saw, told, overlap>>
  BY DEF FarEndStalls, FarEndEnds, procVars, fileVars, clientVars
<1>2. TypeOK'
  BY <1>0, <1>1 DEF TypeOK
<1>3. Sessions' /\ Told'
  BY <1>0, <1>1 DEF Sessions, Told
<1>4. Turns'
  <2>1. UNCHANGED <<pc, todo, session, sock, endpoint, token, pid, overlap>>
    BY <1>1
  <2>2. ~overlap => \A c \in Clients : cl'[c] = "stopped" => told'[c] \notin session'
    BY <1>0, <1>1 DEF Turns
  <2> QED
    BY <2>1, <2>2, StandStill DEF Turns
<1> QED
  BY <1>2, <1>3, <1>4 DEF IInv

-----------------------------------------------------------------------------
(* The theorems *)

\* Nothing has been started and the run directory is empty.
LEMMA InitInv == Init => IInv
<1> SUFFICES ASSUME Init
             PROVE  IInv
  OBVIOUS
<1>1. TypeOK
  BY DEF Init, TypeOK, PCs
<1>2. Sessions /\ Told /\ Turns
  BY DEF Init, Sessions, Told, Turns, Alive, Owned, Listening
<1> QED
  BY <1>1, <1>2 DEF IInv

\* Every step keeps the invariant.
LEMMA StepInv == IInv /\ [Next]_vars => IInv'
<1> SUFFICES ASSUME IInv, [Next]_vars
             PROVE  IInv'
  OBVIOUS
<1>1. CASE UNCHANGED vars
  <2>1. UNCHANGED <<pc, todo, session, asking, stopCh, conns, sock, endpoint, token, pid,
                    cl, saw, told, overlap, silent>>
    BY <1>1 DEF vars, procVars, fileVars, clientVars
  <2>2. TypeOK' /\ Sessions' /\ Told'
    BY <2>1 DEF IInv, TypeOK, Sessions, Told
  <2>3. Turns'
    BY <2>1, StandStill DEF IInv, Turns
  <2> QED
    BY <2>2, <2>3 DEF IInv
<1> QED
  BY <1>1, StartKeeps, StopKeeps, CheckRunningKeeps, ServerKeeps, ClientKeeps,
     FarEndKeeps
     DEF Next, ProcStep

\* The inductive invariant holds in every state of the control channel, for any
\* number of controllers and clients, with or without --fresh.
THEOREM Invariance == Spec => []IInv
BY InitInv, StepInv, PTL DEF Spec

\* Types of the run directory, the controllers and the clients.
THEOREM TypeCorrect == Spec => []TypeOK
<1>1. IInv => TypeOK
  BY DEF IInv
<1> QED
  BY <1>1, Invariance, PTL

\* main.go start and ipc.go Listen: a controller that is in its select loop can be
\* found by --stop, through crashes of the earlier ones and whatever they left, if
\* none of them was alive when it started.
THEOREM RunsAreReachable == Spec => []SequentialRunIsReachable
<1>1. ASSUME IInv
      PROVE  SequentialRunIsReachable
  <2>1. ASSUME ~overlap, NEW p \in Procs, pc[p] = "select"
        PROVE  Reachable(p)
    <3>1. sock = p /\ endpoint /\ token = p
      BY <2>1, <1>1 DEF IInv, Turns, Owned, Listening
    <3>2. p # Nobody
      BY ControlAssumption
    <3> QED
      BY <3>1, <3>2, <2>1 DEF Reachable, Dialed, Answered, Listening
  <2> QED
    BY <2>1 DEF SequentialRunIsReachable
<1> QED
  BY <1>1, Invariance, PTL

\* main.go stopSession: "stopped" is printed of a session that is down.
THEOREM StoppedIsDown == Spec => []StoppedMeansDown
<1>1. IInv => StoppedMeansDown
  BY DEF IInv, Turns, StoppedMeansDown
<1> QED
  BY <1>1, Invariance, PTL

\* Who acknowledged a shutdown call and has not left its loop has the request in
\* stopCh, or a goroutine that will put it there.
Pending ==
  \A c \in Clients : told[c] # Nobody /\ pc[told[c]] \in {"accepting", "select"} =>
    told[c] \in asking \cup stopCh

\* Told excludes that a controller acknowledged a call before it was accepting, and
\* a token leaves stopCh only with the loop.
LEMMA PendingKeeps == IInv /\ Pending /\ [Next]_vars => Pending'
<1> SUFFICES ASSUME IInv, Pending, [Next]_vars,
                    NEW c \in Clients, told'[c] # Nobody,
                    pc'[told'[c]] \in {"accepting", "select"}
             PROVE  told'[c] \in asking' \cup stopCh'
  BY DEF Pending
<1> DEFINE q == told'[c]
<1>0. TypeOK /\ Told
  BY DEF IInv
<1>1. CASE \E p \in Procs, d \in Clients : Serve(p, d) /\ told' # told
  <2>1. PICK p \in Procs, d \in Clients : Serve(p, d) /\ told' # told
    BY <1>1
  <2>2. told' = [told EXCEPT ![d] = p] /\ asking' = asking \cup {p}
        /\ UNCHANGED <<pc, stopCh>>
    BY <2>1 DEF Serve
  <2>3. CASE c = d
    BY <2>2, <2>3, <1>0, Types
  <2>4. CASE c # d
    <3>1. told'[c] = told[c]
      BY <2>2, <2>4, <1>0, Types
    <3> QED
      BY <3>1, <2>2 DEF Pending
  <2> QED
    BY <2>3, <2>4
<1>2. CASE told' = told
  <2>1. q \in Procs /\ q = told[c]
    BY <1>2, <1>0, Types
  <2>2. pc[q] \in {"accepting", "select", "stopping", "closing", "draining",
                   "removing", "ended", "dead"}
    BY <2>1, <1>2, <1>0 DEF Told
  <2>3. CASE UNCHANGED <<pc, asking, stopCh>>
    BY <2>1, <2>3, <1>2 DEF Pending
  <2>4. ASSUME NEW p \in Procs,
               \/ CheckRunning(p) \/ StartSession(p) \/ CheckPID(p) \/ Leave(p) \/ ListenIPC(p)
               \/ StartAccept(p) \/ EnterLoop(p) \/ Shutdown(p) \/ CloseListener(p)
               \/ Drained(p) \/ Exit(p) \/ WriteFails(p) \/ Crash(p)
        PROVE  q \in asking' \cup stopCh'
    <3>1. UNCHANGED <<asking, stopCh>>
      BY <2>4 DEF CheckRunning, StartSession, CheckPID, Leave, ListenIPC, StartAccept, EnterLoop,
         Shutdown, CloseListener, Drained, Exit, WriteFails, Crash
    <3>2. pc[q] \in {"accepting", "select"}
      BY <2>4, <2>1, <2>2, <1>0, Types
         DEF CheckRunning, StartSession, CheckPID, Leave, ListenIPC, StartAccept, EnterLoop,
         Shutdown, CloseListener, Drained, Exit, WriteFails, Crash, Goto
    <3> QED
      BY <3>1, <3>2, <2>1, <1>2 DEF Pending
  <2>5. ASSUME NEW p \in Procs, LeaveLoop(p)
        PROVE  q \in asking' \cup stopCh'
    <3>1. q # p /\ pc'[q] = pc[q]
      BY <2>5, <2>1, <1>0, Types DEF LeaveLoop, Goto
    <3> QED
      BY <3>1, <2>5, <2>1, <1>2 DEF LeaveLoop, Pending
  <2>6. ASSUME NEW p \in Procs, RequestStop(p)
        PROVE  q \in asking' \cup stopCh'
    BY <2>6, <2>1, <1>2 DEF RequestStop, Pending
  <2>7. ASSUME NEW p \in Procs, NEW d \in Clients, Serve(p, d)
        PROVE  q \in asking' \cup stopCh'
    <3>1. pc' = pc /\ stopCh' = stopCh /\ asking \subseteq asking'
      BY <2>7 DEF Serve
    <3> QED
      BY <3>1, <2>1, <1>2 DEF Pending
  <2>8. ASSUME NEW p \in Procs, WriteFile(p) \/ RemoveFile(p)
        PROVE  UNCHANGED <<pc, asking, stopCh>>
    BY <2>8 DEF WriteFile, RemoveFile
  <2>9. ASSUME NEW d \in Clients, ClientReads(d) \/ ClientConnects(d) \/ ClientPolls(d)
        PROVE  UNCHANGED <<pc, asking, stopCh>>
    BY <2>9 DEF ClientReads, ClientConnects, ClientPolls, procVars
  <2>10. ASSUME \/ UNCHANGED vars
                \/ \E p \in Procs : FarEndStalls(p) \/ FarEndEnds(p)
         PROVE  UNCHANGED <<pc, asking, stopCh>>
    BY <2>10 DEF vars, procVars, FarEndStalls, FarEndEnds
  <2> QED
    BY <2>3, <2>4, <2>5, <2>6, <2>7, <2>8, <2>9, <2>10 DEF Next, ProcStep, ServerStep
<1>3. told' = told \/ \E p \in Procs, d \in Clients : Serve(p, d)
  BY DEF Next, ProcStep, ServerStep, CheckRunning, StartSession, CheckPID, Leave, ListenIPC,
     WriteFile, StartAccept, EnterLoop, LeaveLoop, Shutdown, CloseListener, WriteFails,
     Drained, RemoveFile, Exit, Crash, RequestStop, ClientReads, ClientConnects,
     ClientPolls, FarEndStalls, FarEndEnds, vars, clientVars
<1> QED
  BY <1>1, <1>2, <1>3

\* The safety half of AcknowledgedStopHappens (main.go:181-187): a stop that was
\* acknowledged is never lost, though it may come before the select loop, twice, or
\* from several clients at once, and controllers may overlap.
THEOREM NoStopIsLost == Spec => []Pending
<1>1. Init => Pending
  BY DEF Init, Pending
<1> QED
  BY <1>1, Invariance, PendingKeeps, PTL DEF Spec
=============================================================================
