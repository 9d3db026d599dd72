--------------------------- MODULE ControlChannel ---------------------------
(***************************************************************************)
(* The control channel (ipc/ipc.go over a Unix socket, routing/platform/   *)
(* unix.go) in the life of a controller process (cmd/tab-router/main.go    *)
(* start), and `tab-router --stop` as its client.                          *)
(*                                                                         *)
(* Several controllers share one run directory: the socket control.sock    *)
(* and the files endpoint, token and pid.  Nothing locks the directory.    *)
(* What a controller does to it is one step per file.  A session is the    *)
(* identity-set lock it holds: exclusive here, Identities is about how.    *)
(* Controllers in Fresh use a new set of their own (--fresh).              *)
(***************************************************************************)
EXTENDS Naturals

CONSTANTS
  Procs,     \* controller processes, each started at most once
  Fresh,     \* the ones started with --fresh
  Clients,   \* `tab-router --stop` invocations
  Nobody     \* no process

ASSUME ControlAssumption == Fresh \subseteq Procs /\ Nobody \notin Procs

VARIABLES
  pc,        \* where each controller is
  todo,      \* run files Listen has yet to write, or Close to remove
  session,   \* controllers with a session, i.e. with their set locked
  asking,    \* controllers with a `go requestStop()` under way
  stopCh,    \* controllers whose stopCh holds a token
  conns,     \* connections a controller's server has to serve
  sock,      \* whose socket is at the path (it may be dead)
  endpoint,  \* the endpoint file exists
  token,     \* whose token the token file holds
  pid,       \* whose pid the pid file holds
  cl,        \* where each client is
  saw,       \* the token a client read
  told,      \* the controller that acknowledged a client's shutdown call
  overlap,   \* history: a controller started while another was alive
  silent     \* controllers with a tunnel whose far end is silent (no code)

procVars == <<pc, todo, session, asking, stopCh, conns>>
fileVars == <<sock, endpoint, token, pid>>
clientVars == <<cl, saw, told>>
vars == <<procVars, fileVars, clientVars, overlap, silent>>

PCs == {"idle", "starting", "ready", "listen", "writing", "accepting",
        "select", "stopping", "closing", "draining", "removing", "leaving",
        "ended", "dead"}
Files == {"endpoint", "token", "pid", "control.sock"}

Alive(p) == pc[p] \notin {"idle", "ended", "dead"}

\* The listener is open; requests are taken from it once accept() runs.
Listening(p) == pc[p] \in {"writing", "accepting", "select", "stopping", "closing"}
Accepting(p) == Listening(p) /\ pc[p] # "writing"

\* DialIPC reaches somebody.
Answered == sock # Nobody /\ Listening(sock)

Init ==
  /\ pc = [p \in Procs |-> "idle"]
  /\ todo = [p \in Procs |-> {}]
  /\ session = {} /\ asking = {} /\ stopCh = {}
  /\ conns = [p \in Procs |-> {}]
  /\ sock = Nobody /\ endpoint = FALSE /\ token = Nobody /\ pid = Nobody
  /\ cl = [c \in Clients |-> "idle"]
  /\ saw = [c \in Clients |-> Nobody]
  /\ told = [c \in Clients |-> Nobody]
  /\ overlap = FALSE
  /\ silent = {}

Goto(p, from, to) ==
  /\ pc[p] = from
  /\ pc' = [pc EXCEPT ![p] = to]

-----------------------------------------------------------------------------
(* A controller: start() *)

\* ipc.Dial finds a session, or not.
Dialed == endpoint /\ token # Nobody /\ Answered

CheckRunning(p) ==
  /\ Goto(p, "idle", IF Dialed THEN "ended" ELSE "starting")
  /\ overlap' = (overlap \/ \E q \in Procs : Alive(q))
  /\ UNCHANGED <<todo, session, asking, stopCh, conns, fileVars, clientVars,
                 silent>>

\* sess.Shutdown, with a session that is up: it unlocks the set when every gate
\* has been shut down.  Gate.Shutdown waits, without a deadline, for a handler
\* whose far end is silent.
Torn(p) ==
  /\ p \in session => p \notin silent
  /\ session' = session \ {p}

\* startup.Run: it locks the set and succeeds, or it fails.
StartSession(p) ==
  /\ \/ /\ Goto(p, "starting", "ready")
        /\ p \in Fresh \/ session \subseteq Fresh
        /\ session' = session \cup {p}
     \/ Goto(p, "starting", "ended") /\ UNCHANGED session
  /\ UNCHANGED <<todo, asking, stopCh, conns, fileVars, clientVars, overlap,
                 silent>>

\* runningPID: a pid file of another process and an endpoint that answers.  If
\* so Listen fails ...
CheckPID(p) ==
  /\ Goto(p, "ready", IF pid \notin {Nobody, p} /\ endpoint /\ Answered
                        THEN "leaving" ELSE "listen")
  /\ UNCHANGED <<todo, session, asking, stopCh, conns, fileVars, clientVars, overlap,
                 silent>>

\* ... and the session is shut down again.
Leave(p) ==
  /\ Goto(p, "leaving", "ended")
  /\ Torn(p)
  /\ UNCHANGED <<todo, asking, stopCh, conns, fileVars, clientVars, overlap,
                 silent>>

\* ListenIPC removes what is at the socket's path and binds there.
ListenIPC(p) ==
  /\ Goto(p, "listen", "writing")
  /\ sock' = p
  /\ todo' = [todo EXCEPT ![p] = {"endpoint", "token", "pid"}]
  /\ UNCHANGED <<session, asking, stopCh, conns, endpoint, token, pid,
                 clientVars, overlap, silent>>

\* The three files are written in the random order of a Go map.
WriteFile(p) ==
  /\ pc[p] = "writing"
  /\ \E f \in todo[p] :
       /\ todo' = [todo EXCEPT ![p] = @ \ {f}]
       /\ endpoint' = (endpoint \/ f = "endpoint")
       /\ token' = IF f = "token" THEN p ELSE token
       /\ pid' = IF f = "pid" THEN p ELSE pid
  /\ UNCHANGED <<pc, session, asking, stopCh, conns, sock, clientVars, overlap,
                 silent>>

\* Mutant of StartAccept: the files are not waited for.
StartAcceptEarly(p) ==
  /\ Goto(p, "writing", "accepting")
  /\ UNCHANGED <<todo, session, asking, stopCh, conns, fileVars, clientVars,
                 overlap, silent>>

\* go s.accept(); then the main goroutine gets to its select loop.
StartAccept(p) ==
  /\ todo[p] = {}
  /\ Goto(p, "writing", "accepting")
  /\ UNCHANGED <<todo, session, asking, stopCh, conns, fileVars, clientVars,
                 overlap, silent>>

EnterLoop(p) ==
  /\ Goto(p, "accepting", "select")
  /\ UNCHANGED <<todo, session, asking, stopCh, conns, fileVars, clientVars,
                 overlap, silent>>

\* <-stopCh, a signal, or a tick that finds every browser closed.
LeaveLoop(p) ==
  /\ Goto(p, "select", "stopping")
  /\ stopCh' \in {stopCh, stopCh \ {p}}
  /\ UNCHANGED <<todo, session, asking, conns, fileVars, clientVars, overlap,
                 silent>>

\* Mutant of Shutdown: the server is closed before the session is.
ShutdownLast(p) ==
  /\ Goto(p, "stopping", "closing")
  /\ UNCHANGED <<todo, session, asking, stopCh, conns, fileVars, clientVars,
                 overlap, silent>>

\* sess.Shutdown, which unlocks the set, comes before the deferred srv.Close.
Shutdown(p) ==
  /\ Goto(p, "stopping", "closing")
  /\ Torn(p)
  /\ UNCHANGED <<todo, asking, stopCh, conns, fileVars, clientVars, overlap,
                 silent>>

\* Close: ln.Close unlinks the socket's path, whoever's socket is there by then.
\* Connections not yet accepted are reset.
CloseListener(p) ==
  /\ Goto(p, "closing", "draining")
  /\ sock' = Nobody
  /\ \E kept \in SUBSET conns[p] : conns' = [conns EXCEPT ![p] = kept]
  /\ cl' = [c \in Clients |-> IF c \in conns[p] \ conns'[p] THEN "error" ELSE cl[c]]
  /\ UNCHANGED <<todo, session, asking, stopCh, endpoint, token, pid, saw,
                 told, overlap, silent>>

\* A run file cannot be written: Close, then Shutdown.
WriteFails(p) ==
  /\ Goto(p, "writing", "draining")
  /\ todo[p] # {}
  /\ sock' = Nobody
  /\ conns' = [conns EXCEPT ![p] = {}]
  /\ cl' = [c \in Clients |-> IF c \in conns[p] THEN "error" ELSE cl[c]]
  /\ UNCHANGED <<todo, session, asking, stopCh, endpoint, token, pid, saw,
                 told, overlap, silent>>

\* s.wg.Wait: every connection accepted has been served.
Drained(p) ==
  /\ conns[p] = {}
  /\ Goto(p, "draining", "removing")
  /\ todo' = [todo EXCEPT ![p] = Files]
  /\ UNCHANGED <<session, asking, stopCh, conns, fileVars, clientVars, overlap,
                 silent>>

\* endpoint, token, pid and control.sock are removed, in this order ...
RemovalOrder == [f \in Files |-> CASE f = "endpoint" -> 1 [] f = "token" -> 2
                                   [] f = "pid" -> 3 [] f = "control.sock" -> 4]

RemoveFile(p) ==
  /\ pc[p] = "removing"
  /\ \E f \in todo[p] :
       /\ \A g \in todo[p] : RemovalOrder[f] <= RemovalOrder[g]
       /\ todo' = [todo EXCEPT ![p] = @ \ {f}]
       /\ endpoint' = (endpoint /\ f # "endpoint")
       /\ token' = IF f = "token" THEN Nobody ELSE token
       /\ pid' = IF f = "pid" THEN Nobody ELSE pid
       /\ sock' = IF f = "control.sock" THEN Nobody ELSE sock
  /\ UNCHANGED <<pc, session, asking, stopCh, conns, clientVars, overlap,
                 silent>>

\* ... and the process exits, after sess.Shutdown if Listen has failed.
Exit(p) ==
  /\ todo[p] = {}
  /\ Goto(p, "removing", "ended")
  /\ Torn(p)
  /\ UNCHANGED <<todo, asking, stopCh, conns, fileVars, clientVars, overlap,
                 silent>>

\* A crash leaves the files; its set's lock is stale and will be reclaimed.
Crash(p) ==
  /\ Alive(p)
  /\ pc' = [pc EXCEPT ![p] = "dead"]
  /\ session' = session \ {p}
  /\ conns' = [conns EXCEPT ![p] = {}]
  /\ cl' = [c \in Clients |-> IF c \in conns[p] THEN "error" ELSE cl[c]]
  /\ UNCHANGED <<todo, asking, stopCh, fileVars, saw, told, overlap, silent>>

\* The far end of a tunnel of p's session neither sends nor closes from here on
\* (the gate is open) ...
FarEndStalls(p) ==
  /\ p \in session
  /\ pc[p] \in {"ready", "listen", "writing", "accepting", "select"}
  /\ silent' = silent \cup {p}
  /\ UNCHANGED <<procVars, fileVars, clientVars, overlap>>

\* ... until it does after all.
FarEndEnds(p) ==
  /\ p \in silent
  /\ silent' = silent \ {p}
  /\ UNCHANGED <<procVars, fileVars, clientVars, overlap>>

\* The main goroutine after startup.Run and outside its select.
ProcStep(p) ==
  \/ CheckPID(p) \/ Leave(p) \/ ListenIPC(p) \/ WriteFile(p) \/ StartAccept(p)
  \/ EnterLoop(p) \/ Shutdown(p) \/ CloseListener(p) \/ Drained(p)
  \/ RemoveFile(p) \/ Exit(p)

-----------------------------------------------------------------------------
(* Requests *)

\* Mutant of RequestStop: stopCh has no buffer.
RequestStopUnbuffered(p) ==
  /\ p \in asking /\ Alive(p)
  /\ asking' = asking \ {p}
  /\ stopCh' = IF pc[p] = "select" THEN stopCh \cup {p} ELSE stopCh
  /\ UNCHANGED <<pc, todo, session, conns, fileVars, clientVars, overlap,
                 silent>>

\* requestStop: a non-blocking send on a channel of capacity one.
RequestStop(p) ==
  /\ p \in asking /\ Alive(p)
  /\ asking' = asking \ {p}
  /\ stopCh' = stopCh \cup {p}
  /\ UNCHANGED <<pc, todo, session, conns, fileVars, clientVars, overlap,
                 silent>>

\* ipc.Dial of --stop reads the two files ...
ClientReads(c) ==
  /\ cl[c] = "idle"
  /\ cl' = [cl EXCEPT ![c] = IF Dialed THEN "connect" ELSE "error"]
  /\ saw' = [saw EXCEPT ![c] = IF Dialed THEN token ELSE Nobody]
  /\ UNCHANGED <<procVars, fileVars, told, overlap, silent>>

\* ... and Call connects and sends the request.
ClientConnects(c) ==
  /\ cl[c] = "connect"
  /\ IF Answered
       THEN /\ cl' = [cl EXCEPT ![c] = "sent"]
            /\ conns' = [conns EXCEPT ![sock] = @ \cup {c}]
       ELSE cl' = [cl EXCEPT ![c] = "error"] /\ UNCHANGED conns
  /\ UNCHANGED <<pc, todo, session, asking, stopCh, fileVars, saw, told,
                 overlap, silent>>

\* serve: the token is compared; the shutdown handler answers at once and asks
\* for the stop in a goroutine of its own.  A drained server still serves what
\* it has accepted.
Serve(p, c) ==
  /\ c \in conns[p]
  /\ Accepting(p) \/ pc[p] = "draining"
  /\ conns' = [conns EXCEPT ![p] = @ \ {c}]
  /\ IF saw[c] = p
       THEN /\ asking' = asking \cup {p}
            /\ told' = [told EXCEPT ![c] = p]
            /\ cl' = [cl EXCEPT ![c] = "waiting"]
       ELSE /\ cl' = [cl EXCEPT ![c] = "error"]
            /\ UNCHANGED <<asking, told>>
  /\ UNCHANGED <<pc, todo, session, stopCh, fileVars, saw, overlap, silent>>

\* stopSession polls ipc.Dial: "stopped" at the first failure, or it gives up.
ClientPolls(c) ==
  /\ cl[c] = "waiting"
  /\ cl' = [cl EXCEPT ![c] = IF Dialed THEN "error" ELSE "stopped"]
  /\ UNCHANGED <<procVars, fileVars, saw, told, overlap, silent>>

ServerStep(p) == RequestStop(p) \/ \E c \in Clients : Serve(p, c)

Next ==
  \/ \E p \in Procs :
       CheckRunning(p) \/ StartSession(p) \/ ProcStep(p) \/ LeaveLoop(p)
       \/ WriteFails(p) \/ Crash(p) \/ ServerStep(p) \/ FarEndStalls(p)
       \/ FarEndEnds(p)
  \/ \E c \in Clients : ClientReads(c) \/ ClientConnects(c) \/ ClientPolls(c)

Spec == Init /\ [][Next]_vars

\* Goroutines run: the main one outside its select, the servers (each
\* connection has a deadline), and the select when stopCh is ready.  sess.Shutdown
\* is not enabled while a silent far end holds it.  Nothing makes a process
\* start, startup.Run return, a process crash or be signalled, or a far end move.
Fairness ==
  \A p \in Procs :
    /\ WF_vars(ProcStep(p))
    /\ WF_vars(ServerStep(p))
    /\ WF_vars(LeaveLoop(p) /\ p \in stopCh)

FairSpec == Spec /\ Fairness

-----------------------------------------------------------------------------
(* Properties *)

\* Types of the run directory, the controllers and the clients.
TypeOK ==
  /\ pc \in [Procs -> PCs]
  /\ todo \in [Procs -> SUBSET Files]
  /\ session \subseteq Procs /\ asking \subseteq Procs /\ stopCh \subseteq Procs
  /\ conns \in [Procs -> SUBSET Clients]
  /\ {sock, token, pid} \subseteq Procs \cup {Nobody}
  /\ endpoint \in BOOLEAN /\ overlap \in BOOLEAN /\ silent \subseteq Procs
  /\ cl \in [Clients -> {"idle", "connect", "sent", "waiting", "stopped", "error"}]
  /\ saw \in [Clients -> Procs \cup {Nobody}]
  /\ told \in [Clients -> Procs \cup {Nobody}]

Reachable(p) == Dialed /\ sock = p /\ token = p

\* main.go:196: a controller that has printed "Press Ctrl-C or run `tab-router
\* --stop` to shut down" can be found by --stop: endpoint, token and socket are
\* there and are its own, whatever earlier controllers left behind, if none of
\* them was still alive when it started.  (One that was removes the files of
\* the new one when it closes, ipc.go:197.)
SequentialRunIsReachable ==
  ~overlap => \A p \in Procs : pc[p] = "select" => Reachable(p)

\* main.go stopSession: "stopped" is only printed when the session that was
\* asked to stop is down, its set unlocked, if controllers ran one after another.
StoppedMeansDown ==
  ~overlap => \A c \in Clients : cl[c] = "stopped" => told[c] \notin session

\* sess.Shutdown waits for a tunnel whose far end is silent.
Held(p) == pc[p] = "stopping" /\ p \in silent

\* A shutdown call that was acknowledged takes effect, even one that arrives
\* before the main goroutine is in its select loop, or twice: the controller ends,
\* unless the far end of a tunnel stays silent for ever and so holds its
\* sess.Shutdown (socks5/server.go:151, :323).
AcknowledgedStopHappens ==
  \A p \in Procs :
    []((\E c \in Clients : told[c] = p) => <>~Alive(p) \/ <>[]Held(p))
=============================================================================
