-------------------------------- MODULE Cdp --------------------------------
(***************************************************************************)
(* The DevTools client (controller/browser/cdp.go): concurrent Calls that  *)
(* wait for the answer to their id, one read loop that hands answers and   *)
(* events out, subscribers, and the transport's end.  A step is a critical *)
(* section of Client.mu, a channel operation outside it, or a blocking     *)
(* call.  The browser on the other side is external: it may answer twice,  *)
(* late or never.                                                          *)
(***************************************************************************)
EXTENDS Naturals, FiniteSets

CONSTANTS
  Ids,      \* Calls made (each has an id of its own)
  Subs,     \* subscribers
  Closers,  \* goroutines calling Client.Close
  Cap,      \* capacity of a subscriber's channel
  NoId      \* "no answer in hand"

VARIABLES
  up,        \* the transport works
  closed,    \* Client.closed
  reader,    \* the read loop: "read", "deliver", "failing" or "ended"
  answer,    \* the id whose channel the read loop is about to send on
  pending,   \* keys of Client.pending
  replies,   \* messages in a Call's channel: 0 or 1, its capacity
  pc,        \* where a Call is
  subs,      \* Client.subs
  finished,  \* subscriptions whose channel is closed
  queue,     \* events in a subscriber's channel
  panicked,  \* a send on, or a second close of, a closed channel
  closer     \* where a Close is

callVars == <<pending, replies, pc>>
subVars == <<subs, finished, queue, panicked>>
vars == <<up, closed, reader, answer, callVars, subVars, closer>>

CallPCs == {"idle", "write", "wait", "done"}

Init ==
  /\ up = TRUE /\ closed = FALSE
  /\ reader = "read" /\ answer = NoId
  /\ pending = {}
  /\ replies = [k \in Ids |-> 0]
  /\ pc = [k \in Ids |-> "idle"]
  /\ subs = {} /\ finished = {}
  /\ queue = [s \in Subs |-> 0]
  /\ panicked = FALSE
  /\ closer = [c \in Closers |-> "none"]

-----------------------------------------------------------------------------
(* Call *)

Goto(k, from, to) ==
  /\ pc[k] = from
  /\ pc' = [pc EXCEPT ![k] = to]

\* Under the lock: ErrClosed, or a fresh channel in pending.
Register(k) ==
  /\ IF closed
       THEN Goto(k, "idle", "done") /\ UNCHANGED pending
       ELSE Goto(k, "idle", "write") /\ pending' = pending \cup {k}
  /\ UNCHANGED <<up, closed, reader, answer, replies, subVars, closer>>

\* WriteMessage succeeds only on a live transport; on an error the call is
\* forgotten.
Write(k) ==
  /\ \/ up /\ Goto(k, "write", "wait") /\ UNCHANGED pending
     \/ Goto(k, "write", "done") /\ pending' = pending \ {k}
  /\ UNCHANGED <<up, closed, reader, answer, replies, subVars, closer>>

\* The select: ctx.Done, or the answer.
GiveUp(k) ==
  /\ Goto(k, "wait", "done")
  /\ pending' = pending \ {k}
  /\ UNCHANGED <<up, closed, reader, answer, replies, subVars, closer>>

Receive(k) ==
  /\ replies[k] > 0
  /\ Goto(k, "wait", "done")
  /\ replies' = [replies EXCEPT ![k] = @ - 1]
  /\ UNCHANGED <<up, closed, reader, answer, pending, subVars, closer>>

-----------------------------------------------------------------------------
(* readLoop and fail *)

\* Mutant of ReadAnswer: an answered call stays pending.
ReadAnswerKeeps(k) ==
  /\ up /\ reader = "read"
  /\ pc[k] \in {"wait", "done"}
  /\ k \in pending
  /\ reader' = "deliver" /\ answer' = k
  /\ UNCHANGED <<up, closed, callVars, subVars, closer>>

\* An answer: looked up and removed under the lock ...
ReadAnswer(k) ==
  /\ up /\ reader = "read"
  /\ pc[k] \in {"wait", "done"}
  /\ pending' = pending \ {k}
  /\ IF k \in pending
       THEN reader' = "deliver" /\ answer' = k
       ELSE UNCHANGED <<reader, answer>>
  /\ UNCHANGED <<up, closed, replies, pc, subVars, closer>>

\* ... and sent after it; the send blocks while the channel is full.
Deliver ==
  /\ reader = "deliver"
  /\ replies[answer] = 0
  /\ replies' = [replies EXCEPT ![answer] = 1]
  /\ reader' = "read" /\ answer' = NoId
  /\ UNCHANGED <<up, closed, pending, pc, subVars, closer>>

\* An event goes to the subscribers of its method that have room.
ReadEvent ==
  /\ up /\ reader = "read"
  /\ \E match \in SUBSET subs :
       /\ queue' = [s \in Subs |-> IF s \in match /\ queue[s] < Cap
                                     THEN queue[s] + 1 ELSE queue[s]]
       /\ panicked' = (panicked \/ match \cap finished # {})
  /\ UNCHANGED <<up, closed, reader, answer, callVars, subs, finished, closer>>

ReadFails ==
  /\ ~up /\ reader = "read"
  /\ reader' = "failing"
  /\ UNCHANGED <<up, closed, answer, callVars, subVars, closer>>

\* Mutant of Fail: pending calls are forgotten, not answered.
FailSilently ==
  /\ reader = "failing"
  /\ closed' = TRUE
  /\ pending' = {}
  /\ finished' = finished \cup subs
  /\ subs' = {}
  /\ reader' = "ended"
  /\ UNCHANGED <<up, answer, replies, pc, queue, panicked, closer>>

\* fail: under the lock every pending call gets an error (a blocking send) and
\* every subscription ends.
Fail ==
  /\ reader = "failing"
  /\ \A k \in pending : replies[k] = 0
  /\ closed' = TRUE
  /\ replies' = [k \in Ids |-> IF k \in pending THEN 1 ELSE replies[k]]
  /\ pending' = {}
  /\ panicked' = (panicked \/ subs \cap finished # {})
  /\ finished' = finished \cup subs
  /\ subs' = {}
  /\ reader' = "ended"
  /\ UNCHANGED <<up, answer, pc, queue, closer>>

-----------------------------------------------------------------------------
(* Subscribe, its cancel function, and Close *)

Subscribe(s) ==
  /\ s \notin subs \cup finished
  /\ IF closed THEN finished' = finished \cup {s} /\ UNCHANGED subs
               ELSE subs' = subs \cup {s} /\ UNCHANGED finished
  /\ UNCHANGED <<up, closed, reader, answer, callVars, queue, panicked, closer>>

\* Mutant of Cancel: a cancelled subscriber stays in the map.
CancelKeeps(s) ==
  /\ s \in subs
  /\ finished' = finished \cup {s}
  /\ UNCHANGED <<up, closed, reader, answer, callVars, subs, queue, panicked,
                 closer>>

\* cancel may be called any number of times, also after fail.
Cancel(s) ==
  /\ s \in subs \cup finished
  /\ IF s \in subs
       THEN /\ subs' = subs \ {s}
            /\ finished' = finished \cup {s}
            /\ panicked' = (panicked \/ s \in finished)
       ELSE UNCHANGED <<subs, finished, panicked>>
  /\ UNCHANGED <<up, closed, reader, answer, callVars, queue, closer>>

\* A subscriber takes an event.
Take(s) ==
  /\ queue[s] > 0
  /\ queue' = [queue EXCEPT ![s] = @ - 1]
  /\ UNCHANGED <<up, closed, reader, answer, callVars, subs, finished, panicked,
                 closer>>

\* tr.Close, then wait for the read loop.
Close(c) ==
  /\ closer[c] = "none"
  /\ up' = FALSE
  /\ closer' = [closer EXCEPT ![c] = "waiting"]
  /\ UNCHANGED <<closed, reader, answer, callVars, subVars>>

CloseReturns(c) ==
  /\ closer[c] = "waiting" /\ reader = "ended"
  /\ closer' = [closer EXCEPT ![c] = "done"]
  /\ UNCHANGED <<up, closed, reader, answer, callVars, subVars>>

BrowserExits ==
  /\ up
  /\ up' = FALSE
  /\ UNCHANGED <<closed, reader, answer, callVars, subVars, closer>>

ReadLoop ==
  \/ \E k \in Ids : ReadAnswer(k)
  \/ Deliver \/ ReadEvent \/ ReadFails \/ Fail

Next ==
  \/ ReadLoop
  \/ \E k \in Ids : Register(k) \/ Write(k) \/ GiveUp(k) \/ Receive(k)
  \/ \E s \in Subs : Subscribe(s) \/ Cancel(s) \/ Take(s)
  \/ \E c \in Closers : Close(c) \/ CloseReturns(c)
  \/ BrowserExits

Spec == Init /\ [][Next]_vars

\* Goroutines run.  No answer, event or deadline is assumed to come.
Fairness ==
  /\ WF_vars(Deliver) /\ WF_vars(ReadFails) /\ WF_vars(Fail)
  /\ \A k \in Ids : WF_vars(Write(k)) /\ WF_vars(Receive(k))
  /\ \A c \in Closers : WF_vars(CloseReturns(c))

-----------------------------------------------------------------------------
(* Properties *)

\* Types of the client's maps and channels.
TypeOK ==
  /\ up \in BOOLEAN /\ closed \in BOOLEAN /\ panicked \in BOOLEAN
  /\ reader \in {"read", "deliver", "failing", "ended"}
  /\ answer \in Ids \cup {NoId}
  /\ pending \in SUBSET Ids
  /\ replies \in [Ids -> 0 .. 1]
  /\ pc \in [Ids -> CallPCs]
  /\ subs \in SUBSET Subs /\ finished \in SUBSET Subs
  /\ queue \in [Subs -> 0 .. Cap]
  /\ closer \in [Closers -> {"none", "waiting", "done"}]

\* The read loop never blocks on a Call: the one slot of its channel is free
\* whenever the loop is about to send, although the browser may answer an id
\* twice, the Call may have given up, and fail answers what is still pending.
\* In fail a blocked send would hold Client.mu for ever.
ReaderNeverBlocks ==
  /\ reader = "deliver" => replies[answer] = 0
  /\ reader = "failing" => \A k \in pending : replies[k] = 0

\* No event is sent on a closed channel and no channel is closed twice, in any
\* order of cancel, fail and events.
NoPanic == ~panicked

\* When the browser is gone no Call waits for ever, deadline or not, and Close,
\* which waits for the read loop, returns.
CallsReturn ==
  /\ \A k \in Ids : (~up /\ pc[k] = "wait") ~> (pc[k] = "done")
  /\ \A c \in Closers : (closer[c] = "waiting") ~> (closer[c] = "done")
=============================================================================
