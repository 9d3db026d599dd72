---------------------------- MODULE Diagnostics ----------------------------
(***************************************************************************)
(* diagnostics.run on a live session: Session.Diagnostics                  *)
(* (controller/startup/status.go) over verify.Begin, V2, V7, V8 and Finish *)
(* (controller/verify/verify.go), with the endpoint sampler it starts, and *)
(* the gate it closes, reopens and reads the event log of                  *)
(* (routing/provider/gate.go, routing/socks5/server.go): a CONNECT is let  *)
(* in by Refuse, dials, and is logged when the dial ends, which a Close    *)
(* meanwhile does not prevent.                                             *)
(*                                                                         *)
(* Every call runs in a goroutine of the control channel, and all of them  *)
(* use the session's Subjects: Subject.Page, Subject.sampler and the log   *)
(* with its limited length.  A page and a sampler are named by the call    *)
(* that made them.  A browser that has exited fails what is asked of it,   *)
(* which a running one may do too.  A panic in a call ends the controller. *)
(***************************************************************************)
EXTENDS Naturals, Sequences, SequencesExt

CONSTANTS
  Calls,    \* diagnostics.run calls, each made at most once
  M,        \* identities: 1 .. M
  MaxEvents,  \* Gate.max
  Busy,     \* identities whose browsers ask for CONNECTs, and whose gates the
            \* monitor and commands move: all of them, or a bound of the model
  MaxDials, \* CONNECTs of an identity under way at once, a bound of the model
  NoCall    \* Subject.Page or Subject.sampler is nil, or no such call

VARIABLES
  pc,        \* where each call is
  sub,       \* the identity it is at
  Page,      \* Subject.Page
  sampler,   \* Subject.sampler
  tabs,      \* verification tabs open in each browser
  sampling,  \* sampler goroutines of each identity
  closed,    \* samplers whose stopCh is closed
  open,      \* Gate.open
  conn,      \* each CONNECT under way: admitted by Refuse and dialling, or refused
  made,      \* history: what a call's V7 had done to the gate when it was admitted
  events,    \* Gate.events: whether each CONNECT succeeded
  cursor,    \* V7's local cursor
  resumed,   \* history: after V7 took the cursor a CONNECT was logged as a
             \* success that was admitted after V7 reopened the gate, ...
  late,      \* ... or that was admitted before V7 closed it
  meddled,   \* history: another opened the gate while V7 held it closed
  cut,       \* history: the log dropped an event after V7 took the cursor
  panicked,  \* the controller has crashed
  overlap    \* history: a call began while another one was running

callVars == <<pc, sub>>
subjectVars == <<Page, sampler, tabs, sampling, closed>>
connVars == <<conn, made>>
logVars == <<events, resumed, late, cut>>
gateVars == <<open, meddled, connVars, logVars>>
vars == <<callVars, subjectVars, gateVars, cursor, panicked, overlap>>

Subjects == 1 .. M
Conns == Busy \X (1 .. MaxDials)
Running(c) == pc[c] \notin {"idle", "done", "error"}

Init ==
  /\ pc = [c \in Calls |-> "idle"]
  /\ sub = [c \in Calls |-> 1]
  /\ Page = [s \in Subjects |-> NoCall]
  /\ sampler = [s \in Subjects |-> NoCall]
  /\ tabs = [s \in Subjects |-> {}]
  /\ sampling = [s \in Subjects |-> {}]
  /\ closed = [s \in Subjects |-> {}]
  /\ open = [s \in Subjects |-> TRUE]
  /\ conn = [k \in Conns |-> "none"]
  /\ made = [k \in Conns |-> [c \in Calls |-> "before"]]
  /\ events = [s \in Subjects |-> <<>>]
  /\ cursor = [c \in Calls |-> 0]
  /\ resumed = {} /\ late = {} /\ meddled = {} /\ cut = {}
  /\ panicked = FALSE /\ overlap = FALSE

Goto(c, from, to) ==
  /\ ~panicked
  /\ pc[c] = from
  /\ pc' = [pc EXCEPT ![c] = to]

\* The next identity of a loop, or what comes after the loop.
Loop(c, from, again, to) ==
  /\ Goto(c, from, IF sub[c] < M THEN again ELSE to)
  /\ sub' = [sub EXCEPT ![c] = IF sub[c] < M THEN @ + 1 ELSE 1]

-----------------------------------------------------------------------------
(* The gate's event log *)

\* record: the log keeps the last MaxEvents events.
Recorded(s, ok) ==
  LET all == Append(events[s], ok) IN
  IF Len(all) > MaxEvents THEN Tail(all) ELSE all

\* Mutant of EventsSince: the cursor is taken for the first event wanted.
EventsSinceFrom(s, n) ==
  SubSeq(events[s], IF n \in 1 .. Len(events[s]) THEN n ELSE 1, Len(events[s]))

\* EventsSince; a cursor beyond the log reads all of it.
EventsSince(s, n) ==
  SubSeq(events[s], (IF n > Len(events[s]) THEN 0 ELSE n) + 1, Len(events[s]))

\* Calls whose V7 has closed the gate of s, and ones that have taken the cursor.
Holding(s) == {c \in Calls : sub[c] = s /\ pc[c] \in {"V7block", "V7open"}}
Waiting(s) ==
  {c \in Calls : sub[c] = s /\ pc[c] \in {"V7open", "V7resume", "V7judge"}}

\* What the V7 of c has done to the gate of s so far.
Stage(c, s) ==
  IF c \in Holding(s) THEN "closed"
  ELSE IF c \in Waiting(s) THEN "reopened" ELSE "before"

\* The outcome of a CONNECT that was admitted at the stages of when.
Record(s, ok, when) ==
  /\ events' = [events EXCEPT ![s] = Recorded(s, ok)]
  /\ resumed' = IF ok THEN resumed \cup {c \in Waiting(s) : when[c] = "reopened"}
                ELSE resumed
  /\ late' = IF ok THEN late \cup {c \in Waiting(s) : when[c] = "before"} ELSE late
  /\ cut' = IF Len(events[s]) = MaxEvents THEN cut \cup Waiting(s) ELSE cut

-----------------------------------------------------------------------------
(* The gate: CONNECTs of the pages of a browser, and others that move it *)

\* handle: Refuse looks at the flag once, and what it admits dials.
Admit(k) ==
  LET s == k[1] IN
  /\ ~panicked
  /\ conn[k] = "none"
  /\ conn' = [conn EXCEPT ![k] = IF open[s] THEN "dialing" ELSE "refused"]
  /\ made' = [made EXCEPT ![k] =
                IF open[s] THEN [c \in Calls |-> Stage(c, s)] ELSE @]
  /\ UNCHANGED <<callVars, subjectVars, open, meddled, logVars, cursor, panicked,
                 overlap>>

\* ... and the outcome is logged before the browser has the reply, whatever has
\* become of the gate.
Answer(k, ok) ==
  /\ ~panicked
  /\ conn[k] # "none" /\ (ok => conn[k] = "dialing")
  /\ conn' = [conn EXCEPT ![k] = "none"]
  /\ made' = [made EXCEPT ![k] = [c \in Calls |-> "before"]]
  /\ Record(k[1], ok, made[k])
  /\ UNCHANGED <<callVars, subjectVars, open, meddled, cursor, panicked, overlap>>

\* The monitor, route.start and route.stop close and open gates at any time.
Supervise(s, on) ==
  /\ ~panicked
  /\ open' = [open EXCEPT ![s] = on]
  /\ meddled' = IF on THEN meddled \cup Holding(s) ELSE meddled
  /\ UNCHANGED <<callVars, subjectVars, connVars, logVars, cursor, panicked, overlap>>

-----------------------------------------------------------------------------
(* Diagnostics: Begin for every identity *)

Call(c) ==
  /\ Goto(c, "idle", "begin")
  /\ overlap' = (overlap \/ \E d \in Calls : Running(d))
  /\ UNCHANGED <<sub, subjectVars, gateVars, cursor, panicked>>

\* The browser is gone, or NewPage fails: the call returns without Finish.
BeginFails(c) ==
  /\ Goto(c, "begin", "error")
  /\ UNCHANGED <<sub, subjectVars, gateVars, cursor, panicked, overlap>>

BeginPage(c) ==
  LET s == sub[c] IN
  /\ Goto(c, "begin", "sampler")
  /\ Page' = [Page EXCEPT ![s] = c]
  /\ tabs' = [tabs EXCEPT ![s] = @ \cup {c}]
  /\ UNCHANGED <<sub, sampler, sampling, closed, gateVars, cursor,
                 panicked, overlap>>

BeginSampler(c) ==
  LET s == sub[c] IN
  /\ Loop(c, "sampler", "begin", "V2")
  /\ sampler' = [sampler EXCEPT ![s] = c]
  /\ sampling' = [sampling EXCEPT ![s] = @ \cup {c}]
  /\ UNCHANGED <<Page, tabs, closed, gateVars, cursor, panicked, overlap>>

-----------------------------------------------------------------------------
(* The checks *)

\* Page.Navigate on a nil page.
NilPage(c) ==
  /\ ~panicked
  /\ pc[c] \in {"V2", "V7block", "V7resume"}
  /\ Page[sub[c]] = NoCall
  /\ panicked' = TRUE
  /\ UNCHANGED <<callVars, subjectVars, gateVars, cursor, overlap>>

\* V2 (and V5, V6) navigate on the page; the outcome is no matter here.
V2(c) ==
  /\ Page[sub[c]] # NoCall
  /\ Loop(c, "V2", "V2", "V7close")
  /\ UNCHANGED <<subjectVars, gateVars, cursor, panicked, overlap>>

\* V7 closes the gate ...
V7Close(c) ==
  /\ Goto(c, "V7close", "V7block")
  /\ open' = [open EXCEPT ![sub[c]] = FALSE]
  /\ UNCHANGED <<sub, subjectVars, meddled, connVars, logVars, cursor, panicked,
                 overlap>>

\* The check of c at an identity is over, and its history is forgotten.
Forget(c) ==
  /\ cursor' = [cursor EXCEPT ![c] = 0]
  /\ resumed' = resumed \ {c} /\ late' = late \ {c} /\ cut' = cut \ {c}
  /\ made' = [k \in Conns |-> [made[k] EXCEPT ![c] = "before"]]
  /\ UNCHANGED <<conn, events>>

\* ... navigates against it and takes the cursor; a navigation that succeeds, or a
\* leak, ends the check and opens the gate ...
V7Block(c) ==
  LET s == sub[c] IN
  /\ Page[s] # NoCall
  /\ \/ /\ Goto(c, "V7block", "V7open") /\ UNCHANGED sub
        /\ cursor' = [cursor EXCEPT ![c] = Len(events[s])]
        /\ UNCHANGED <<open, meddled, connVars, logVars>>
     \/ /\ Loop(c, "V7block", "V7close", "stop")
        /\ open' = [open EXCEPT ![s] = TRUE]
        /\ meddled' = (meddled \cup Holding(s)) \ {c}
        /\ Forget(c)
  /\ UNCHANGED <<subjectVars, panicked, overlap>>

\* ... opens it, also for another call that holds it closed ...
V7Open(c) ==
  LET s == sub[c] IN
  /\ Goto(c, "V7open", "V7resume")
  /\ open' = [open EXCEPT ![s] = TRUE]
  /\ meddled' = meddled \cup (Holding(s) \ {c})
  /\ UNCHANGED <<sub, subjectVars, connVars, logVars, cursor, panicked, overlap>>

\* ... navigates, which resumes traffic by way of the gate or not, or fails ...
V7Resume(c) ==
  /\ Page[sub[c]] # NoCall
  /\ \/ /\ Goto(c, "V7resume", "V7judge") /\ UNCHANGED sub
        /\ UNCHANGED <<cursor, meddled, connVars, logVars>>
     \/ /\ Loop(c, "V7resume", "V7close", "stop")
        /\ meddled' = meddled \ {c}
        /\ Forget(c)
  /\ UNCHANGED <<subjectVars, open, panicked, overlap>>

\* ... and gateSucceededSince, by which the check passes or fails.  V8 reads the
\* sampler's results.
Passes(c) == Contains(EventsSince(sub[c], cursor[c]), TRUE)

V7Judge(c) ==
  /\ Loop(c, "V7judge", "V7close", "stop")
  /\ meddled' = meddled \ {c}
  /\ Forget(c)
  /\ UNCHANGED <<subjectVars, open, panicked, overlap>>

-----------------------------------------------------------------------------
(* Finish, deferred, for every identity *)

\* sampler.stop: the select looks at stopCh, and close(stopCh) comes after it.
StopLooks(c) ==
  LET s == sub[c] IN
  /\ Goto(c, "stop", IF sampler[s] \in closed[s] THEN "closePage" ELSE "stopClose")
  /\ UNCHANGED <<sub, subjectVars, gateVars, cursor, panicked, overlap>>

\* Closing it twice panics; otherwise the goroutine ends and is waited for.
StopCloses(c) ==
  LET s == sub[c] IN
  /\ IF sampler[s] \in closed[s]
       THEN /\ pc[c] = "stopClose" /\ ~panicked
            /\ panicked' = TRUE
            /\ UNCHANGED <<pc, closed, sampling>>
       ELSE /\ Goto(c, "stopClose", "closePage")
            /\ closed' = [closed EXCEPT ![s] = @ \cup {sampler[s]}]
            /\ sampling' = [sampling EXCEPT ![s] = @ \ {sampler[s]}]
            /\ UNCHANGED panicked
  /\ UNCHANGED <<sub, Page, sampler, tabs, gateVars, cursor, overlap>>

\* Mutant of ClosePage: the loop returns after the first page.
ClosePageFirst(c) ==
  LET s == sub[c] IN
  /\ Goto(c, "closePage", "done")
  /\ tabs' = [tabs EXCEPT ![s] = @ \ {Page[s]}]
  /\ Page' = [Page EXCEPT ![s] = NoCall]
  /\ UNCHANGED <<sub, sampler, sampling, closed, gateVars, cursor, panicked,
                 overlap>>

\* The page, whoever made it, is closed and forgotten.
ClosePage(c) ==
  LET s == sub[c] IN
  /\ Loop(c, "closePage", "stop", "done")
  /\ tabs' = [tabs EXCEPT ![s] = @ \ {Page[s]}]
  /\ Page' = [Page EXCEPT ![s] = NoCall]
  /\ UNCHANGED <<sampler, sampling, closed, gateVars, cursor, panicked,
                 overlap>>

Next ==
  \/ \E c \in Calls :
       \/ Call(c) \/ BeginFails(c) \/ BeginPage(c) \/ BeginSampler(c)
       \/ NilPage(c) \/ V2(c) \/ V7Close(c) \/ V7Block(c) \/ V7Open(c)
       \/ V7Resume(c) \/ V7Judge(c) \/ StopLooks(c) \/ StopCloses(c) \/ ClosePage(c)
  \/ \E k \in Conns : Admit(k) \/ \E ok \in BOOLEAN : Answer(k, ok)
  \/ \E s \in Busy, on \in BOOLEAN : Supervise(s, on)

Spec == Init /\ [][Next]_vars

-----------------------------------------------------------------------------
(* Properties *)

\* Types of the calls, of the Subjects and of the gates' logs.
TypeOK ==
  /\ pc \in [Calls -> {"idle", "begin", "sampler", "V2", "V7close", "V7block",
                       "V7open", "V7resume", "V7judge", "stop", "stopClose", "closePage",
                       "done", "error"}]
  /\ sub \in [Calls -> Subjects]
  /\ Page \in [Subjects -> Calls \cup {NoCall}]
  /\ sampler \in [Subjects -> Calls \cup {NoCall}]
  /\ \A f \in {tabs, sampling, closed} : f \in [Subjects -> SUBSET Calls]
  /\ \A s \in Subjects : events[s] \in Seq(BOOLEAN) /\ Len(events[s]) <= MaxEvents
  /\ open \in [Subjects -> BOOLEAN]
  /\ conn \in [Conns -> {"none", "dialing", "refused"}]
  /\ made \in [Conns -> [Calls -> {"before", "closed", "reopened"}]]
  /\ cursor \in [Calls -> 0 .. MaxEvents]
  /\ \A H \in {resumed, late, meddled, cut} : H \subseteq Calls
  /\ panicked \in BOOLEAN /\ overlap \in BOOLEAN

\* verify.go:170, "Finish stops sampling and closes the verification tab": calls
\* one after another never crash the controller, whatever earlier ones left when
\* they failed, and one that returns a status leaves neither a sampler nor a tab
\* of its own.  (One that fails at a later identity leaves those of the earlier
\* ones, status.go:174-180; two at once overwrite each other's page and sampler,
\* navigate on a nil page or close a channel twice.)
DiagnosticsCleansUp ==
  ~overlap =>
    /\ ~panicked
    /\ \A c \in Calls : pc[c] = "done" =>
         \A s \in Subjects : c \notin tabs[s] \cup sampling[s]

\* verify.go V7, "resume did not produce a successful gate CONNECT", is said
\* only of a resumption that really did not, and V7 passes only for a CONNECT the
\* gate admitted after V7 reopened it; for two calls at once too.  The exceptions:
\* a CONNECT admitted before V7 closed the gate that was still dialing when V7 took
\* the cursor (server.go:193, 204); a gate that another one opened while V7 held it
\* closed; and a log that was full (gate.go:125), into which the cursor is an index
\* and no longer finds what came after.
ResumeIsSeen ==
  \A c \in Calls : pc[c] = "V7judge" =>
    /\ Passes(c) => c \in resumed \cup late \cup meddled
    /\ (c \in resumed /\ ~Passes(c)) => c \in cut
=============================================================================
