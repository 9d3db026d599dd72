------------------------------- MODULE Browser -------------------------------
(***************************************************************************)
(* One identity's Chromium process from Launch to Kill, and the loop that  *)
(* gives every page the identity's timezone                                *)
(* (controller/browser/launch.go, page.go).                                *)
(*                                                                         *)
(* Chromium executes the commands of the DevTools pipe in order; a page    *)
(* opened while auto-attach is on stays paused until the loop resumes it.  *)
(* First is the about:blank tab that exists before auto-attach is on: it   *)
(* is attached without being paused, and the verifier navigates it.        *)
(***************************************************************************)
EXTENDS Naturals, Sequences

CONSTANTS
  First,     \* the tab Chromium opens by itself
  Pages,     \* pages and frames opened later
  Workers,   \* targets of another type (workers): no timezone
  QueueMax   \* capacity of a subscription (256 in cdp.go:229)

Targets == {First} \cup Pages \cup Workers

VARIABLES
  pc,       \* where Launch, and then Close, is
  proc,     \* the root process: "none", "running" or "gone"
  conn,     \* the CDP client: "none", "open" or "closed"
  auto,     \* Chromium has executed Target.setAutoAttach
  target,   \* "none", "paused", "ready" or "scripts" (it ran some)
  zone,     \* targets with the timezone override
  queue,    \* attachedToTarget events the loop has not read
  loop,     \* autoAttachLoop: "off", "wait", "zone", "resume" or "ended"
  cur,      \* the event the loop handles
  wire,     \* commands of the loop that Chromium has not executed
  refused,  \* history: targets whose timezone Chromium refused
  dropped   \* history: targets whose event found the subscription full

launchVars == <<pc, proc, conn>>
loopVars == <<queue, dropped, loop, cur>>
pageVars == <<auto, target, zone, refused>>
vars == <<launchVars, loopVars, pageVars, wire>>

Event(t, waiting) == [target |-> t, waiting |-> waiting]
NoEvent == Event(First, FALSE)
Command(method, t) == [method |-> method, target |-> t]

Init ==
  /\ pc = "spawn"
  /\ proc = "none"
  /\ conn = "none"
  /\ auto = FALSE
  /\ target = [t \in Targets |-> "none"]
  /\ zone = {}
  /\ queue = <<>>
  /\ loop = "off"
  /\ cur = NoEvent
  /\ wire = <<>>
  /\ refused = {}
  /\ dropped = {}

\* A call on the client is answered only while both ends are there.
CanAnswer == proc = "running" /\ conn = "open"

-----------------------------------------------------------------------------
(* Launch *)

\* SeedPreferences and the process; the tab about:blank comes with it.
Spawn ==
  /\ pc = "spawn"
  /\ \/ /\ pc' = "version"
        /\ proc' = "running"
        /\ conn' = "open"
        /\ target' = [target EXCEPT ![First] = "ready"]
     \/ /\ pc' = "down"
        /\ UNCHANGED <<proc, conn, target>>
  /\ UNCHANGED <<auto, zone, refused, loopVars, wire>>

\* Browser.getVersion, within 30 s.
Version ==
  /\ pc = "version"
  /\ \/ CanAnswer /\ pc' = "enforce"
     \/ pc' = "kill"
  /\ UNCHANGED <<proc, conn, pageVars, loopVars, wire>>

\* readLoop hands an event to the subscription, or drops it when that is full.
Deliver(e) ==
  IF Len(queue) < QueueMax
    THEN queue' = Append(queue, e) /\ UNCHANGED dropped
    ELSE dropped' = dropped \cup {e.target} /\ UNCHANGED queue

\* enforceEnvironment: the subscription and its loop, then setAutoAttach, which
\* attaches to the tab that is there.
EnforceEnvironment ==
  /\ pc = "enforce"
  /\ loop' = IF conn = "open" THEN "wait" ELSE "ended"
  /\ \/ /\ CanAnswer
        /\ pc' \in {"download", "kill"}
        /\ auto' = TRUE
        /\ Deliver(Event(First, FALSE))
     \/ /\ pc' = "kill"
        /\ UNCHANGED <<auto, queue, dropped>>
  /\ UNCHANGED <<proc, conn, target, zone, refused, cur, wire>>

\* Mutant of SetDownloadDir: Launch returns the error and keeps the process.
SetDownloadDirOnly ==
  /\ pc = "download"
  /\ \/ CanAnswer /\ pc' = "up"
     \/ pc' = "down"
  /\ UNCHANGED <<proc, conn, pageVars, loopVars, wire>>

SetDownloadDir ==
  /\ pc = "download"
  /\ \/ CanAnswer /\ pc' = "up"
     \/ pc' = "kill"
  /\ UNCHANGED <<proc, conn, pageVars, loopVars, wire>>

\* Browser.close, then up to 5 s for the process to exit by itself.
Close ==
  /\ pc = "up"
  /\ pc' = "kill"
  /\ proc' \in {proc, "gone"}
  /\ UNCHANGED <<conn, pageVars, loopVars, wire>>

\* Kill: the process tree, then Client.Close.
Kill ==
  /\ pc = "kill"
  /\ pc' = "down"
  /\ proc' = "gone"
  /\ conn' = "closed"
  /\ UNCHANGED <<pageVars, loopVars, wire>>

-----------------------------------------------------------------------------
(* autoAttachLoop *)

\* A call of the loop writes its command unless the client is closed.
Send(method, t) ==
  wire' = IF conn = "open" THEN Append(wire, Command(method, t)) ELSE wire

\* Mutant of TakeEvent: the page is resumed first.
TakeEventResumes ==
  /\ loop = "wait" /\ queue # <<>>
  /\ cur' = Head(queue)
  /\ queue' = Tail(queue)
  /\ loop' = "resume"
  /\ wire' = IF cur'.waiting /\ conn = "open"
               THEN wire \o <<Command("resume", cur'.target), Command("zone", cur'.target)>>
               ELSE wire
  /\ UNCHANGED <<launchVars, pageVars, dropped>>

\* The next event: a page gets the timezone, another waiting target is resumed.
TakeEvent ==
  /\ loop = "wait" /\ queue # <<>>
  /\ cur' = Head(queue)
  /\ queue' = Tail(queue)
  /\ \/ /\ cur'.target \notin Workers
        /\ loop' = "zone"
        /\ Send("zone", cur'.target)
     \/ /\ cur'.target \in Workers /\ cur'.waiting
        /\ loop' = "resume"
        /\ Send("resume", cur'.target)
     \/ /\ cur'.target \in Workers /\ ~cur'.waiting
        /\ loop' = "wait"
        /\ UNCHANGED wire
  /\ UNCHANGED <<launchVars, pageVars, dropped>>

\* Mutant of ZoneDone: a page whose override was not answered is left alone.
ZoneDoneOrNot ==
  /\ loop = "zone"
  /\ \/ /\ cur.waiting
        /\ loop' = "resume"
        /\ Send("resume", cur.target)
     \/ loop' = "wait" /\ UNCHANGED wire
  /\ UNCHANGED <<launchVars, pageVars, queue, dropped, cur>>

\* setTimezoneOverride was answered, or 10 s have passed: its error is ignored,
\* and the next command is written even when the deadline is over.
ZoneDone ==
  /\ loop = "zone"
  /\ \/ /\ cur.waiting
        /\ loop' = "resume"
        /\ Send("resume", cur.target)
     \/ ~cur.waiting /\ loop' = "wait" /\ UNCHANGED wire
  /\ UNCHANGED <<launchVars, pageVars, queue, dropped, cur>>

ResumeDone ==
  /\ loop = "resume"
  /\ loop' = "wait"
  /\ UNCHANGED <<launchVars, pageVars, queue, dropped, cur, wire>>

\* Client.fail closes the subscriptions; the loop reads what is left and ends.
LoopEnds ==
  /\ loop = "wait" /\ conn = "closed" /\ queue = <<>>
  /\ loop' = "ended"
  /\ UNCHANGED <<launchVars, pageVars, queue, dropped, cur, wire>>

-----------------------------------------------------------------------------
(* Chromium, and the reader of its pipe *)

\* The pipe is closed: readLoop fails the client.
ReadFails ==
  /\ proc = "gone" /\ conn = "open"
  /\ conn' = "closed"
  /\ UNCHANGED <<pc, proc, pageVars, loopVars, wire>>

\* The user, or a page, opens a target.
OpenTarget(t) ==
  /\ CanAnswer /\ auto
  /\ t # First /\ target[t] = "none"
  /\ target' = [target EXCEPT ![t] = "paused"]
  /\ Deliver(Event(t, TRUE))
  /\ UNCHANGED <<launchVars, auto, zone, refused, loop, cur, wire>>

\* The next command; Chromium may refuse a timezone (environment.go:60 checks
\* its name against Go's list, which may know zones that Chromium does not).
Execute ==
  /\ proc = "running" /\ wire # <<>>
  /\ LET c == Head(wire) IN
     \/ /\ c.method = "zone"
        /\ \/ zone' = zone \cup {c.target} /\ UNCHANGED refused
           \/ refused' = refused \cup {c.target} /\ UNCHANGED zone
        /\ UNCHANGED target
     \/ /\ c.method = "resume"
        /\ target' = [target EXCEPT ![c.target] =
                        IF @ = "paused" THEN "ready" ELSE @]
        /\ UNCHANGED <<zone, refused>>
  /\ wire' = Tail(wire)
  /\ UNCHANGED <<launchVars, loopVars, auto>>

\* A page that is not paused runs scripts; First does once FirstPage has
\* attached to it and the verifier has navigated it.
RunScripts(t) ==
  /\ proc = "running"
  /\ target[t] = "ready"
  /\ t = First => pc = "up"
  /\ target' = [target EXCEPT ![t] = "scripts"]
  /\ UNCHANGED <<launchVars, loopVars, auto, zone, refused, wire>>

Dies ==
  /\ proc = "running"
  /\ proc' = "gone"
  /\ UNCHANGED <<pc, conn, pageVars, loopVars, wire>>

-----------------------------------------------------------------------------
LaunchSteps == Spawn \/ Version \/ EnforceEnvironment \/ SetDownloadDir \/ Kill
LoopSteps == TakeEvent \/ ZoneDone \/ ResumeDone \/ LoopEnds

Next ==
  \/ LaunchSteps \/ Close \/ LoopSteps
  \/ ReadFails \/ Execute \/ Dies
  \/ \E t \in Targets : OpenTarget(t) \/ RunScripts(t)

Spec == Init /\ [][Next]_vars

\* Goroutines run and calls have deadlines; a running Chromium executes what it
\* was sent and a closed pipe is noticed.
Fairness ==
  /\ WF_vars(LaunchSteps)
  /\ WF_vars(LoopSteps)
  /\ WF_vars(Execute)
  /\ WF_vars(ReadFails)

-----------------------------------------------------------------------------
(* Properties *)

\* Types of the launch, of the pages and of the loop; the subscription never
\* holds more than its capacity.
TypeOK ==
  /\ pc \in {"spawn", "version", "enforce", "download", "up", "kill", "down"}
  /\ proc \in {"none", "running", "gone"}
  /\ conn \in {"none", "open", "closed"}
  /\ auto \in BOOLEAN
  /\ target \in [Targets -> {"none", "paused", "ready", "scripts"}]
  /\ zone \subseteq Targets \ Workers
  /\ queue \in Seq([target : Targets, waiting : BOOLEAN])
  /\ Len(queue) <= QueueMax
  /\ loop \in {"off", "wait", "zone", "resume", "ended"}
  /\ cur \in [target : Targets, waiting : BOOLEAN]
  /\ wire \in Seq([method : {"zone", "resume"}, target : Targets])
  /\ refused \subseteq Targets /\ dropped \subseteq Targets

\* launch.go:110-136, 258-270: when Launch has returned an error, or Close has
\* returned, no Chromium process is left and the pipe is closed, whatever
\* failed on the way and whenever the process died.
NothingIsLeft == pc = "down" => proc # "running" /\ conn # "open"

\* launch.go:187-189 for pages opened under auto-attach: none runs a script
\* without the identity's timezone, through slow answers, expired deadlines and
\* dropped events, unless Chromium refused the zone (which the loop ignores).
\* The first tab is not covered: nothing orders its override before its
\* navigation.
NewPagesHaveTheZone ==
  \A t \in Pages : target[t] = "scripts" => t \in zone \cup refused

\* A target paused by auto-attach is resumed as long as the browser lives, also
\* when the timezone was refused or unanswered; only one whose event found the
\* subscription full (cdp.go:139) may stay paused.
PausedPagesResume ==
  \A t \in Pages \cup Workers :
    target[t] = "paused" ~>
      (target[t] # "paused" \/ t \in dropped \/ proc # "running" \/ pc = "down")
=============================================================================
