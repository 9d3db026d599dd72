--------------------------- MODULE DevToolsProofs ---------------------------
(***************************************************************************)
(* Proofs about both ends of the DevTools connection: for any number of    *)
(* Calls, subscribers and closers, and for any number of pages and workers *)
(* and any capacity of the subscription.                                   *)
(*                                                                         *)
(* The client.  ReaderNeverBlocks is not inductive: it says nothing of a   *)
(* Call that is still pending when the loop takes its answer out of the    *)
(* map.  Channels follows the one message a Call is owed: it is promised   *)
(* while the id is in pending or in the read loop's hand, and never in     *)
(* both, and the channel is empty for as long as it is promised.  Owed is  *)
(* what the promise is for: a Call that waits is promised a message or has *)
(* one.                                                                    *)
(*                                                                         *)
(* The browser.  NewPagesHaveTheZone is about what Chromium has executed;  *)
(* the loop only writes, and goes on when a deadline is over.  Prepared    *)
(* therefore speaks of the order of the commands in the pipe: no resume of *)
(* a page is there without the timezone before it, or executed.  A closed  *)
(* client writes neither, and never opens again.  Awaited is the like of   *)
(* Owed: who will resume a page that is paused.                            *)
(***************************************************************************)
EXTENDS DevTools, TLAPS

(* The client: the inductive invariant *)

Channels ==
  /\ \A k \in pending : pc[k] \in {"write", "wait"} /\ replies[k] = 0
  /\ \A k \in Ids : pc[k] = "idle" => replies[k] = 0
  /\ reader = "deliver" => /\ answer \in Ids \ pending
                           /\ pc[answer] # "idle"
                           /\ replies[answer] = 0

Promised(k) == k \in pending \/ (reader = "deliver" /\ answer = k)

\* cdp.go:147-224: a Call that has registered and not returned has its answer in
\* its channel, or is one whose answer the read loop or fail will put there; once
\* the read loop has ended only the first is left.
Owed ==
  /\ \A k \in Ids : pc[k] \in {"write", "wait"} => Promised(k) \/ replies[k] = 1
  /\ reader = "ended" => pending = {}

Ended ==
  /\ reader \in {"failing", "ended"} => ~up
  /\ closed <=> reader = "ended"

Subscriptions == subs \cap finished = {}

ClientInv == Client!TypeOK /\ Channels /\ Owed /\ Ended /\ Subscriptions /\ ~panicked

(* The browser: the inductive invariant *)

OnWire(method, t) == \E i \in 1 .. Len(wire) : wire[i] = Chromium!Command(method, t)

\* Chromium has executed the timezone's command for this target.
Zoned(t) == t \in zone \cup refused

\* How far Launch is, and what is running by then.
Launched ==
  /\ at = "spawn" => proc = "none" /\ conn = "none"
  /\ conn = "none" => at \in {"spawn", "down"} /\ proc = "none"
  /\ at = "down" => proc # "running" /\ conn # "open"
  /\ at \in {"spawn", "version", "enforce"} => loop = "off"
  /\ loop = "ended" => conn = "closed"
  /\ loop = "off" => ~auto /\ \A t \in Pages \cup Workers : target[t] = "none"

\* Only pages and frames get the command.
PagesOnly ==
  /\ \A i \in 1 .. Len(wire) : wire[i].method = "zone" => wire[i].target \notin Workers
  /\ loop = "zone" => cur.target \notin Workers

\* The timezone goes before the resumption: executed, written and about to be.
Ahead(t, j) == \E i \in 1 .. (j - 1) : wire[i] = Chromium!Command("zone", t)

Prepared ==
  \A t \in Pages :
    /\ target[t] \in {"ready", "scripts"} => Zoned(t)
    /\ \A j \in 1 .. Len(wire) :
         wire[j] = Chromium!Command("resume", t) => Zoned(t) \/ Ahead(t, j)
    /\ loop = "zone" /\ cur.target = t /\ conn = "open" => Zoned(t) \/ OnWire("zone", t)

\* launch.go:195-226: a paused target whose event was not dropped is in the
\* subscription, in the loop's hand or about to be resumed by Chromium.
Awaited ==
  \A t \in Pages \cup Workers : target[t] = "paused" /\ conn = "open" =>
    \/ t \in dropped
    \/ \E i \in 1 .. Len(attached) : attached[i] = Chromium!Event(t, TRUE)
    \/ loop = "zone" /\ cur = Chromium!Event(t, TRUE)
    \/ OnWire("resume", t)

ChromiumInv == Chromium!TypeOK /\ Launched /\ PagesOnly /\ Prepared /\ Awaited

IInv == ClientInv /\ ChromiumInv

-----------------------------------------------------------------------------
\* A client that NewClient has just made satisfies the inductive invariant.
LEMMA ClientInit == Client!Init => ClientInv
  <1> SUFFICES ASSUME Client!Init PROVE ClientInv
    OBVIOUS
  <1> USE DevToolsAssumption DEF Client!Init
  <1>1. Client!TypeOK
    <2>1. replies \in [Ids -> 0 .. 1] /\ queue \in [Subs -> 0 .. Cap]
      OBVIOUS
    <2>2. pc \in [Ids -> Client!CallPCs]
      BY DEF Client!CallPCs
    <2>3. closer \in [Closers -> {"none", "waiting", "done"}]
      OBVIOUS
    <2> QED
      BY <2>1, <2>2, <2>3 DEF Client!TypeOK
  <1>2. Channels /\ Owed
    BY DEF Channels, Owed, Promised
  <1>3. Ended /\ Subscriptions /\ ~panicked
    BY DEF Ended, Subscriptions
  <1> QED
    BY <1>1, <1>2, <1>3 DEF ClientInv

\* Every step of a Call, the read loop, a subscriber, a closer and the browser
\* keeps it.
LEMMA ClientStep == ClientInv /\ [Client!Next]_clientVars => ClientInv'
  <1> SUFFICES ASSUME ClientInv, [Client!Next]_clientVars PROVE ClientInv'
    OBVIOUS
  <1> USE DevToolsAssumption
      DEF ClientInv, Client!TypeOK, Client!CallPCs, Channels, Owed, Promised, Ended,
          Subscriptions, Client!callVars, Client!subVars, Client!Goto
  <1>1. ASSUME NEW k \in Ids, Client!Register(k) PROVE ClientInv'
    BY <1>1 DEF Client!Register
  <1>2. ASSUME NEW k \in Ids, Client!Write(k) PROVE ClientInv'
    BY <1>2 DEF Client!Write
  <1>3. ASSUME NEW k \in Ids, Client!GiveUp(k) PROVE ClientInv'
    BY <1>3 DEF Client!GiveUp
  <1>4. ASSUME NEW k \in Ids, Client!Receive(k) PROVE ClientInv'
    BY <1>4 DEF Client!Receive
  <1>5. ASSUME NEW k \in Ids, Client!ReadAnswer(k) PROVE ClientInv'
    BY <1>5 DEF Client!ReadAnswer
  <1>6. CASE Client!Deliver
    BY <1>6 DEF Client!Deliver
  <1>7. CASE Client!ReadEvent
    BY <1>7 DEF Client!ReadEvent
  <1>8. CASE Client!ReadFails
    BY <1>8 DEF Client!ReadFails
  <1>9. CASE Client!Fail
    BY <1>9 DEF Client!Fail
  <1>10. ASSUME NEW s \in Subs, Client!Subscribe(s) PROVE ClientInv'
    BY <1>10 DEF Client!Subscribe
  <1>11. ASSUME NEW s \in Subs, Client!Cancel(s) PROVE ClientInv'
    BY <1>11 DEF Client!Cancel
  <1>12. ASSUME NEW s \in Subs, Client!Take(s) PROVE ClientInv'
    BY <1>12 DEF Client!Take
  <1>13. ASSUME NEW c \in Closers, Client!Close(c) PROVE ClientInv'
    BY <1>13 DEF Client!Close
  <1>14. ASSUME NEW c \in Closers, Client!CloseReturns(c) PROVE ClientInv'
    BY <1>14 DEF Client!CloseReturns
  <1>15. CASE Client!BrowserExits
    BY <1>15 DEF Client!BrowserExits
  <1>16. CASE UNCHANGED clientVars
    BY <1>16 DEF clientVars
  <1> HIDE DEF ClientInv, Client!TypeOK, Client!CallPCs, Channels, Owed, Promised, Ended,
               Subscriptions, Client!callVars, Client!subVars, Client!Goto
  <1> QED
    BY <1>1, <1>2, <1>3, <1>4, <1>5, <1>6, <1>7, <1>8, <1>9, <1>10, <1>11,
       <1>12, <1>13, <1>14, <1>15, <1>16
    DEF Client!Next, Client!ReadLoop

-----------------------------------------------------------------------------
(* The browser: steps *)

Commands == [method : {"zone", "resume"}, target : Chromium!Targets]
EventRecords == [target : Chromium!Targets, waiting : BOOLEAN]

\* A command is written behind the others, ...
LEMMA WireGrows ==
  ASSUME wire \in Seq(Commands), NEW c \in Commands, wire' = Append(wire, c)
  PROVE  /\ wire' \in Seq(Commands) /\ Len(wire) \in Nat /\ Len(wire') = Len(wire) + 1
         /\ \A i \in 1 .. Len(wire) : wire'[i] = wire[i]
         /\ wire'[Len(wire) + 1] = c
OBVIOUS

\* ... and the first one is executed.
LEMMA WireShrinks ==
  ASSUME wire \in Seq(Commands), wire # <<>>, wire' = Tail(wire)
  PROVE  /\ wire' \in Seq(Commands) /\ Len(wire) \in Nat /\ Len(wire) >= 1
         /\ Len(wire') = Len(wire) - 1
         /\ Head(wire) = wire[1] /\ Head(wire) \in Commands
         /\ \A i \in 1 .. Len(wire') : wire'[i] = wire[i + 1]
OBVIOUS

\* A command that was on the wire and was not the first is still there.
LEMMA WireKeeps ==
  ASSUME wire \in Seq(Commands), wire # <<>>, wire' = Tail(wire),
         NEW method, NEW t, OnWire(method, t), Head(wire) # Chromium!Command(method, t)
  PROVE  OnWire(method, t)'
<1>1. PICK i \in 1 .. Len(wire) : wire[i] = Chromium!Command(method, t)
  BY DEF OnWire
<1>2. i # 1 /\ i - 1 \in 1 .. Len(wire') /\ wire'[i - 1] = wire[i]
  BY <1>1, WireShrinks
<1> QED
  BY <1>1, <1>2 DEF OnWire, Chromium!Command

\* What is ahead of a command stays there when others are written behind it.
LEMMA StaysAhead ==
  ASSUME wire \in Seq(Commands), NEW t, NEW j \in 1 .. (Len(wire) + 1), Ahead(t, j),
         \A i \in 1 .. Len(wire) : wire'[i] = wire[i]
  PROVE  Ahead(t, j)'
<1>1. PICK i \in 1 .. (j - 1) : wire[i] = Chromium!Command("zone", t)
  BY DEF Ahead
<1>2. Len(wire) \in Nat /\ i \in 1 .. Len(wire)
  OBVIOUS
<1>3. wire'[i] = Chromium!Command("zone", t)
  BY <1>1, <1>2
<1> QED
  BY <1>3 DEF Ahead, Chromium!Command

\* What readLoop makes of an event: nothing in the subscription is lost.
LEMMA Delivered ==
  ASSUME Chromium!TypeOK, NEW e \in EventRecords, Chromium!Deliver(e)
  PROVE  /\ attached' \in Seq(EventRecords) /\ Len(attached') <= QueueMax
         /\ dropped' \subseteq Chromium!Targets /\ dropped \subseteq dropped'
         /\ Len(attached) <= Len(attached')
         /\ \A i \in 1 .. Len(attached) : attached'[i] = attached[i]
         /\ e.target \in dropped' \/ \E i \in 1 .. Len(attached') : attached'[i] = e
<1>0. /\ attached \in Seq(EventRecords) /\ Len(attached) \in Nat /\ Len(attached) <= QueueMax
      /\ dropped \subseteq Chromium!Targets /\ e.target \in Chromium!Targets /\ QueueMax \in Nat
  BY DevToolsAssumption DEF Chromium!TypeOK, EventRecords
<1>1. CASE Len(attached) < QueueMax
  <2>1. attached' = Append(attached, e) /\ dropped' = dropped
    BY <1>1 DEF Chromium!Deliver
  <2>2. /\ attached' \in Seq(EventRecords) /\ Len(attached') = Len(attached) + 1
        /\ \A i \in 1 .. Len(attached) : attached'[i] = attached[i]
        /\ attached'[Len(attached) + 1] = e
    BY <1>0, <2>1
  <2>3. Len(attached) + 1 \in 1 .. Len(attached')
    BY <1>0, <2>2
  <2> QED
    BY <1>0, <1>1, <2>1, <2>2, <2>3
<1>2. CASE ~(Len(attached) < QueueMax)
  <2>1. attached' = attached /\ dropped' = dropped \cup {e.target}
    BY <1>2 DEF Chromium!Deliver
  <2> QED
    BY <1>0, <2>1
<1> QED
  BY <1>1, <1>2

\* The tab about:blank is all there is.
LEMMA ChromiumInit == Chromium!Init => ChromiumInv
<1> SUFFICES ASSUME Chromium!Init PROVE ChromiumInv
  OBVIOUS
<1> USE DevToolsAssumption DEF Chromium!Init
<1>1. Chromium!TypeOK
  <2>1. First \in Chromium!Targets
    BY DEF Chromium!Targets
  <2>2. cur \in [target : Chromium!Targets, waiting : BOOLEAN]
    BY <2>1 DEF Chromium!NoEvent, Chromium!Event
  <2>3. /\ attached \in Seq([target : Chromium!Targets, waiting : BOOLEAN])
        /\ wire \in Seq([method : {"zone", "resume"}, target : Chromium!Targets])
    OBVIOUS
  <2>4. Len(attached) <= QueueMax
    OBVIOUS
  <2>5. target \in [Chromium!Targets -> {"none", "paused", "ready", "scripts"}]
    OBVIOUS
  <2> QED
    BY <2>2, <2>3, <2>4, <2>5 DEF Chromium!TypeOK
<1>2. \A t \in Pages \cup Workers : target[t] = "none"
  BY DEF Chromium!Targets
<1>3. wire = <<>> /\ Len(wire) = 0
  OBVIOUS
<1>4. Launched
  BY <1>2 DEF Launched
<1>5. PagesOnly
  BY <1>3 DEF PagesOnly
<1>6. Prepared /\ Awaited
  BY <1>2, <1>3 DEF Prepared, Awaited
<1> QED
  BY <1>1, <1>4, <1>5, <1>6 DEF ChromiumInv

\* A step that writes and executes nothing and leaves the loop and the pages as they
\* are keeps the order of the commands.
LEMMA NothingWritten ==
  ASSUME PagesOnly, Prepared, UNCHANGED <<wire, loop, cur, target, zone, refused>>,
         conn' = "open" => conn = "open"
  PROVE  PagesOnly' /\ Prepared'
BY DEF PagesOnly, Prepared, Zoned, Ahead, OnWire, Chromium!Command

\* Who waits is still waited for.
LEMMA StillAwaited ==
  ASSUME Awaited, UNCHANGED <<wire, loop, cur, attached, dropped>>,
         \A t \in Pages \cup Workers : target'[t] = "paused" => target[t] = "paused",
         conn' = "open" => conn = "open"
  PROVE  Awaited'
BY DEF Awaited, OnWire, Chromium!Command, Chromium!Event

\* Each step of Launch, Close, the loop and Chromium keeps the invariant.
LEMMA ChromiumStep == ChromiumInv /\ [Chromium!Next]_chromiumVars => ChromiumInv'
<1> SUFFICES ASSUME ChromiumInv, [Chromium!Next]_chromiumVars PROVE ChromiumInv'
  OBVIOUS
<1> USE DEF Chromium!launchVars, Chromium!loopVars, Chromium!pageVars, Chromium!CanAnswer
<1>0. Chromium!TypeOK /\ Launched /\ PagesOnly /\ Prepared /\ Awaited
  BY DEF ChromiumInv
<1>t. /\ wire \in Seq(Commands) /\ attached \in Seq(EventRecords) /\ cur \in EventRecords
      /\ Len(wire) \in Nat /\ Len(attached) \in Nat
      /\ target \in [Chromium!Targets -> {"none", "paused", "ready", "scripts"}]
      /\ First \in Chromium!Targets /\ Pages \subseteq Chromium!Targets
      /\ Workers \subseteq Chromium!Targets
      /\ First \notin Pages \cup Workers /\ \A t \in Pages : t \notin Workers
  BY <1>0, DevToolsAssumption DEF Chromium!TypeOK, Commands, EventRecords, Chromium!Targets
<1>1. CASE Chromium!Spawn
  <2>1. Chromium!TypeOK'
    <3>1. target' \in [Chromium!Targets -> {"none", "paused", "ready", "scripts"}]
      BY <1>1, <1>t DEF Chromium!Spawn
    <3> QED
      BY <3>1, <1>1, <1>0 DEF Chromium!Spawn, Chromium!TypeOK
  <2>2. /\ UNCHANGED <<wire, loop, cur, zone, refused, attached, dropped>>
        /\ \A t \in Pages \cup Workers : target'[t] = target[t]
    BY <1>1, <1>t DEF Chromium!Spawn
  <2>3. loop = "off"
    BY <1>1, <1>0 DEF Chromium!Spawn, Launched
  <2>4. PagesOnly' /\ Prepared'
    BY <2>2, <2>3, <1>0 DEF PagesOnly, Prepared, Zoned, Ahead, OnWire, Chromium!Command
  <2>5. \A t \in Pages \cup Workers : target'[t] = "none"
    BY <2>2, <2>3, <1>0 DEF Launched
  <2>6. Awaited'
    BY <2>5 DEF Awaited
  <2>7. Launched'
    BY <1>1, <2>2, <2>3, <2>5, <1>0 DEF Chromium!Spawn, Launched
  <2> QED
    BY <2>1, <2>4, <2>6, <2>7 DEF ChromiumInv
<1>2. CASE Chromium!Version \/ Chromium!SetDownloadDir \/ Chromium!Close
  <2>1. Chromium!TypeOK' /\ Launched'
    BY <1>2, <1>0 DEF Chromium!Version, Chromium!SetDownloadDir, Chromium!Close,
       Chromium!TypeOK, Launched
  <2>2. UNCHANGED <<wire, loop, cur, target, zone, refused, attached, dropped, conn>>
    BY <1>2 DEF Chromium!Version, Chromium!SetDownloadDir, Chromium!Close
  <2> QED
    BY <2>1, <2>2, <1>0, NothingWritten, StillAwaited DEF ChromiumInv
<1>3. CASE Chromium!Kill \/ Chromium!ReadFails \/ Chromium!Dies
  <2>1. Chromium!TypeOK' /\ Launched'
    BY <1>3, <1>0 DEF Chromium!Kill, Chromium!ReadFails, Chromium!Dies, Chromium!TypeOK,
       Launched
  <2>2. /\ UNCHANGED <<wire, loop, cur, target, zone, refused, attached, dropped>>
        /\ conn' = "open" => conn = "open"
    BY <1>3 DEF Chromium!Kill, Chromium!ReadFails, Chromium!Dies
  <2> QED
    BY <2>1, <2>2, <1>0, NothingWritten, StillAwaited DEF ChromiumInv
<1>4. CASE Chromium!EnforceEnvironment
  <2>1. /\ at = "enforce" /\ loop = "off" /\ loop' \in {"wait", "ended"}
        /\ loop' = IF conn = "open" THEN "wait" ELSE "ended"
        /\ UNCHANGED <<proc, conn, target, zone, refused, cur, wire>>
        /\ at' \in {"download", "kill"} /\ auto' \in BOOLEAN
    BY <1>4, <1>0 DEF Chromium!EnforceEnvironment, Launched, Chromium!TypeOK
  <2>2. \A t \in Pages \cup Workers : target[t] = "none"
    BY <2>1, <1>0 DEF Launched
  <2>3. Chromium!Event(First, FALSE) \in EventRecords
    BY <1>t DEF Chromium!Event, EventRecords
  <2>4. /\ attached' \in Seq(EventRecords) /\ Len(attached') <= QueueMax
        /\ dropped' \subseteq Chromium!Targets
    <3>1. CASE Chromium!Deliver(Chromium!Event(First, FALSE))
      BY <3>1, <2>3, <1>0, Delivered
    <3>2. CASE UNCHANGED <<attached, dropped>>
      BY <3>2, <1>0, <1>t DEF Chromium!TypeOK
    <3> QED
      BY <1>4, <3>1, <3>2 DEF Chromium!EnforceEnvironment
  <2>5. Chromium!TypeOK'
    BY <2>1, <2>4, <1>0 DEF Chromium!TypeOK, EventRecords
  <2>6. Launched'
    BY <2>1, <2>2, <1>0 DEF Launched, Chromium!TypeOK
  <2>7. PagesOnly' /\ Prepared'
    BY <2>1, <1>0 DEF PagesOnly, Prepared, Zoned, Ahead, OnWire, Chromium!Command
  <2>8. Awaited'
    BY <2>1, <2>2 DEF Awaited
  <2> QED
    BY <2>5, <2>6, <2>7, <2>8 DEF ChromiumInv
<1>5. CASE Chromium!TakeEvent
  <2>1. /\ loop = "wait" /\ attached # <<>>
        /\ cur' = Head(attached) /\ attached' = Tail(attached)
        /\ UNCHANGED <<at, proc, conn, auto, target, zone, refused, dropped>>
    BY <1>5 DEF Chromium!TakeEvent
  <2>2. /\ attached' \in Seq(EventRecords) /\ Len(attached') = Len(attached) - 1
        /\ Len(attached) >= 1 /\ cur' = attached[1] /\ cur' \in EventRecords
        /\ \A i \in 1 .. Len(attached') : attached'[i] = attached[i + 1]
    BY <2>1, <1>t
  <2>3. cur'.target \in Chromium!Targets /\ cur'.waiting \in BOOLEAN
    BY <2>2 DEF EventRecords
  <2>4. Len(attached') <= QueueMax
    BY <2>2, <1>0, <1>t, DevToolsAssumption DEF Chromium!TypeOK
  <2>w. /\ conn # "open" => wire' = wire
        /\ conn = "open" => \/ /\ cur'.target \notin Workers /\ loop' = "zone"
                               /\ wire' = Append(wire, Chromium!Command("zone", cur'.target))
                            \/ /\ cur'.target \in Workers /\ cur'.waiting /\ loop' = "resume"
                               /\ wire' = Append(wire, Chromium!Command("resume", cur'.target))
                            \/ /\ cur'.target \in Workers /\ ~cur'.waiting /\ loop' = "wait"
                               /\ wire' = wire
        /\ loop' \in {"zone", "resume", "wait"}
        /\ loop' = "zone" => cur'.target \notin Workers
    BY <1>5 DEF Chromium!TakeEvent, Chromium!Send
  <2>5. /\ Chromium!Command("zone", cur'.target) \in Commands
        /\ Chromium!Command("resume", cur'.target) \in Commands
    BY <2>3 DEF Chromium!Command, Commands
  <2>6. /\ wire' \in Seq(Commands) /\ Len(wire') \in Nat /\ Len(wire) <= Len(wire')
        /\ \A i \in 1 .. Len(wire) : wire'[i] = wire[i]
    BY <2>w, <2>5, <1>t, WireGrows
  <2>7. \A i \in 1 .. Len(wire') :
          \/ i \in 1 .. Len(wire)
          \/ wire'[i].method = "zone" /\ wire'[i].target \notin Workers
          \/ wire'[i].method = "resume" /\ wire'[i].target \in Workers
    <3>1. CASE wire' = wire
      BY <3>1
    <3>2. CASE wire' # wire
      <4>1. /\ Len(wire') = Len(wire) + 1
            /\ \/ /\ cur'.target \notin Workers
                  /\ wire'[Len(wire) + 1] = Chromium!Command("zone", cur'.target)
               \/ /\ cur'.target \in Workers
                  /\ wire'[Len(wire) + 1] = Chromium!Command("resume", cur'.target)
        BY <3>2, <2>w, <2>5, <1>t, WireGrows
      <4> QED
        BY <4>1, <1>t DEF Chromium!Command
    <3> QED
      BY <3>1, <3>2
  <2>8. Chromium!TypeOK' /\ Launched'
    BY <2>1, <2>2, <2>4, <2>6, <2>w, <1>0
    DEF Chromium!TypeOK, Launched, Commands, EventRecords
  <2>9. PagesOnly'
    BY <2>6, <2>7, <2>w, <1>0 DEF PagesOnly
  <2>10. ASSUME NEW method, NEW t, OnWire(method, t) PROVE OnWire(method, t)'
    BY <2>10, <2>6, <1>t DEF OnWire, Chromium!Command
  <2>11. ASSUME NEW t, loop' = "zone", conn = "open", cur'.target = t
         PROVE  OnWire("zone", t)'
    <3>1. wire' = Append(wire, Chromium!Command("zone", t))
      BY <2>11, <2>w
    <3>2. /\ Len(wire) + 1 \in 1 .. Len(wire')
          /\ wire'[Len(wire) + 1] = Chromium!Command("zone", t)
      BY <3>1, <2>5, <2>11, <1>t, WireGrows
    <3> QED
      BY <3>2 DEF OnWire, Chromium!Command
  <2>12. Prepared'
    <3> SUFFICES ASSUME NEW t \in Pages
                 PROVE  /\ target'[t] \in {"ready", "scripts"} => Zoned(t)'
                        /\ \A j \in 1 .. Len(wire') :
                             wire'[j] = Chromium!Command("resume", t) =>
                               Zoned(t)' \/ Ahead(t, j)'
                        /\ loop' = "zone" /\ cur'.target = t /\ conn' = "open" =>
                             Zoned(t)' \/ OnWire("zone", t)'
      BY DEF Prepared, Chromium!Command
    <3>1. target'[t] \in {"ready", "scripts"} => Zoned(t)'
      BY <2>1, <1>0 DEF Prepared, Zoned
    <3>2. ASSUME NEW j \in 1 .. Len(wire'), wire'[j] = Chromium!Command("resume", t)
          PROVE  Zoned(t)' \/ Ahead(t, j)'
      <4>1. j \in 1 .. Len(wire)
        BY <3>2, <2>7, <1>t DEF Chromium!Command
      <4>2. Zoned(t) \/ Ahead(t, j)
        BY <4>1, <3>2, <2>6, <1>0 DEF Prepared
      <4>3. Zoned(t) => Zoned(t)'
        BY <2>1 DEF Zoned
      <4> QED
        BY <4>1, <4>2, <4>3, <2>6, <1>t, StaysAhead
    <3> QED
      BY <3>1, <3>2, <2>1, <2>11
  <2>13. Awaited'
    <3> SUFFICES ASSUME NEW t \in Pages \cup Workers, target'[t] = "paused", conn' = "open"
                 PROVE  \/ t \in dropped'
                        \/ \E i \in 1 .. Len(attached') : attached'[i] = Chromium!Event(t, TRUE)
                        \/ loop' = "zone" /\ cur' = Chromium!Event(t, TRUE)
                        \/ OnWire("resume", t)'
      BY DEF Awaited, Chromium!Event
    <3>1. \/ t \in dropped
          \/ \E i \in 1 .. Len(attached) : attached[i] = Chromium!Event(t, TRUE)
          \/ OnWire("resume", t)
      BY <2>1, <1>0 DEF Awaited
    <3>2. ASSUME NEW i \in 1 .. Len(attached), attached[i] = Chromium!Event(t, TRUE), i # 1
          PROVE  \E k \in 1 .. Len(attached') : attached'[k] = Chromium!Event(t, TRUE)
      <4>1. i \in Nat /\ 1 < i /\ i <= Len(attached) /\ Len(attached') = Len(attached) - 1
        BY <3>2, <2>2, <1>t
      <4>2. i - 1 \in 1 .. Len(attached') /\ (i - 1) + 1 = i
        BY <4>1, <1>t
      <4>3. attached'[i - 1] = attached[i]
        BY <4>2, <2>2
      <4> QED
        BY <4>2, <4>3, <3>2
    <3>3. ASSUME attached[1] = Chromium!Event(t, TRUE)
          PROVE  (loop' = "zone" /\ cur' = Chromium!Event(t, TRUE)) \/ OnWire("resume", t)'
      <4>1. cur' = Chromium!Event(t, TRUE) /\ cur'.target = t /\ cur'.waiting
        BY <3>3, <2>2 DEF Chromium!Event
      <4>2. CASE t \in Workers
        <5>1. wire' = Append(wire, Chromium!Command("resume", t))
          BY <4>1, <4>2, <2>w, <2>1
        <5>2. /\ Len(wire) + 1 \in 1 .. Len(wire')
              /\ wire'[Len(wire) + 1] = Chromium!Command("resume", t)
          BY <5>1, <4>1, <2>5, <1>t, WireGrows
        <5> QED
          BY <5>2 DEF OnWire, Chromium!Command
      <4>3. CASE t \notin Workers
        BY <4>1, <4>3, <2>w, <2>1
      <4> QED
        BY <4>2, <4>3
    <3> QED
      BY <3>1, <3>2, <3>3, <2>1, <2>10
  <2> QED
    BY <2>8, <2>9, <2>12, <2>13 DEF ChromiumInv
<1>6. CASE Chromium!ZoneDone
  <2>1. /\ loop = "zone" /\ loop' \in {"resume", "wait"} /\ cur.target \notin Workers
        /\ UNCHANGED <<at, proc, conn, auto, target, zone, refused, attached, dropped, cur>>
    BY <1>6, <1>0 DEF Chromium!ZoneDone, PagesOnly
  <2>2. \/ conn = "open" /\ cur.waiting /\ wire' = Append(wire, Chromium!Command("resume", cur.target))
        \/ wire' = wire /\ (conn # "open" \/ ~cur.waiting)
    BY <1>6 DEF Chromium!ZoneDone, Chromium!Send
  <2>3. Chromium!Command("resume", cur.target) \in Commands
    BY <1>t DEF Chromium!Command, Commands, EventRecords
  <2>4. /\ wire' \in Seq(Commands) /\ Len(wire') \in Nat /\ Len(wire) <= Len(wire')
        /\ \A i \in 1 .. Len(wire) : wire'[i] = wire[i]
        /\ \A i \in 1 .. Len(wire') : i \in 1 .. Len(wire) \/
             /\ i = Len(wire) + 1 /\ conn = "open"
             /\ wire'[i] = Chromium!Command("resume", cur.target)
    BY <2>2, <2>3, <1>t, WireGrows
  <2>5. Chromium!TypeOK' /\ Launched'
    BY <2>1, <2>4, <1>0 DEF Chromium!TypeOK, Launched, Commands
  <2>6. PagesOnly'
    <3>1. \A i \in 1 .. Len(wire') : i \in 1 .. Len(wire) \/ wire'[i].method = "resume"
      BY <2>4 DEF Chromium!Command
    <3> QED
      BY <3>1, <2>1, <2>4, <1>0 DEF PagesOnly
  <2>7. Prepared'
    <3> SUFFICES ASSUME NEW t \in Pages
                 PROVE  /\ target'[t] \in {"ready", "scripts"} => Zoned(t)'
                        /\ \A j \in 1 .. Len(wire') :
                             wire'[j] = Chromium!Command("resume", t) =>
                               Zoned(t)' \/ Ahead(t, j)'
      BY <2>1 DEF Prepared, Chromium!Command
    <3>1. target'[t] \in {"ready", "scripts"} => Zoned(t)'
      BY <2>1, <1>0 DEF Prepared, Zoned
    <3>5. Zoned(t) => Zoned(t)'
      BY <2>1 DEF Zoned
    <3>2. ASSUME NEW j \in 1 .. Len(wire), wire'[j] = Chromium!Command("resume", t)
          PROVE  Zoned(t)' \/ Ahead(t, j)'
      <4>1. Zoned(t) \/ Ahead(t, j)
        BY <3>2, <2>4, <1>0 DEF Prepared
      <4> QED
        BY <4>1, <3>5, <3>2, <2>4, <1>t, StaysAhead
    <3>3. ASSUME conn = "open", NEW j, j = Len(wire) + 1,
                 Chromium!Command("resume", cur.target) = Chromium!Command("resume", t)
          PROVE  Zoned(t)' \/ Ahead(t, j)'
      <4>1. cur.target = t
        BY <3>3 DEF Chromium!Command
      <4>2. Zoned(t) \/ OnWire("zone", t)
        BY <4>1, <3>3, <2>1, <1>0 DEF Prepared
      <4>3. j \in 1 .. (Len(wire) + 1) /\ (OnWire("zone", t) => Ahead(t, j))
        BY <3>3, <1>t DEF OnWire, Ahead
      <4> QED
        BY <4>2, <4>3, <3>5, <2>4, <1>t, StaysAhead
    <3>4. ASSUME NEW j \in 1 .. Len(wire'), wire'[j] = Chromium!Command("resume", t)
          PROVE  Zoned(t)' \/ Ahead(t, j)'
      <4>1. CASE j \in 1 .. Len(wire)
        BY <4>1, <3>4, <3>2
      <4>2. CASE j \notin 1 .. Len(wire)
        <5>1. /\ j = Len(wire) + 1 /\ conn = "open"
              /\ Chromium!Command("resume", cur.target) = Chromium!Command("resume", t)
          BY <4>2, <3>4, <2>4
        <5> QED
          BY <5>1, <3>3
      <4> QED
        BY <4>1, <4>2
    <3> QED
      BY <3>1, <3>4
  <2>8. Awaited'
    <3> SUFFICES ASSUME NEW t \in Pages \cup Workers, target[t] = "paused", conn = "open"
                 PROVE  \/ t \in dropped
                        \/ \E i \in 1 .. Len(attached) : attached[i] = Chromium!Event(t, TRUE)
                        \/ OnWire("resume", t)'
      BY <2>1 DEF Awaited, Chromium!Event
    <3>1. ASSUME OnWire("resume", t) PROVE OnWire("resume", t)'
      BY <3>1, <2>4, <1>t DEF OnWire, Chromium!Command
    <3>2. ASSUME cur = Chromium!Event(t, TRUE) PROVE OnWire("resume", t)'
      <4>1. cur.target = t /\ cur.waiting
        BY <3>2 DEF Chromium!Event
      <4>2. wire' = Append(wire, Chromium!Command("resume", t))
        BY <4>1, <2>2
      <4>3. /\ Len(wire) + 1 \in 1 .. Len(wire')
            /\ wire'[Len(wire) + 1] = Chromium!Command("resume", t)
        BY <4>1, <4>2, <2>3, <1>t, WireGrows
      <4> QED
        BY <4>3 DEF OnWire, Chromium!Command
    <3> QED
      BY <3>1, <3>2, <1>0 DEF Awaited
  <2> QED
    BY <2>5, <2>6, <2>7, <2>8 DEF ChromiumInv
<1>7. CASE Chromium!ResumeDone \/ Chromium!LoopEnds
  <2>1. /\ loop \in {"resume", "wait"} /\ loop' \in {"wait", "ended"}
        /\ loop' = "ended" => conn = "closed"
        /\ UNCHANGED <<at, proc, conn, auto, target, zone, refused, attached, dropped, cur, wire>>
    BY <1>7 DEF Chromium!ResumeDone, Chromium!LoopEnds
  <2>2. Chromium!TypeOK' /\ Launched'
    BY <2>1, <1>0 DEF Chromium!TypeOK, Launched
  <2>3. PagesOnly' /\ Prepared'
    BY <2>1, <1>0 DEF PagesOnly, Prepared, Zoned, Ahead, OnWire, Chromium!Command
  <2>4. Awaited'
    BY <2>1, <1>0 DEF Awaited, OnWire, Chromium!Command, Chromium!Event
  <2> QED
    BY <2>2, <2>3, <2>4 DEF ChromiumInv
<1>8. ASSUME NEW t \in Chromium!Targets, Chromium!OpenTarget(t) PROVE ChromiumInv'
  <2>1. /\ auto /\ target[t] = "none" /\ t # First
        /\ target' = [target EXCEPT ![t] = "paused"]
        /\ Chromium!Deliver(Chromium!Event(t, TRUE))
        /\ UNCHANGED <<at, proc, conn, auto, zone, refused, loop, cur, wire>>
    BY <1>8 DEF Chromium!OpenTarget
  <2>2. Chromium!Event(t, TRUE) \in EventRecords /\ Chromium!Event(t, TRUE).target = t
    BY DEF Chromium!Event, EventRecords
  <2>3. /\ attached' \in Seq(EventRecords) /\ Len(attached') <= QueueMax
        /\ dropped' \subseteq Chromium!Targets /\ dropped \subseteq dropped'
        /\ Len(attached') \in Nat /\ Len(attached) <= Len(attached')
        /\ \A i \in 1 .. Len(attached) : attached'[i] = attached[i]
        /\ t \in dropped' \/ \E i \in 1 .. Len(attached') : attached'[i] = Chromium!Event(t, TRUE)
    <3> DEFINE e == Chromium!Event(t, TRUE)
    <3>1. e \in EventRecords /\ e.target = t /\ Chromium!Deliver(e)
      BY <2>1, <2>2
    <3> HIDE DEF e
    <3>2. /\ attached' \in Seq(EventRecords) /\ Len(attached') <= QueueMax
          /\ dropped' \subseteq Chromium!Targets /\ dropped \subseteq dropped'
          /\ Len(attached) <= Len(attached')
          /\ \A i \in 1 .. Len(attached) : attached'[i] = attached[i]
          /\ e.target \in dropped' \/ \E i \in 1 .. Len(attached') : attached'[i] = e
      BY <3>1, <1>0, Delivered
    <3>3. Len(attached') \in Nat
      BY <3>2
    <3> QED
      BY <3>1, <3>2, <3>3 DEF e
  <2>4. Chromium!TypeOK'
    BY <2>1, <2>3, <1>0, <1>t DEF Chromium!TypeOK, EventRecords
  <2>5. Launched'
    BY <2>1, <1>0 DEF Launched
  <2>6. PagesOnly' /\ Prepared'
    BY <2>1, <1>0, <1>t DEF PagesOnly, Prepared, Zoned, Ahead, OnWire, Chromium!Command
  <2>7. Awaited'
    <3> SUFFICES ASSUME NEW u \in Pages \cup Workers, target'[u] = "paused", conn = "open", u # t
                 PROVE  \/ u \in dropped'
                        \/ \E i \in 1 .. Len(attached') : attached'[i] = Chromium!Event(u, TRUE)
                        \/ loop' = "zone" /\ cur' = Chromium!Event(u, TRUE)
                        \/ OnWire("resume", u)'
      BY <2>1, <2>3 DEF Awaited, Chromium!Event
    <3>1. target[u] = "paused"
      BY <2>1, <1>t
    <3>2. \/ u \in dropped
          \/ \E i \in 1 .. Len(attached) : attached[i] = Chromium!Event(u, TRUE)
          \/ loop = "zone" /\ cur = Chromium!Event(u, TRUE)
          \/ OnWire("resume", u)
      BY <3>1, <1>0 DEF Awaited
    <3>3. OnWire("resume", u) => OnWire("resume", u)'
      BY <2>1 DEF OnWire, Chromium!Command
    <3>4. (\E i \in 1 .. Len(attached) : attached[i] = Chromium!Event(u, TRUE)) =>
             \E i \in 1 .. Len(attached') : attached'[i] = Chromium!Event(u, TRUE)
      <4>1. \A i \in 1 .. Len(attached) : i \in 1 .. Len(attached')
        BY <2>3, <1>t
      <4> QED
        BY <4>1, <2>3
    <3> QED
      BY <3>2, <3>3, <3>4, <2>1, <2>3
  <2> QED
    BY <2>4, <2>5, <2>6, <2>7 DEF ChromiumInv
<1>9. CASE Chromium!Execute
  <2> DEFINE c == Head(wire)
  <2>1. /\ proc = "running" /\ wire # <<>> /\ wire' = Tail(wire)
        /\ UNCHANGED <<at, proc, conn, auto, attached, dropped, loop, cur>>
    BY <1>9 DEF Chromium!Execute
  <2>2. /\ wire' \in Seq(Commands) /\ Len(wire) >= 1 /\ Len(wire') = Len(wire) - 1
        /\ c = wire[1] /\ c \in Commands
        /\ \A i \in 1 .. Len(wire') : wire'[i] = wire[i + 1]
    BY <2>1, <1>t, WireShrinks
  <2>3. \/ /\ c.method = "zone" /\ target' = target
           /\ \/ zone' = zone \cup {c.target} /\ refused' = refused
              \/ refused' = refused \cup {c.target} /\ zone' = zone
        \/ /\ c.method = "resume" /\ zone' = zone /\ refused' = refused
           /\ target' = [target EXCEPT ![c.target] =
                           IF @ = "paused" THEN "ready" ELSE @]
    BY <1>9 DEF Chromium!Execute
  <2>4. /\ c.target \in Chromium!Targets /\ c.method \in {"zone", "resume"}
        /\ c = Chromium!Command(c.method, c.target)
    BY <2>2 DEF Commands, Chromium!Command
  <2>5. c.method = "zone" => c.target \notin Workers
    BY <2>2, <1>0, <1>t DEF PagesOnly
  <2> HIDE DEF c
  <2>6. Chromium!TypeOK'
    BY <2>1, <2>2, <2>3, <2>4, <2>5, <1>0 DEF Chromium!TypeOK, Commands
  <2>7. \A t \in Pages : Zoned(t) => Zoned(t)'
    BY <2>3 DEF Zoned
  <2>8. /\ \A t \in Pages \cup Workers : target'[t] # target[t] =>
             /\ c = Chromium!Command("resume", t)
             /\ target[t] = "paused" /\ target'[t] = "ready"
    BY <2>3, <2>4, <1>t
  <2>9. Launched'
    BY <2>1, <2>8, <1>0 DEF Launched
  <2>10. PagesOnly'
    <3>1. \A i \in 1 .. Len(wire') : i + 1 \in 1 .. Len(wire)
      BY <2>2, <1>t
    <3> QED
      BY <3>1, <2>1, <2>2, <1>0 DEF PagesOnly
  <2>11. ASSUME NEW t \in Pages, c = Chromium!Command("resume", t) PROVE Zoned(t)
    <3>1. Zoned(t) \/ Ahead(t, 1)
      BY <2>11, <2>2, <1>0, <1>t DEF Prepared
    <3>2. ~Ahead(t, 1)
      BY DEF Ahead
    <3> QED
      BY <3>1, <3>2
  <2>12. ASSUME NEW t, c = Chromium!Command("zone", t) PROVE Zoned(t)'
    <3>1. c.method = "zone" /\ c.target = t
      BY <2>12 DEF Chromium!Command
    <3> QED
      BY <3>1, <2>3 DEF Zoned
  <2>13. Prepared'
    <3> SUFFICES ASSUME NEW t \in Pages
                 PROVE  /\ target'[t] \in {"ready", "scripts"} => Zoned(t)'
                        /\ \A j \in 1 .. Len(wire') :
                             wire'[j] = Chromium!Command("resume", t) =>
                               Zoned(t)' \/ Ahead(t, j)'
                        /\ loop' = "zone" /\ cur'.target = t /\ conn' = "open" =>
                             Zoned(t)' \/ OnWire("zone", t)'
      BY DEF Prepared, Chromium!Command
    <3>1. target'[t] \in {"ready", "scripts"} => Zoned(t)'
      <4>1. target[t] \in {"ready", "scripts"} => Zoned(t)
        BY <1>0 DEF Prepared
      <4> QED
        BY <4>1, <2>7, <2>8, <2>11
    <3>2. ASSUME NEW j \in 1 .. Len(wire'), wire'[j] = Chromium!Command("resume", t)
          PROVE  Zoned(t)' \/ Ahead(t, j)'
      <4>1. j + 1 \in 1 .. Len(wire) /\ wire[j + 1] = Chromium!Command("resume", t)
        BY <3>2, <2>2, <1>t
      <4>2. Zoned(t) \/ Ahead(t, j + 1)
        BY <4>1, <1>0 DEF Prepared
      <4>3. ASSUME Ahead(t, j + 1), c # Chromium!Command("zone", t) PROVE Ahead(t, j)'
        <5>1. PICK i \in 1 .. j : wire[i] = Chromium!Command("zone", t)
          BY <4>3, <4>1 DEF Ahead
        <5>2. i # 1 /\ i - 1 \in 1 .. (j - 1) /\ i - 1 \in 1 .. Len(wire')
          BY <5>1, <4>3, <2>2, <3>2, <1>t
        <5>3. wire'[i - 1] = wire[i]
          BY <5>2, <2>2
        <5> QED
          BY <5>1, <5>2, <5>3 DEF Ahead, Chromium!Command
      <4> QED
        BY <4>2, <4>3, <2>7, <2>12
    <3>3. ASSUME loop' = "zone", cur'.target = t, conn' = "open"
          PROVE  Zoned(t)' \/ OnWire("zone", t)'
      <4>1. Zoned(t) \/ OnWire("zone", t)
        BY <3>3, <2>1, <1>0 DEF Prepared
      <4> QED
        BY <4>1, <2>1, <2>7, <2>12, <1>t, WireKeeps DEF c
    <3> QED
      BY <3>1, <3>2, <3>3
  <2>14. Awaited'
    <3> SUFFICES ASSUME NEW t \in Pages \cup Workers, target'[t] = "paused", conn = "open"
                 PROVE  \/ t \in dropped
                        \/ \E i \in 1 .. Len(attached) : attached[i] = Chromium!Event(t, TRUE)
                        \/ loop = "zone" /\ cur = Chromium!Event(t, TRUE)
                        \/ OnWire("resume", t)'
      BY <2>1 DEF Awaited, Chromium!Event
    <3>1. target[t] = "paused" /\ c # Chromium!Command("resume", t)
      <4>1. target[t] = "paused"
        BY <2>8
      <4>2. ASSUME c = Chromium!Command("resume", t) PROVE FALSE
        <5>1. c.method = "resume" /\ c.target = t /\ t \in Chromium!Targets
          BY <4>2, <1>t DEF Chromium!Command
        <5> QED
          BY <5>1, <4>1, <2>3, <1>t
      <4> QED
        BY <4>1, <4>2
    <3>2. OnWire("resume", t) => OnWire("resume", t)'
      BY <3>1, <2>1, <1>t, WireKeeps DEF c
    <3> QED
      BY <3>1, <3>2, <1>0 DEF Awaited
  <2> QED
    BY <2>6, <2>9, <2>10, <2>13, <2>14 DEF ChromiumInv
<1>10. ASSUME NEW t \in Chromium!Targets, Chromium!RunScripts(t) PROVE ChromiumInv'
  <2>1. /\ target[t] = "ready" /\ target' = [target EXCEPT ![t] = "scripts"]
        /\ UNCHANGED <<at, proc, conn, auto, zone, refused, loop, cur, wire, attached, dropped>>
    BY <1>10 DEF Chromium!RunScripts
  <2>2. Chromium!TypeOK' /\ Launched'
    BY <2>1, <1>0, <1>t DEF Chromium!TypeOK, Launched
  <2>3. PagesOnly' /\ Prepared'
    BY <2>1, <1>0, <1>t DEF PagesOnly, Prepared, Zoned, Ahead, OnWire, Chromium!Command
  <2>4. \A u \in Pages \cup Workers : target'[u] = "paused" => target[u] = "paused"
    BY <2>1, <1>t
  <2> QED
    BY <2>1, <2>2, <2>3, <2>4, <1>0, StillAwaited DEF ChromiumInv
<1>11. CASE UNCHANGED chromiumVars
  <2>1. UNCHANGED <<at, proc, conn, auto, target, zone, attached, loop, cur, wire, refused,
                    dropped>>
    BY <1>11 DEF chromiumVars
  <2>2. Chromium!TypeOK' /\ Launched'
    BY <2>1, <1>0 DEF Chromium!TypeOK, Launched
  <2> QED
    BY <2>1, <2>2, <1>0, NothingWritten, StillAwaited DEF ChromiumInv
<1> QED
  BY <1>1, <1>2, <1>3, <1>4, <1>5, <1>6, <1>7, <1>8, <1>9, <1>10, <1>11
  DEF Chromium!Next, Chromium!LaunchSteps, Chromium!LoopSteps

-----------------------------------------------------------------------------
(* The theorems *)

\* The invariant holds when the client is made and before Chromium is started, ...
LEMMA InitInv == Init => IInv
BY ClientInit, ChromiumInit DEF Init, IInv

\* ... and a step at either end keeps it, with the other one at rest.
LEMMA StepInv == IInv /\ [Next]_vars => IInv'
<1>1. [Next]_vars => [Client!Next]_clientVars /\ [Chromium!Next]_chromiumVars
  BY Zenon DEF Next, ClientSteps, ChromiumSteps, vars
<1> QED
  BY <1>1, ClientStep, ChromiumStep DEF IInv

\* The inductive invariant holds in every state of both ends.
THEOREM Invariance == Spec => []IInv
BY InitInv, StepInv, PTL DEF Spec

\* cdp.go's maps and channels keep their types, in particular no channel of a Call
\* ever holds two messages; so do the launch, the pages and the loop of launch.go,
\* and no subscription holds more than its capacity.
THEOREM TypeCorrect == Spec => [](Client!TypeOK /\ Chromium!TypeOK)
<1>1. IInv => Client!TypeOK /\ Chromium!TypeOK
  BY DEF IInv, ClientInv, ChromiumInv
<1> QED
  BY <1>1, Invariance, PTL

\* The read loop's sends, the one of an answer and those of fail, always find
\* the channel empty: for any number of Calls, any answers of the browser and
\* any Call giving up at any time.
THEOREM ReaderIsFree == Spec => []ReaderNeverBlocks
<1>1. IInv => ReaderNeverBlocks
  BY DEF IInv, ClientInv, Channels, ReaderNeverBlocks, Client!ReaderNeverBlocks
<1> QED
  BY <1>1, Invariance, PTL

\* No order of events, cancels and the end of the transport sends on a closed
\* subscription or closes one twice.
THEOREM ChannelsAreClosedOnce == Spec => []NoPanic
<1>1. IInv => NoPanic
  BY DEF IInv, ClientInv, NoPanic, Client!NoPanic
<1> QED
  BY <1>1, Invariance, PTL

\* The safety half of CallsReturn: no Call that waits is forgotten, whoever
\* removes its id from pending, and after the read loop has ended every one of
\* them finds a message in its channel.
THEOREM NoCallIsForgotten == Spec => []Owed
<1>1. IInv => Owed
  BY DEF IInv, ClientInv
<1> QED
  BY <1>1, Invariance, PTL

\* launch.go Launch and Close: a launch that failed at whichever step, and a browser
\* that was closed, leave no process and no open pipe, whenever Chromium died.
THEOREM NoProcessIsLeft == Spec => []NothingIsLeft
<1>1. IInv => NothingIsLeft
  BY DEF IInv, ChromiumInv, Launched, NothingIsLeft, Chromium!NothingIsLeft
<1> QED
  BY <1>1, Invariance, PTL

\* launch.go autoAttachLoop: a page opened under auto-attach does not run a script
\* before Chromium has executed its timezone, for any number of pages, any capacity
\* of the subscription and any deadline that passes meanwhile.
THEOREM PagesStartInTheirZone == Spec => []NewPagesHaveTheZone
<1>1. IInv => NewPagesHaveTheZone
  BY DEF IInv, ChromiumInv, Prepared, Zoned, NewPagesHaveTheZone,
     Chromium!NewPagesHaveTheZone
<1> QED
  BY <1>1, Invariance, PTL

\* The safety half of PausedPagesResume: as long as the client is open, a paused
\* target is one whose event was dropped, or that the loop or Chromium has still to
\* resume.
THEOREM NoPageIsForgotten == Spec => []Awaited
<1>1. IInv => Awaited
  BY DEF IInv, ChromiumInv
<1> QED
  BY <1>1, Invariance, PTL
=============================================================================
