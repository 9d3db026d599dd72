------------------------------ MODULE LocalTor ------------------------------
(***************************************************************************)
(* The local provisioner: one tor process per identity slot                *)
(* (routing/manager/local.go over routing/tor/daemon.go).  A slot is       *)
(* booted by Provision, pinned to its exit by PinExit during startup, and  *)
(* handed back by Reestablish when the health monitor found its route      *)
(* down.                                                                   *)
(*                                                                         *)
(* A daemon is one tor.Daemon object and the process it started; booting a *)
(* slot again makes a new one.  Slots are worked on concurrently: by the   *)
(* goroutines of Provision, by Session.parallel and by one monitor loop    *)
(* each.  Tor may die at any moment.                                       *)
(*                                                                         *)
(* The directories tor/id-NNN belong to the data directory, not to the     *)
(* controller, and nothing locks them: `others' are the tors that other    *)
(* controllers run there, and those of killed controllers until they end.  *)
(***************************************************************************)
EXTENDS Naturals, FiniteSets

CONSTANTS
  Slots,     \* identity slots
  Daemons,   \* tor.Daemon objects that can be made, in this order (numbers; a
             \* bound on restarts)
  Exits,     \* exit relays
  NoExit,    \* no pin: pinnedExit = ""
  NoDaemon,  \* a slot without a daemon
  NoSlot     \* a daemon that was not made

VARIABLES
  phase,   \* "new", "booting", "up" (startup goes on), "serving" (the monitor
           \* runs), "failed" or "closed"
  at,      \* where the goroutine working on a slot is
  slots,   \* Local.slots: the slot's daemon
  next,    \* the daemon a running bootSlot of the slot made
  pin,     \* restartPinned's local copy of the pin
  proc,    \* the tor process of a daemon: "none", "running" or "dead"
  dir,     \* the slot whose data directory a daemon uses, if it was made
  ctrl,    \* Daemon.ctrl is not nil
  pinned,  \* Daemon.pinnedExit
  conf,    \* the ExitNodes the tor process is configured with
  others,  \* slots whose directory a tor of another controller uses
  overlap  \* history: this controller and another had tors at the same time

slotVars == <<slots, next, pin>>
torVars == <<proc, dir, ctrl, pinned, conf>>
dirVars == <<others, overlap>>
vars == <<phase, at, slotVars, torVars, dirVars>>

Places == {"idle", "boot", "check", "booted", "err",
           "stopOld", "restart", "recheck", "repin", "back"}

Init ==
  /\ phase = "new"
  /\ at = [s \in Slots |-> "idle"]
  /\ slots = [s \in Slots |-> NoDaemon]
  /\ next = [s \in Slots |-> NoDaemon]
  /\ pin = [s \in Slots |-> NoExit]
  /\ proc = [d \in Daemons |-> "none"]
  /\ dir = [d \in Daemons |-> NoSlot]
  /\ ctrl = [d \in Daemons |-> FALSE]
  /\ pinned = [d \in Daemons |-> NoExit]
  /\ conf = [d \in Daemons |-> NoExit]
  /\ others = {} /\ overlap = FALSE

-----------------------------------------------------------------------------
(* tor.Daemon *)

Step(s, from, to) ==
  /\ at[s] = from
  /\ at' = [at EXCEPT ![s] = to]

\* Daemon.Start launches a process in the slot's directory ...
Launch(s, from, to) ==
  \E d \in Daemons :
    /\ Step(s, from, to)
    /\ proc[d] = "none"
    /\ \A e \in Daemons : proc[e] = "none" => d <= e
    /\ proc' = [proc EXCEPT ![d] = "running"]
    /\ dir' = [dir EXCEPT ![d] = s]
    /\ next' = [next EXCEPT ![s] = d]
    /\ UNCHANGED <<phase, slots, pin, ctrl, pinned, conf>>

\* ... and waits for its control port, its cookie and its circuits.  A process
\* that does not get there is killed.
Bootstrap(s, from, to, failed) ==
  LET d == next[s] IN
  \/ /\ Step(s, from, to)
     /\ proc[d] = "running"
     /\ ctrl' = [ctrl EXCEPT ![d] = TRUE]
     /\ UNCHANGED <<proc, next>>
  \/ /\ Step(s, from, failed)
     /\ proc' = [proc EXCEPT ![d] = "dead"]
     /\ next' = [next EXCEPT ![s] = NoDaemon]
     /\ UNCHANGED ctrl

\* Daemon.Stop: SIGNAL SHUTDOWN, the connection, Process.Kill.  A killed
\* process takes no further step, so it counts as dead at once.
StopDaemons(D) ==
  /\ proc' = [d \in Daemons |-> IF d \in D THEN "dead" ELSE proc[d]]
  /\ ctrl' = [d \in Daemons |-> ctrl[d] /\ d \notin D]

\* The control connection answers: both ends of it are still there.
Answers(d) == ctrl[d] /\ proc[d] = "running"

-----------------------------------------------------------------------------
(* Provision: ensureBinary, then bootSlot for every slot, each in a goroutine *)

Provision ==
  /\ phase = "new"
  /\ \/ phase' = "booting" /\ at' = [s \in Slots |-> "boot"]
     \/ phase' = "failed" /\ UNCHANGED at
  /\ overlap' = (overlap \/ others # {})
  /\ UNCHANGED <<slotVars, torVars, others>>

BootLaunch(s) == Launch(s, "boot", "check")

\* resetSession, the torrc, the log file or cmd.Start fails.
BootFails(s) ==
  /\ Step(s, "boot", "err")
  /\ UNCHANGED <<phase, slotVars, torVars>>

BootWait(s) ==
  /\ Bootstrap(s, "check", "booted", "err")
  /\ UNCHANGED <<phase, slots, pin, dir, pinned, conf>>

Booted == {s \in Slots : at[s] = "booted"}

\* Mutant of Collect: a failed Provision leaves the other daemons to themselves.
CollectKeeps ==
  /\ phase = "booting"
  /\ \A s \in Slots : at[s] \in {"booted", "err"}
  /\ at' = [s \in Slots |-> "idle"]
  /\ next' = [s \in Slots |-> NoDaemon]
  /\ IF Booted = Slots THEN phase' = "up" /\ slots' = next
                       ELSE phase' = "failed" /\ UNCHANGED slots
  /\ UNCHANGED <<pin, torVars>>

\* All n outcomes are in: the daemons are recorded, and stopped again if one
\* slot failed.
Collect ==
  /\ phase = "booting"
  /\ \A s \in Slots : at[s] \in {"booted", "err"}
  /\ at' = [s \in Slots |-> "idle"]
  /\ next' = [s \in Slots |-> NoDaemon]
  /\ IF Booted = Slots
       THEN /\ phase' = "up"
            /\ slots' = next
            /\ UNCHANGED torVars
       ELSE /\ phase' = "failed"
            /\ StopDaemons({next[s] : s \in Booted})
            /\ UNCHANGED <<slots, dir, pinned, conf>>
  /\ UNCHANGED pin

\* The rest of startup has passed and the monitor is started.
Serve ==
  /\ phase = "up"
  /\ phase' = "serving"
  /\ UNCHANGED <<at, slotVars, torVars>>

-----------------------------------------------------------------------------
(* PinExit, called twice by startup: after V1 and after the last check *)

\* PinSOCKSUser looks up the exit that carried the last stream.  SETCONF, then
\* GETCONF confirms it, then the pin is recorded; either command may fail (the
\* deadline), and then the attempt is repeated or given up.
PinExit(s) ==
  /\ phase = "up"
  /\ Answers(slots[s])
  /\ \E f \in Exits :
       /\ conf' = [conf EXCEPT ![slots[s]] = f]
       /\ pinned' \in {pinned, [pinned EXCEPT ![slots[s]] = f]}
  /\ UNCHANGED <<phase, at, slotVars, proc, dir, ctrl>>

-----------------------------------------------------------------------------
(* Reestablish, called by the slot's monitor loop *)

\* ReapplyPin: nothing to do without a pin, otherwise SETCONF and GETCONF; an
\* error leads to restartPinned.
Reapply(s) ==
  LET d == slots[s] IN
  /\ phase = "serving"
  /\ \/ /\ pinned[d] = NoExit
        /\ Step(s, "idle", "back")
        /\ UNCHANGED conf
     \/ /\ pinned[d] # NoExit /\ Answers(d)
        /\ \E to \in {"back", "stopOld"} : Step(s, "idle", to)
        /\ conf' = [conf EXCEPT ![d] = pinned[d]]
     \/ /\ pinned[d] # NoExit
        /\ Step(s, "idle", "stopOld")
        /\ UNCHANGED conf
  /\ UNCHANGED <<phase, slotVars, proc, dir, ctrl, pinned>>

\* Mutant of StopOld: the old daemon is left to die by itself.
StopOldNot(s) ==
  /\ Step(s, "stopOld", "restart")
  /\ pin' = [pin EXCEPT ![s] = pinned[slots[s]]]
  /\ UNCHANGED <<phase, slots, next, torVars>>

\* restartPinned: the pin is copied and the old daemon stopped ...
StopOld(s) ==
  /\ Step(s, "stopOld", "restart")
  /\ pin' = [pin EXCEPT ![s] = pinned[slots[s]]]
  /\ StopDaemons({slots[s]})
  /\ UNCHANGED <<phase, slots, next, dir, pinned, conf>>

\* ... bootSlot: an error keeps the stopped daemon, and its pin, in the slot ...
RestartFails(s) ==
  /\ Step(s, "restart", "idle")
  /\ pin' = [pin EXCEPT ![s] = NoExit]
  /\ UNCHANGED <<phase, slots, next, torVars>>

RestartLaunch(s) == Launch(s, "restart", "recheck")

RestartWait(s) ==
  /\ Bootstrap(s, "recheck", "repin", "idle")
  /\ pin' = [pin EXCEPT ![s] = IF at'[s] = "idle" THEN NoExit ELSE @]
  /\ UNCHANGED <<phase, slots, dir, pinned, conf>>

\* Mutant of Repin: the new daemon is installed before it is pinned.
RepinLater(s) ==
  LET d == next[s] IN
  /\ Step(s, "repin", "back")
  /\ next' = [next EXCEPT ![s] = NoDaemon]
  /\ pin' = [pin EXCEPT ![s] = NoExit]
  /\ slots' = [slots EXCEPT ![s] = d]
  /\ UNCHANGED <<phase, torVars>>

\* ... and SetPinnedExit on the new one, which is stopped if that fails.
Repin(s) ==
  LET d == next[s] IN
  /\ \/ /\ Step(s, "repin", "back")
        /\ Answers(d)
        /\ conf' = [conf EXCEPT ![d] = pin[s]]
        /\ slots' = [slots EXCEPT ![s] = d]
        /\ UNCHANGED <<proc, ctrl>>
     \/ /\ Step(s, "repin", "idle")
        /\ StopDaemons({d})
        /\ conf' \in {conf, [conf EXCEPT ![d] = pin[s]]}
        /\ UNCHANGED slots
  /\ pinned' = [pinned EXCEPT ![d] = pin[s]]
  /\ next' = [next EXCEPT ![s] = NoDaemon]
  /\ pin' = [pin EXCEPT ![s] = NoExit]
  /\ UNCHANGED <<phase, dir>>

\* The caller has the route; it goes on to Start it and probe its address.
Handed(s) ==
  /\ Step(s, "back", "idle")
  /\ UNCHANGED <<phase, slotVars, torVars>>

-----------------------------------------------------------------------------
\* Close: by abort during startup, by Shutdown after the monitor's loops have
\* ended, when no Reestablish is in progress.
Close ==
  /\ phase \in {"up", "serving"}
  /\ \A s \in Slots : at[s] = "idle"
  /\ phase' = "closed"
  /\ slots' = [s \in Slots |-> NoDaemon]
  /\ StopDaemons({slots[s] : s \in Slots})
  /\ UNCHANGED <<at, next, pin, dir, pinned, conf>>

\* Tor crashes or is killed; the control connection breaks but is not cleared.
TorDies(d) ==
  /\ proc[d] = "running"
  /\ proc' = [proc EXCEPT ![d] = "dead"]
  /\ UNCHANGED <<phase, at, slotVars, dir, ctrl, pinned, conf>>

\* Another controller boots the slot (its Daemon.Start empties the directory and
\* launches a tor in it), as a --fresh session beside this one does ...
OtherBoots(s) ==
  /\ s \notin others
  /\ others' = others \cup {s}
  /\ overlap' = (overlap \/ phase \in {"booting", "up", "serving"})
  /\ UNCHANGED <<phase, at, slotVars, torVars>>

\* ... and that tor ends: it is stopped, it dies, or it notices that the controller
\* that owned it is gone (__OwningControllerProcess).
OtherEnds(s) ==
  /\ s \in others
  /\ others' = others \ {s}
  /\ UNCHANGED <<phase, at, slotVars, torVars, overlap>>

\* What this controller and its tors do after Provision has begun.
OwnStep ==
  \/ Collect \/ Serve \/ Close
  \/ \E s \in Slots :
       \/ BootLaunch(s) \/ BootFails(s) \/ BootWait(s) \/ PinExit(s)
       \/ Reapply(s) \/ StopOld(s) \/ RestartFails(s) \/ RestartLaunch(s)
       \/ RestartWait(s) \/ Repin(s) \/ Handed(s)
  \/ \E d \in Daemons : TorDies(d)

Next ==
  \/ Provision
  \/ OwnStep /\ UNCHANGED dirVars
  \/ \E s \in Slots : OtherBoots(s) \/ OtherEnds(s)

Spec == Init /\ [][Next]_vars

-----------------------------------------------------------------------------
(* Properties *)

\* What this controller and its tors consist of.
OwnTypes ==
  /\ phase \in {"new", "booting", "up", "serving", "failed", "closed"}
  /\ at \in [Slots -> Places]
  /\ slots \in [Slots -> Daemons \cup {NoDaemon}]
  /\ phase \in {"up", "serving"} => slots \in [Slots -> Daemons]
  /\ next \in [Slots -> Daemons \cup {NoDaemon}]
  /\ pin \in [Slots -> Exits \cup {NoExit}]
  /\ proc \in [Daemons -> {"none", "running", "dead"}]
  /\ dir \in [Daemons -> Slots \cup {NoSlot}]
  /\ ctrl \in [Daemons -> BOOLEAN]
  /\ pinned \in [Daemons -> Exits \cup {NoExit}]
  /\ conf \in [Daemons -> Exits \cup {NoExit}]

\* Types of Local.slots and of the tor.Daemon objects; a provisioner that is up
\* has a daemon in every slot.
TypeOK == OwnTypes /\ others \subseteq Slots /\ overlap \in BOOLEAN

\* A Provision that failed and a provisioner that was closed leave no tor
\* process behind, whichever boots, pins and restarts failed on the way
\* (local.go:85-91, 139-182).
NoOrphans ==
  phase \in {"failed", "closed"} => \A d \in Daemons : proc[d] # "running"

\* daemon.go:61-66 empties the slot's session directory before it starts tor: two
\* tors of this controller never use the same directory, whatever boots, restarts
\* and pins failed before; and a tor of another controller uses it at the same
\* time only if both had tors at once.
DirectoryHasOneOwner ==
  \A d \in Daemons : proc[d] = "running" =>
    /\ \A e \in Daemons : (proc[e] = "running" /\ dir[d] = dir[e]) => d = e
    /\ dir[d] \in others => overlap

\* local.go:21-24: the exit a slot was pinned to when startup ended is the exit
\* it is pinned to for the rest of the session: no sequence of dead daemons,
\* failed restarts and lost control connections loses or changes it; and what
\* Reestablish hands back for such a slot is configured with that exit
\* (manager.go:20-21, it "must not mint a new public IP").
PinSurvivesRestarts ==
  [][phase = "serving" /\ phase' = "serving"
       => \A s \in Slots :
            LET was == pinned[slots[s]] IN
            /\ pinned'[slots'[s]] = was
            /\ (at'[s] = "back" /\ was # NoExit) => conf'[slots'[s]] = was]_vars
=============================================================================
