------------------------------- MODULE Decodo -------------------------------
(***************************************************************************)
(* The Decodo provisioner's sticky sessions (routing/manager/decodo.go):   *)
(* which residential session each route slot uses, in the memory of every  *)
(* controller and in the state file in the data directory, which they      *)
(* share without a lock.  An operation loads the file, changes slots in    *)
(* memory and saves all of them through a temporary file and a rename;     *)
(* load and save are separate steps, a save may fail, and a controller may *)
(* be killed between any two steps and started again.                      *)
(***************************************************************************)
EXTENDS Naturals

CONSTANTS
  Procs,       \* controllers using the data directory
  Slots,       \* route slots
  MaxSession   \* sessions ever minted, a bound of the model

VARIABLES
  slots,    \* Decodo.slots of each controller: 0 is none
  file,     \* the state file
  minted,   \* newSessionID: a session is its serial number
  expired,  \* sessions older than SessionMinutes
  pc,       \* where each controller is
  target,   \* the slots the current operation is about
  using,    \* the session of the route each slot of the session runs on
  overlap   \* history: two controllers used the file at the same time

vars == <<slots, file, minted, expired, pc, target, using, overlap>>

Sessions == 0 .. MaxSession
None == [s \in Slots |-> 0]
PCs == {"down", "provision", "running", "save"}

Init ==
  /\ slots = [p \in Procs |-> None]
  /\ file = None
  /\ minted = 0
  /\ expired = {}
  /\ pc = [p \in Procs |-> "down"]
  /\ target = [p \in Procs |-> {}]
  /\ using = [p \in Procs |-> None]
  /\ overlap = FALSE

Goto(p, from, to) ==
  /\ pc[p] = from
  /\ pc' = [pc EXCEPT ![p] = to]

\* load: what the file has overrides memory, slot by slot.
Loaded(p) == [s \in Slots |-> IF file[s] # 0 THEN file[s] ELSE slots[p][s]]

-----------------------------------------------------------------------------
\* Provision loads; then ensure keeps an unexpired session of a slot and mints
\* one otherwise.
Provision(p) ==
  /\ Goto(p, "down", "provision")
  /\ slots' = [slots EXCEPT ![p] = Loaded(p)]
  /\ target' = [target EXCEPT ![p] = Slots]
  /\ overlap' = (overlap \/ \E q \in Procs : pc[q] # "down")
  /\ UNCHANGED <<file, minted, expired, using>>

\* Mutant of Ensure: the random source repeats itself.
EnsureSame(p) ==
  /\ pc[p] = "provision"
  /\ \E s \in target[p] :
       /\ target' = [target EXCEPT ![p] = @ \ {s}]
       /\ minted' = 1
       /\ slots' = [slots EXCEPT ![p][s] = 1]
  /\ UNCHANGED <<file, expired, pc, using, overlap>>

Ensure(p) ==
  /\ pc[p] = "provision"
  /\ \E s \in target[p] :
       /\ target' = [target EXCEPT ![p] = @ \ {s}]
       /\ IF slots[p][s] # 0 /\ slots[p][s] \notin expired
            THEN UNCHANGED <<slots, minted>>
            ELSE /\ minted < MaxSession
                 /\ minted' = minted + 1
                 /\ slots' = [slots EXCEPT ![p][s] = minted + 1]
  /\ UNCHANGED <<file, expired, pc, using, overlap>>

\* save at the end of Provision; an error fails the startup.
ProvisionSaves(p) ==
  /\ target[p] = {}
  /\ \/ /\ Goto(p, "provision", "running")
        /\ file' = slots[p]
        /\ using' = [using EXCEPT ![p] = slots[p]]
        /\ UNCHANGED slots
     \/ /\ Goto(p, "provision", "down")
        /\ slots' = [slots EXCEPT ![p] = None]
        /\ UNCHANGED <<file, using>>
  /\ UNCHANGED <<minted, expired, target, overlap>>

\* ReplaceSession of one slot (startup only): load and mint ...
ReplaceSession(p, s) ==
  /\ Goto(p, "running", "save")
  /\ minted < MaxSession
  /\ minted' = minted + 1
  /\ slots' = [slots EXCEPT ![p] = [Loaded(p) EXCEPT ![s] = minted + 1]]
  /\ target' = [target EXCEPT ![p] = {s}]
  /\ UNCHANGED <<file, expired, using, overlap>>

\* Mutant of ReplaceSaves: the new session is used although it was not saved.
ReplaceUnsaved(p) ==
  /\ Goto(p, "save", "running")
  /\ file' \in {file, slots[p]}
  /\ using' = [using EXCEPT ![p] =
       [s \in Slots |-> IF s \in target[p] THEN slots[p][s] ELSE @[s]]]
  /\ target' = [target EXCEPT ![p] = {}]
  /\ UNCHANGED <<slots, minted, expired, overlap>>

\* ... then save: the new route replaces the old one, or an error leaves it.
ReplaceSaves(p) ==
  /\ Goto(p, "save", "running")
  /\ \/ /\ file' = slots[p]
        /\ using' = [using EXCEPT ![p] =
             [s \in Slots |-> IF s \in target[p] THEN slots[p][s] ELSE @[s]]]
     \/ UNCHANGED <<file, using>>
  /\ target' = [target EXCEPT ![p] = {}]
  /\ UNCHANGED <<slots, minted, expired, overlap>>

\* Reestablish loads and uses the slot's session, expired or not.
Reestablish(p, s) ==
  /\ pc[p] = "running"
  /\ slots' = [slots EXCEPT ![p] = Loaded(p)]
  /\ Loaded(p)[s] # 0
  /\ using' = [using EXCEPT ![p][s] = Loaded(p)[s]]
  /\ UNCHANGED <<file, minted, expired, pc, target, overlap>>

\* The controller ends, or is killed in the middle of anything.
Stop(p) ==
  /\ pc[p] # "down"
  /\ pc' = [pc EXCEPT ![p] = "down"]
  /\ slots' = [slots EXCEPT ![p] = None]
  /\ using' = [using EXCEPT ![p] = None]
  /\ target' = [target EXCEPT ![p] = {}]
  /\ UNCHANGED <<file, minted, expired, overlap>>

SessionExpires(x) ==
  /\ x \in 1 .. minted /\ x \notin expired
  /\ expired' = expired \cup {x}
  /\ UNCHANGED <<slots, file, minted, pc, target, using, overlap>>

Next ==
  \/ \E p \in Procs :
       \/ Provision(p) \/ Ensure(p) \/ ProvisionSaves(p)
       \/ ReplaceSaves(p) \/ Stop(p)
       \/ \E s \in Slots : ReplaceSession(p, s) \/ Reestablish(p, s)
  \/ \E x \in 1 .. MaxSession : SessionExpires(x)

Spec == Init /\ [][Next]_vars

-----------------------------------------------------------------------------
(* Properties *)

\* Types of the slots in memory, in the file and in use.
TypeOK ==
  /\ slots \in [Procs -> [Slots -> Sessions]]
  /\ file \in [Slots -> Sessions]
  /\ minted \in Sessions
  /\ expired \subseteq 1 .. MaxSession
  /\ pc \in [Procs -> PCs]
  /\ target \in [Procs -> SUBSET Slots]
  /\ using \in [Procs -> [Slots -> Sessions]]
  /\ overlap \in BOOLEAN

\* ADR 0005, "Each slot gets its own alphanumeric session id": whatever was loaded,
\* replaced, lost or overwritten before, two identities use the same session only
\* if they are the same slot of two controllers, and never while one controller
\* at a time uses the data directory.  (A second controller, as a --fresh session
\* beside another one, loads that one's sessions: decodo.go:316-321.)
SlotsHaveOwnSessions ==
  \A p, q \in Procs : \A s, t \in Slots :
    (using[p][s] # 0 /\ using[p][s] = using[q][t]) => s = t /\ (p = q \/ overlap)

\* ADR 0005:32, "`Reestablish` reconnects the same session id": the session of a
\* running identity changes only when its own controller replaces it, over
\* restarts, expiry and failed saves, as long as no second controller writes
\* the file meanwhile (load would take over that one's sessions).
SessionIsKept ==
  [][~overlap' => \A p \in Procs : \A s \in Slots :
       (using[p][s] # 0 /\ using'[p][s] \notin {0, using[p][s]})
         => (pc[p] = "save" /\ s \in target[p])]_vars
=============================================================================
