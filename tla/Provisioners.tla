---------------------------- MODULE Provisioners ----------------------------
(***************************************************************************)
(* The provisioners behind the Provisioner interface                       *)
(* (routing/manager/manager.go): a session works with one of them, chosen  *)
(* when it starts, and Mullvad's file is also written by the login and     *)
(* logout commands.  Each keeps its own state; nothing is shared between   *)
(* two kinds, so a behaviour is one of the chosen kind's.  What they keep  *)
(* is in the data directory; so is the Tor bundle the local one runs, and  *)
(* its installation (and Chromium's, which works alike) is the fourth kind.*)
(*                                                                         *)
(* manager.Open chooses Decodo, or Static for explicit route definitions,  *)
(* which keeps no state.  The local Tor provisioner and a session over     *)
(* Mullvad are kept in the repository with their tests, and normal startup *)
(* does not choose them.                                                   *)
(***************************************************************************)
EXTENDS Naturals

CONSTANTS
  Kinds,       \* the kinds of provisioner that are explored
  Procs,       \* controllers and commands that use the data directory
  N,           \* identity slots: 1 .. N
  MaxSession,  \* Decodo: sessions ever minted, a bound of the model
  Daemons,     \* Tor: daemons that can be made, a bound on restarts
  Exits,       \* Tor: exit relays
  NoExit, NoDaemon, NoSlot,
  Accounts,    \* Mullvad: account numbers
  Devices,     \* Mullvad: devices that can ever be registered, a bound
  MaxDevices,  \* Mullvad: what the service allows per account
  Relays,      \* Mullvad: the relays ...
  Country,     \* ... and their countries
  NoAccount, NoDevice, NoRelay,
  Starts,      \* Installer: starts of the program
  Entries,     \* Installer: files of the archive ...
  Binary,      \* ... and the one a start looks for
  NoFile

ASSUME ProvisionersAssumption ==
  /\ Kinds \subseteq {"decodo", "local", "mullvad", "install"}
  /\ N \in Nat \ {0} /\ MaxSession \in Nat /\ MaxDevices \in Nat
  /\ Devices \subseteq Nat /\ Daemons \subseteq Nat
  /\ NoExit \notin Exits /\ NoDaemon \notin Daemons /\ NoSlot \notin 1 .. N
  /\ NoAccount \notin Accounts /\ NoDevice \notin Devices /\ NoRelay \notin Relays
  /\ DOMAIN Country = Relays
  /\ Entries \in Nat /\ Binary \in 1 .. Entries /\ NoFile \notin Starts

VARIABLES
  kind,
  \* Decodo
  sessions, state, minted, expired, dpc, target, using, doverlap,
  \* LocalTor
  phase, at, slots, next, pin, proc, dir, ctrl, pinned, conf, others, loverlap,
  \* Mullvad
  owner, file, mpc, mem, want, used, route, stray, bad, moverlap,
  \* Installer
  ipc, path, content, fd, entry, tree, broken, ioverlap

decodoVars == <<sessions, state, minted, expired, dpc, target, using, doverlap>>
localVars == <<phase, at, slots, next, pin, proc, dir, ctrl, pinned, conf, others,
               loverlap>>
mullvadVars == <<owner, file, mpc, mem, want, used, route, stray, bad, moverlap>>
installVars == <<ipc, path, content, fd, entry, tree, broken, ioverlap>>
vars == <<kind, decodoVars, localVars, mullvadVars, installVars>>

D == INSTANCE Decodo WITH
       Slots <- 1 .. N, slots <- sessions, file <- state, pc <- dpc,
       overlap <- doverlap

L == INSTANCE LocalTor WITH Slots <- 1 .. N, overlap <- loverlap

M == INSTANCE Mullvad WITH pc <- mpc, overlap <- moverlap

I == INSTANCE Installer WITH pc <- ipc, next <- entry, overlap <- ioverlap

Init ==
  /\ kind \in Kinds
  /\ D!Init /\ L!Init /\ M!Init /\ I!Init

Decodo ==
  /\ kind = "decodo"
  /\ D!Next
  /\ UNCHANGED <<kind, localVars, mullvadVars, installVars>>

Local ==
  /\ kind = "local"
  /\ L!Next
  /\ UNCHANGED <<kind, decodoVars, mullvadVars, installVars>>

Mullvad ==
  /\ kind = "mullvad"
  /\ M!Next
  /\ UNCHANGED <<kind, decodoVars, localVars, installVars>>

Install ==
  /\ kind = "install"
  /\ I!Next
  /\ UNCHANGED <<kind, decodoVars, localVars, mullvadVars>>

Next == Decodo \/ Local \/ Mullvad \/ Install

Spec == Init /\ [][Next]_vars

-----------------------------------------------------------------------------
(* Properties, stated with their comments in the modules of the four  *)

\* manager.go:14-15, "Implementations must not share a single network path across
\* identities".  It holds of the identities of one session: whatever was loaded,
\* replaced, lost or restarted before, they share no Decodo session, no running
\* tor's directory, no Mullvad relay and no Mullvad device.  And it holds of
\* identities of two sessions as long as one controller at a time uses the data
\* directory.  When two did (the overlap histories), two identities still share a
\* Decodo session, a Mullvad device or a directory only if they are the same slot
\* of two sessions; a Mullvad relay they may share in any two slots.
PathsAreSeparate ==
  D!SlotsHaveOwnSessions /\ L!DirectoryHasOneOwner /\ M!PathsAreSeparate

\* manager.go:19-20, "Reestablish restores the same session path for the slot.  It
\* must not mint a new public IP": Decodo's session of a running identity changes
\* only by its own controller's ReplaceSession.
SessionIsKept == D!SessionIsKept

\* The same for tor: the exit pinned at startup survives dead daemons, failed
\* restarts and lost control connections.
PinSurvivesRestarts == L!PinSurvivesRestarts

\* A failed Provision and a closed local provisioner leave no tor process.
NoOrphans == L!NoOrphans

\* A login keeps the devices in the file, in their slots.
ExistingDevicesAreKept == M!ExistingDevicesAreKept

\* The devices of the account are in the file, or in the hands of a process, or
\* were lost by an attempt that failed.
DevicesAreAccountedFor == M!DevicesAreAccountedFor

\* What a start runs is the whole pinned build, unless an extraction was
\* interrupted or two starts installed at once.
OnlyWholeBuildsRun == I!OnlyWholeBuildsRun
=============================================================================
