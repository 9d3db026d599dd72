------------------------------ MODULE Mullvad ------------------------------
(***************************************************************************)
(* The Mullvad override (routing/manager/mullvad.go, `tab-router provider  *)
(* login` and `logout`): one WireGuard device per slot, registered with    *)
(* the Mullvad account and remembered in provider.toml, and one relay per  *)
(* slot of a session.                                                      *)
(*                                                                         *)
(* The account is an external service with a limit of devices.  A command  *)
(* or session loads the file, registers devices one by one and saves the   *)
(* file at the end; requests fail, answers get lost, and it may be killed  *)
(* between any two steps.  Nothing locks the file.                         *)
(***************************************************************************)
EXTENDS Naturals, FiniteSets

CONSTANTS
  Procs,       \* commands and sessions
  N,           \* identity slots: 1 .. N
  Accounts,    \* account numbers
  NoAccount,   \* no provider.toml
  Devices,     \* devices that can ever be registered, a bound of the model
  NoDevice,    \* a slot without one
  MaxDevices,  \* what the service allows per account
  Relays,      \* active relays with an address and a key
  Country,     \* the country of each
  NoRelay      \* a slot without a route

VARIABLES
  owner,   \* the service: the account of a registered device
  file,    \* provider.toml: an account and the device of each slot
  pc,      \* where a command or session is
  mem,     \* its File
  want,    \* the slots it needs
  used,    \* Mullvad.used
  route,   \* the relay of each slot of a session
  stray,   \* history: devices no file has, or has any more
  bad,     \* history: provider.toml could not be loaded
  overlap  \* history: two of them ran at the same time

vars == <<owner, file, pc, mem, want, used, route, stray, bad, overlap>>

Slots == 1 .. N
File == [account : Accounts \cup {NoAccount}, device : [Slots -> Devices \cup {NoDevice}]]
Blank(a) == [account |-> a, device |-> [s \in Slots |-> NoDevice]]
NoProviderFile == Blank(NoAccount)
NoRoute == [s \in Slots |-> NoRelay]

DevicesOf(f) == {f.device[s] : s \in Slots} \ {NoDevice}

Init ==
  /\ owner = [d \in Devices |-> NoAccount]
  /\ file = NoProviderFile
  /\ pc = [p \in Procs |-> "down"]
  /\ mem = [p \in Procs |-> NoProviderFile]
  /\ want = [p \in Procs |-> {}]
  /\ used = [p \in Procs |-> {}]
  /\ route = [p \in Procs |-> NoRoute]
  /\ stray = {} /\ bad = FALSE /\ overlap = FALSE

\* What a process has registered and the file does not have.
Unsaved(p) == DevicesOf(mem[p]) \ DevicesOf(file)

Goto(p, from, to) ==
  /\ pc[p] = from
  /\ pc' = [pc EXCEPT ![p] = to]

\* The command returns an error, or it is killed: what it had registered and
\* not saved is not written anywhere.
Gone(p) ==
  /\ pc' = [pc EXCEPT ![p] = "down"]
  /\ mem' = [mem EXCEPT ![p] = NoProviderFile]
  /\ want' = [want EXCEPT ![p] = {}]
  /\ used' = [used EXCEPT ![p] = {}]
  /\ route' = [route EXCEPT ![p] = NoRoute]

Begins == overlap' = (overlap \/ \E q \in Procs : pc[q] # "down")

-----------------------------------------------------------------------------
(* Login *)

\* Mutant of Kept: the file is written anew.
KeptNot(a) == Blank(a)

\* The file Login starts from.
Kept(a) == IF file.account = a THEN file ELSE Blank(a)

\* LoadFile; an error counts as no file.
LoginLoad(p, a, n) ==
  /\ Goto(p, "down", "login")
  /\ \/ mem' = [mem EXCEPT ![p] = Kept(a)] /\ UNCHANGED bad
     \/ file # NoProviderFile /\ mem' = [mem EXCEPT ![p] = Blank(a)] /\ bad' = TRUE
  /\ want' = [want EXCEPT ![p] = 1 .. n]
  /\ Begins
  /\ UNCHANGED <<owner, file, used, route, stray>>

\* The first SaveFile, before anything is registered.
LoginSave(p) ==
  /\ pc[p] = "login"
  /\ \/ /\ Goto(p, "login", "open")
        /\ file' = mem[p]
        /\ stray' = stray \cup (DevicesOf(file) \ DevicesOf(mem[p]))
        /\ UNCHANGED <<mem, want, used, route>>
     \/ Gone(p) /\ UNCHANGED <<file, stray>>
  /\ UNCHANGED <<owner, bad, overlap>>

\* Logout: os.Remove.
Logout ==
  /\ file # NoProviderFile
  /\ file' = NoProviderFile
  /\ stray' = stray \cup DevicesOf(file)
  /\ Begins
  /\ UNCHANGED <<owner, pc, mem, want, used, route, bad>>

-----------------------------------------------------------------------------
(* OpenMullvad *)

\* A session begins with it.
Session(p, n) ==
  /\ Goto(p, "down", "open")
  /\ want' = [want EXCEPT ![p] = 1 .. n]
  /\ Begins
  /\ UNCHANGED <<owner, file, mem, used, route, stray, bad>>

\* LoadFile and its checks.
Open(p) ==
  /\ pc[p] = "open"
  /\ \/ /\ Goto(p, "open", "ensure")
        /\ file # NoProviderFile
        /\ mem' = [mem EXCEPT ![p] = file]
        /\ UNCHANGED <<want, used, route>>
     \/ Gone(p)
  /\ UNCHANGED <<owner, file, stray, bad, overlap>>

Missing(p) == {s \in want[p] : mem[p].device[s] = NoDevice}

\* ensureDevices: the access token, or not ...
Token(p) ==
  /\ Missing(p) # {}
  /\ \/ Goto(p, "ensure", "create") /\ UNCHANGED <<mem, want, used, route>>
     \/ pc[p] = "ensure" /\ Gone(p)
  /\ UNCHANGED <<owner, file, stray, bad, overlap>>

NothingMissing(p) ==
  /\ Missing(p) = {}
  /\ Goto(p, "ensure", "ready")
  /\ UNCHANGED <<owner, file, mem, want, used, route, stray, bad, overlap>>

Registered(a) == {d \in Devices : owner[d] = a}

\* ... then a device for the first slot that has none.  The service may refuse
\* it, and may register it without the answer arriving.
CreateDevice(p) ==
  LET a == mem[p].account IN
  \E s \in Missing(p) :
    /\ pc[p] = "create"
    /\ \A t \in Missing(p) : s <= t
    /\ \/ Gone(p) /\ stray' = stray \cup Unsaved(p)
          /\ UNCHANGED owner
       \/ \E d \in Devices :
            /\ owner[d] = NoAccount
            /\ \A e \in Devices : owner[e] = NoAccount => d <= e
            /\ Cardinality(Registered(a)) < MaxDevices
            /\ owner' = [owner EXCEPT ![d] = a]
            /\ \/ /\ mem' = [mem EXCEPT ![p].device[s] = d]
                  /\ UNCHANGED <<pc, want, used, route, stray>>
               \/ /\ Gone(p)
                  /\ stray' = stray \cup {d} \cup Unsaved(p)
    /\ UNCHANGED <<file, bad, overlap>>

\* Mutant of SaveDevices: the devices are used without having been saved.
SaveDevicesNot(p) ==
  /\ Missing(p) = {}
  /\ Goto(p, "create", "ready")
  /\ UNCHANGED <<owner, file, mem, want, used, route, stray, bad, overlap>>

\* SaveFile when every slot has one.
SaveDevices(p) ==
  /\ pc[p] = "create"
  /\ Missing(p) = {}
  /\ \/ /\ Goto(p, "create", "ready")
        /\ file' = mem[p]
        /\ UNCHANGED <<mem, want, used, route, stray>>
     \/ /\ Gone(p)
        /\ stray' = stray \cup Unsaved(p)
        /\ UNCHANGED file
  /\ UNCHANGED <<owner, bad, overlap>>

-----------------------------------------------------------------------------
(* Relays *)

Countries(R) == {Country[r] : r \in R}

\* Mutant of Picked: relays in use are not left out.
PickedAny(p, R, n) ==
  /\ R \subseteq Relays
  /\ Cardinality(R) = n

\* pick: n unused relays, spread over as many countries as there are.
Picked(p, R, n) ==
  LET free == Relays \ used[p] IN
  /\ R \subseteq free
  /\ Cardinality(R) = n
  /\ \/ Cardinality(Countries(R)) = n
     \/ Countries(R) = Countries(free)

\* Provision: the relays are handed out to the slots.
Provision(p) ==
  /\ Goto(p, "ready", "running")
  /\ \E f \in [want[p] -> Relays] :
       LET R == {f[s] : s \in want[p]} IN
       /\ Picked(p, R, Cardinality(want[p]))
       /\ used' = [used EXCEPT ![p] = @ \cup R]
       /\ route' = [route EXCEPT ![p] = [s \in Slots |->
                      IF s \in want[p] THEN f[s] ELSE NoRelay]]
  /\ UNCHANGED <<owner, file, mem, want, stray, bad, overlap>>

\* Reestablish: the failed relay counts as used, and another one is picked.
Reestablish(p, s) ==
  /\ pc[p] = "running"
  /\ s \in want[p]
  /\ \E r \in Relays :
       /\ Picked(p, {r}, 1)
       /\ used' = [used EXCEPT ![p] = @ \cup {route[p][s], r}]
       /\ route' = [route EXCEPT ![p][s] = r]
  /\ UNCHANGED <<owner, file, pc, mem, want, stray, bad, overlap>>

\* The command is done, the session is over, or either is killed, which it may be
\* while it registers devices.
Stop(p) ==
  /\ pc[p] # "down"
  /\ Gone(p)
  /\ stray' = IF pc[p] = "create" THEN stray \cup Unsaved(p) ELSE stray
  /\ UNCHANGED <<owner, file, bad, overlap>>

Next ==
  \/ Logout
  \/ \E p \in Procs :
       \/ LoginSave(p) \/ Open(p) \/ Token(p) \/ NothingMissing(p)
       \/ CreateDevice(p) \/ SaveDevices(p) \/ Provision(p) \/ Stop(p)
       \/ \E n \in Slots : Session(p, n) \/ \E a \in Accounts : LoginLoad(p, a, n)
       \/ \E s \in Slots : Reestablish(p, s)

Spec == Init /\ [][Next]_vars

-----------------------------------------------------------------------------
(* Properties *)

\* Types of the account, the file and the processes.
TypeOK ==
  /\ owner \in [Devices -> Accounts \cup {NoAccount}]
  /\ file \in File
  /\ pc \in [Procs -> {"down", "login", "open", "ensure", "create", "ready", "running"}]
  /\ mem \in [Procs -> File]
  /\ want \in [Procs -> SUBSET Slots]
  /\ used \in [Procs -> SUBSET Relays]
  /\ route \in [Procs -> [Slots -> Relays \cup {NoRelay}]]
  /\ stray \subseteq Devices
  /\ bad \in BOOLEAN /\ overlap \in BOOLEAN

\* manager.go:14-15, "Implementations must not share a single network path across
\* identities": however often routes were reestablished and devices registered,
\* two identities are on one relay only if they belong to two sessions, and use
\* one device only as the same slot of two sessions; and only if two sessions or
\* commands ran at the same time.  (Two sessions read the same file, and each
\* knows only the relays it has itself.)
PathsAreSeparate ==
  \A p, q \in Procs : (pc[p] = "running" /\ pc[q] = "running") =>
    \A s \in want[p], t \in want[q] :
      /\ route[p][s] = route[q][t] => (p = q /\ s = t) \/ (p # q /\ overlap)
      /\ mem[p].device[s] = mem[q].device[t] => s = t /\ (p = q \/ overlap)

\* Login's "Existing devices are kept": a device in the file stays there, and in
\* its slot, over logins with any number of slots, failures and kills, until
\* a logout or a login with another account, if only one process uses the
\* file.  (A file that cannot be loaded counts as none and is overwritten.)
ExistingDevicesAreKept ==
  [][(~overlap' /\ ~bad /\ file'.account = file.account) =>
       \A s \in Slots : file.device[s] # NoDevice =>
         file'.device[s] = file.device[s]]_vars

\* The account's device slots are not used up unnoticed: every device of the
\* account is in the file or in the process that is registering it, or was lost
\* by an attempt that failed or was killed after registering it, or with a file
\* that was removed or overwritten.  A login repeated after one that succeeded
\* registers none.  (One process at a time.)
DevicesAreAccountedFor ==
  ~overlap => \A d \in Devices : owner[d] # NoAccount =>
    d \in stray \cup DevicesOf(file) \cup UNION {DevicesOf(mem[p]) : p \in Procs}
=============================================================================
