-------------------------- MODULE ActivationStore --------------------------
(***************************************************************************)
(* The activation backend's license and installation database (controller/ *)
(* activation/backend/store.go).  Every operation runs under Store.mu, so  *)
(* it is one step; it changes the data in memory and then writes the whole *)
(* of it to a file, by a rename.  The write may fail, which the operation  *)
(* reports without undoing what it changed in memory.                      *)
(*                                                                         *)
(* An operation is an action with its answer as the last parameter; who    *)
(* calls it, and what becomes of the answer, is in Activation.             *)
(***************************************************************************)
EXTENDS Naturals, FiniteSets

CONSTANTS
  Licenses,    \* licenses that may be issued
  Installs,    \* installation ids that newID can make
  Limit,       \* License.MaxInstallations of each
  Dedicated,   \* licenses issued with proxy credentials of their own
  Expiring,    \* licenses that run out during a behaviour
  NoLicense,   \* the license of an installation that does not exist
  NoInstall,   \* the empty installation id
  MaxToken     \* tokens ever minted, a bound of the model

ASSUME ActivationAssumption ==
  /\ Limit \in [Licenses -> Nat \ {0}]
  /\ Dedicated \subseteq Licenses /\ Expiring \subseteq Licenses
  /\ NoLicense \notin Licenses
  /\ NoInstall \notin Installs
  /\ MaxToken \in Nat

VARIABLES
  proxy,       \* the server was started with proxy credentials
  mem,         \* Store.data of the server
  disk,        \* the file
  expired,     \* licenses whose ExpiresAt has passed
  minted,      \* tokens minted so far: a token is its serial number
  last         \* history: the last token minted for an installation id, or 0

storeVars == <<proxy, mem, disk, expired, minted, last>>

\* fileData: the status of each license, and for each installation its
\* license, the token whose hash it holds, and whether it is active.
Data == [status : [Licenses -> {"none", "active", "revoked"}],
         owner : [Installs -> Licenses \cup {NoLicense}],
         token : [Installs -> 0 .. MaxToken],
         active : SUBSET Installs]

Empty == [status |-> [l \in Licenses |-> "none"],
          owner |-> [i \in Installs |-> NoLicense],
          token |-> [i \in Installs |-> 0],
          active |-> {}]

StoreInit ==
  /\ proxy = FALSE
  /\ mem = Empty /\ disk = Empty
  /\ expired = {}
  /\ minted = 0
  /\ last = [i \in Installs |-> 0]

\* A Result, or one of the errors of the package (writeErr turns any other
\* error into "unavailable").
Errors == {"invalid_key", "invalid_token", "expired", "revoked",
           "installation_limit", "proxy_unconfigured", "unavailable"}
Ok(i, t) == [err |-> "none", inst |-> i, tok |-> t]
Err(e) == [err |-> e, inst |-> NoInstall, tok |-> 0]
Answers == {Err(e) : e \in Errors} \cup
           [err : {"none"}, inst : Installs \cup {NoInstall}, tok : 0 .. MaxToken]

-----------------------------------------------------------------------------
\* license and usable: why an operation on the license is refused, if it is.
Refusal(l) ==
  CASE mem.status[l] = "none" -> "invalid_key"
    [] mem.status[l] = "revoked" -> "revoked"
    [] mem.status[l] = "active" /\ l \in expired -> "expired"
    [] OTHER -> "none"

ActiveCount(d, l) == Cardinality({i \in d.active : d.owner[i] = l})

\* persist: the file becomes what memory is by now and the answer is r, or it
\* stays what it was and the caller is told.
Persist(r, ok) ==
  \/ disk' = mem' /\ r = ok
  \/ UNCHANGED disk /\ r = Err("unavailable")

\* Mutant of ProxyCreds: the answer does not depend on the save.
ProxyCredsUnsaved(l, r, ok) ==
  IF proxy \/ l \in Dedicated THEN disk' \in {disk, mem'} /\ r = ok
  ELSE UNCHANGED disk /\ r = Err("proxy_unconfigured")

\* The end of Activate and of Validate: without credentials nothing is saved.
ProxyCreds(l, r, ok) ==
  IF proxy \/ l \in Dedicated THEN Persist(r, ok)
  ELSE UNCHANGED disk /\ r = Err("proxy_unconfigured")

\* Mutant of Known: the id in the request is ignored.
KnownNot(l, id) == FALSE

\* The installation that Activate finds for the id it was given.
Known(l, id) == id \in mem.active /\ mem.owner[id] = l

\* newToken and newID.
Mint(i) ==
  /\ minted < MaxToken
  /\ minted' = minted + 1
  /\ last' = [last EXCEPT ![i] = minted + 1]

\* Mutant of NewInstallation: the limit is off by one.
NewInstallationOneMore(l, r) ==
  \/ /\ ActiveCount(mem, l) > Limit[l]
     /\ r = Err("installation_limit")
     /\ UNCHANGED storeVars
  \/ \E i \in Installs :
       /\ ActiveCount(mem, l) <= Limit[l]
       /\ last[i] = 0
       /\ Mint(i)
       /\ mem' = [mem EXCEPT !.owner[i] = l, !.token[i] = minted + 1,
                             !.active = @ \cup {i}]
       /\ ProxyCreds(l, r, Ok(i, minted + 1))
       /\ UNCHANGED <<proxy, expired>>

\* Activate without an id, or with one that is not active: a new installation
\* within the limit.
NewInstallation(l, r) ==
  \/ /\ ActiveCount(mem, l) >= Limit[l]
     /\ r = Err("installation_limit")
     /\ UNCHANGED storeVars
  \/ \E i \in Installs :
       /\ ActiveCount(mem, l) < Limit[l]
       /\ last[i] = 0
       /\ Mint(i)
       /\ mem' = [mem EXCEPT !.owner[i] = l, !.token[i] = minted + 1,
                             !.active = @ \cup {i}]
       /\ ProxyCreds(l, r, Ok(i, minted + 1))
       /\ UNCHANGED <<proxy, expired>>

\* Activate of an installation the license has: a new token for it.
Renew(i, r) ==
  /\ Mint(i)
  /\ mem' = [mem EXCEPT !.token[i] = minted + 1]
  /\ ProxyCreds(mem.owner[i], r, Ok(i, minted + 1))
  /\ UNCHANGED <<proxy, expired>>

Activate(l, id, r) ==
  \/ /\ Refusal(l) # "none"
     /\ r = Err(Refusal(l))
     /\ UNCHANGED storeVars
  \/ /\ Refusal(l) = "none"
     /\ IF Known(l, id) THEN Renew(id, r) ELSE NewInstallation(l, r)

\* The token belongs to the installation.
Holds(i, t) == mem.owner[i] # NoLicense /\ mem.token[i] = t

\* Validate saves the time it was asked, and with that all there is in memory.
Validate(i, t, r) ==
  /\ UNCHANGED <<proxy, mem, expired, minted, last>>
  /\ \/ /\ ~Holds(i, t)
        /\ r = Err("invalid_token") /\ UNCHANGED disk
     \/ /\ Holds(i, t) /\ i \notin mem.active
        /\ r = Err("revoked") /\ UNCHANGED disk
     \/ /\ Holds(i, t) /\ i \in mem.active /\ Refusal(mem.owner[i]) # "none"
        /\ r = Err(Refusal(mem.owner[i])) /\ UNCHANGED disk
     \/ /\ Holds(i, t) /\ i \in mem.active /\ Refusal(mem.owner[i]) = "none"
        /\ ProxyCreds(mem.owner[i], r, Ok(i, t))

Deactivate(i, t, r) ==
  /\ UNCHANGED <<proxy, expired, minted, last>>
  /\ \/ /\ ~Holds(i, t)
        /\ r = Err("invalid_token") /\ UNCHANGED <<mem, disk>>
     \/ /\ Holds(i, t)
        /\ mem' = [mem EXCEPT !.active = @ \ {i}]
        /\ Persist(r, Ok(NoInstall, 0))

\* A license runs out.
Expire(l) ==
  /\ l \in Expiring \ expired
  /\ expired' = expired \cup {l}
  /\ UNCHANGED <<proxy, mem, disk, minted, last>>

StoreTypeOK ==
  /\ proxy \in BOOLEAN
  /\ mem \in Data /\ disk \in Data
  /\ expired \subseteq Licenses
  /\ minted \in 0 .. MaxToken
  /\ last \in [Installs -> 0 .. MaxToken]
=============================================================================
