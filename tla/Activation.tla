----------------------------- MODULE Activation -----------------------------
(***************************************************************************)
(* The activation service around its store: the HTTP server (controller/   *)
(* activation/backend/server.go, cmd/activation-server), the operator's    *)
(* `activation-server issue` and `revoke`, and the clients (controller/    *)
(* activation/activation.go, store.go, `tab-router deactivate`).           *)
(*                                                                         *)
(* A client gives up a call after its timeout or when the connection       *)
(* breaks; the server may have served the request by then, or may serve it *)
(* later.  The server may die and be started again.  Each command of the   *)
(* operator is a process of its own: it reads the file, changes its copy   *)
(* and writes it back, and nothing keeps it from the file of the server or *)
(* of another command.                                                     *)
(*                                                                         *)
(* No command of tab-router calls Activate and Validate at this commit:    *)
(* the clients here are any caller that keeps the Record it got.           *)
(***************************************************************************)
EXTENDS ActivationStore

CONSTANTS
  Clients,    \* installations of tab-router, each with a SecretStore
  Keychain,   \* the ones on macOS, whose Save clears the entry first
  MaxCalls,   \* calls of all clients, a bound of the model
  MaxCmds,    \* commands of the operator, a bound of the model
  MaxWork     \* calls and commands together, a bound of the model

ASSUME ClientAssumption ==
  Keychain \subseteq Clients /\ {MaxCalls, MaxCmds, MaxWork} \subseteq Nat

VARIABLES
  serving,    \* the server runs
  cmds,       \* commands of the operator so far, numbered from 1
  cmd,        \* the ones that have opened the file and not ended
  copy,       \* the Store.data of each
  rec,        \* the Record in a client's store: an installation and a token
  calls,      \* calls made so far
  call,       \* the number of the call a client waits for, or 0
  op,         \* and its operation, or "none"
  net,        \* requests that may still reach a server
  reply,      \* answers on their way to a client that waits
  revoked,    \* history: licenses whose `revoke` printed "revoked"
  removed,    \* history: installations whose `deactivate` was confirmed
  stranded,   \* history: installations no client can know of or cares for
  overlap     \* history: a command ran beside the server or another command

serverVars == <<serving, cmd, copy, cmds>>
clientVars == <<rec, calls, call, op, net, reply>>
history == <<revoked, removed, stranded, overlap>>
vars == <<storeVars, serverVars, clientVars, history>>

NoRecord == [inst |-> NoInstall, tok |-> 0]
NoReply == Err("no reply")
Requests == [from : Clients, n : 1 .. MaxCalls,
             op : {"activate", "validate", "deactivate"},
             lic : Licenses \cup {NoLicense},
             inst : Installs \cup {NoInstall}, tok : 0 .. MaxToken]

Init ==
  /\ StoreInit
  /\ serving = FALSE /\ cmds = 0
  /\ cmd = {} /\ copy = [k \in 1 .. MaxCmds |-> Empty]
  /\ rec = [c \in Clients |-> NoRecord]
  /\ calls = 0
  /\ call = [c \in Clients |-> 0]
  /\ op = [c \in Clients |-> "none"]
  /\ net = {}
  /\ reply = [c \in Clients |-> NoReply]
  /\ revoked = {} /\ removed = {} /\ stranded = {}
  /\ overlap = FALSE

-----------------------------------------------------------------------------
(* The operator: activation-server issue, revoke and serve *)

\* OpenStore of a command: it takes no lock.
CmdOpen ==
  /\ cmds < MaxCmds /\ calls + cmds < MaxWork
  /\ cmds' = cmds + 1
  /\ cmd' = cmd \cup {cmds + 1}
  /\ copy' = [copy EXCEPT ![cmds + 1] = disk]
  /\ overlap' = (overlap \/ serving \/ cmd # {})
  /\ UNCHANGED <<storeVars, serving, clientVars, revoked, removed, stranded>>

\* Issue or Revoke, persist and the end of the process.
CmdEnds(k, d) ==
  /\ k \in cmd
  /\ cmd' = cmd \ {k}
  /\ copy' = [copy EXCEPT ![k] = Empty]
  /\ disk' \in {disk, d}
  /\ UNCHANGED <<proxy, mem, expired, minted, last, serving, cmds, clientVars,
                 removed, stranded, overlap>>

CmdIssue(k, l) ==
  /\ copy[k].status[l] = "none"
  /\ CmdEnds(k, [copy[k] EXCEPT !.status[l] = "active"])
  /\ UNCHANGED revoked

CmdRevoke(k, l) ==
  LET d == [copy[k] EXCEPT !.status[l] = "revoked"] IN
  /\ copy[k].status[l] # "none"
  /\ CmdEnds(k, d)
  /\ revoked' = IF disk' = d THEN revoked \cup {l} ELSE revoked

\* serve opens the store and reads its environment once, when it starts.
Serve ==
  /\ ~serving
  /\ serving' = TRUE
  /\ mem' = disk
  /\ proxy' \in BOOLEAN
  /\ overlap' = (overlap \/ cmd # {})
  /\ UNCHANGED <<disk, expired, minted, last, cmd, copy, cmds, clientVars,
                 revoked, removed, stranded>>

\* The server is stopped or dies; what it had not saved is gone.
ServerDies ==
  /\ serving
  /\ serving' = FALSE
  /\ mem' = Empty
  /\ proxy' = FALSE
  /\ UNCHANGED <<disk, expired, minted, last, cmd, copy, cmds, clientVars, history>>

-----------------------------------------------------------------------------
(* A client's calls *)

\* post sends the request and waits.
Send(c, o, l, i, t) ==
  /\ op[c] = "none"
  /\ calls < MaxCalls /\ calls + cmds < MaxWork
  /\ calls' = calls + 1
  /\ call' = [call EXCEPT ![c] = calls + 1]
  /\ op' = [op EXCEPT ![c] = o]
  /\ net' = net \cup {[from |-> c, n |-> calls + 1, op |-> o, lic |-> l,
                       inst |-> i, tok |-> t]}
  /\ UNCHANGED <<storeVars, serverVars, rec, reply, history>>

\* Activate with a key; the id is the one on record, if any.
SendActivate(c, l) == Send(c, "activate", l, rec[c].inst, 0)

SendValidate(c) ==
  /\ rec[c] # NoRecord
  /\ Send(c, "validate", NoLicense, rec[c].inst, rec[c].tok)

\* tab-router deactivate: store.Load, then the call.
SendDeactivate(c) ==
  /\ rec[c] # NoRecord
  /\ Send(c, "deactivate", NoLicense, rec[c].inst, rec[c].tok)

\* The server's handlers: one operation of the store, then the answer, to a
\* client that may have given up.
Handle(q, r) ==
  LET c == q.from
      waits == call[c] = q.n
  IN
  /\ serving
  /\ net' = net \ {q}
  /\ CASE q.op = "activate" -> Activate(q.lic, q.inst, r)
       [] q.op = "validate" -> Validate(q.inst, q.tok, r)
       [] q.op = "deactivate" -> Deactivate(q.inst, q.tok, r)
  /\ reply' = IF waits THEN [reply EXCEPT ![c] = r] ELSE reply
  /\ stranded' = IF waits /\ r.err = "none" THEN stranded
                 ELSE stranded \cup (mem'.active \ mem.active)
  /\ UNCHANGED <<serverVars, rec, calls, call, op, revoked, removed, overlap>>

\* The timeout, a broken connection, or the end of the process.
GiveUp(c) ==
  /\ op[c] # "none"
  /\ op' = [op EXCEPT ![c] = "none"]
  /\ call' = [call EXCEPT ![c] = 0]
  /\ reply' = [reply EXCEPT ![c] = NoReply]
  /\ stranded' = stranded \cup ({reply[c].inst} \ {NoInstall, rec[c].inst})
  /\ UNCHANGED <<storeVars, serverVars, rec, calls, net, revoked, removed, overlap>>

\* The call returns.
Returns(c, o) ==
  /\ op[c] = o
  /\ reply[c] # NoReply
  /\ op' = [op EXCEPT ![c] = "none"]
  /\ call' = [call EXCEPT ![c] = 0]
  /\ reply' = [reply EXCEPT ![c] = NoReply]
  /\ UNCHANGED <<storeVars, serverVars, calls, net, overlap>>

\* An error of Activate, and whatever Validate answered, leave the record alone.
ReceiveOther(c) ==
  /\ \/ Returns(c, "validate")
     \/ Returns(c, "activate") /\ reply[c].err # "none"
  /\ UNCHANGED <<rec, revoked, removed, stranded>>

\* Save replaces the record of an earlier activation (its slot is given up with a
\* record of another license); the keychain's may fail after it has removed it.
ReceiveActivation(c) ==
  LET old == rec[c].inst
      new == reply[c].inst
  IN
  /\ Returns(c, "activate")
  /\ reply[c].err = "none"
  /\ \/ rec' = [rec EXCEPT ![c] = [inst |-> new, tok |-> reply[c].tok]]
     \/ rec' = rec
     \/ c \in Keychain /\ rec' = [rec EXCEPT ![c] = NoRecord]
  /\ stranded' = stranded \cup
       ((IF rec'[c].inst = new /\ old # NoInstall /\ disk.owner[old] = disk.owner[new]
           THEN {} ELSE {old, new}) \ {NoInstall, rec'[c].inst})
  /\ UNCHANGED <<revoked, removed>>

\* What mapAPIError makes of the server's codes.
MapAPIError(e) == IF e = "invalid_token" THEN "invalid_key" ELSE e

\* Mutant of Cleared: every answer clears the record.
ClearedAnyway(e) == TRUE

\* deactivate goes on to store.Clear when the server said done, or that it does
\* not know the token or has revoked it.
Cleared(e) == MapAPIError(e) \in {"none", "proxy_unconfigured", "invalid_key", "revoked"}

\* The record is removed; or it stays, when the call or store.Clear failed (the
\* keychain's Clear does not say so).
ReceiveDeactivation(c) ==
  LET i == rec[c].inst IN
  /\ Returns(c, "deactivate")
  /\ \/ /\ Cleared(reply[c].err)
        /\ rec' = [rec EXCEPT ![c] = NoRecord]
        /\ IF rec[c].tok = last[i]
             THEN removed' = removed \cup {i} /\ UNCHANGED stranded
             ELSE stranded' = stranded \cup {i} /\ UNCHANGED removed
     \/ UNCHANGED <<rec, removed, stranded>>
  /\ UNCHANGED revoked

-----------------------------------------------------------------------------
LicenseExpires(l) ==
  /\ Expire(l)
  /\ UNCHANGED <<serverVars, clientVars, history>>

Next ==
  \/ CmdOpen \/ Serve \/ ServerDies
  \/ \E k \in cmd, l \in Licenses : CmdIssue(k, l) \/ CmdRevoke(k, l)
  \/ \E l \in Licenses : LicenseExpires(l)
  \/ \E c \in Clients :
       \/ SendValidate(c) \/ SendDeactivate(c) \/ GiveUp(c)
       \/ ReceiveOther(c) \/ ReceiveActivation(c) \/ ReceiveDeactivation(c)
       \/ \E l \in Licenses : SendActivate(c, l)
  \/ \E q \in net, r \in Answers : Handle(q, r)

Spec == Init /\ [][Next]_vars

-----------------------------------------------------------------------------
(* Properties *)

\* Types of the service's and the clients' state.
TypeOK ==
  /\ StoreTypeOK
  /\ serving \in BOOLEAN /\ cmds \in 0 .. MaxCmds
  /\ cmd \subseteq 1 .. MaxCmds /\ copy \in [1 .. MaxCmds -> Data]
  /\ rec \in [Clients -> [inst : Installs \cup {NoInstall}, tok : 0 .. MaxToken]]
  /\ calls \in 0 .. MaxCalls
  /\ call \in [Clients -> 0 .. MaxCalls]
  /\ op \in [Clients -> {"none", "activate", "validate", "deactivate"}]
  /\ net \subseteq Requests
  /\ reply \in [Clients -> Answers \cup {NoReply}]
  /\ revoked \subseteq Licenses
  /\ removed \subseteq Installs /\ stranded \subseteq Installs
  /\ overlap \in BOOLEAN

\* No license has more active installations than it allows, in memory or after
\* a restart, although failed operations leave changes behind that a later one
\* saves, and commands put an older file back.
WithinLimit ==
  \A l \in Licenses : ActiveCount(mem, l) <= Limit[l] /\ ActiveCount(disk, l) <= Limit[l]

\* A revocation or a deactivation that was reported done holds for good, over
\* failed saves, restarts and late requests, as long as no command of the
\* operator ran beside the server or beside another command: the one that ends
\* last puts back what it read (main.go:87-96, store.go:317-331).
EndingsStick ==
  ~overlap =>
    /\ \A l \in revoked :
         disk.status[l] = "revoked" /\ (serving => mem.status[l] = "revoked")
    /\ removed \cap (mem.active \cup disk.active) = {}

\* The token a client has on record is the one the server has, in memory and
\* after a restart, so no older one works: whatever was lost, repeated or not
\* saved, only a later activation with its id can have replaced it.
SavedTokenIsCurrent ==
  ~overlap => \A c \in Clients :
    LET i == rec[c].inst IN
    (i # NoInstall /\ rec[c].tok = last[i]) =>
      disk.token[i] = last[i] /\ (serving => mem.token[i] = last[i])

\* Every slot in use is the one on some client's record, or on its way there,
\* or was lost in one of these ways: its first answer did not arrive or was not
\* kept, Activate failed after it had added it, the client took another key, or
\* removed a record whose token had been replaced.  In particular activating
\* again with the id on record takes no further slot.  (No command meanwhile.)
SlotsAreAccountedFor ==
  ~overlap => (mem.active \cup disk.active) \subseteq
     stranded \cup {rec[c].inst : c \in Clients} \cup {reply[c].inst : c \in Clients}

\* store.go:122, "Revoke marks a license revoked by plaintext key or license id":
\* a license whose revocation was reported is not one the server accepts.
RevokedIsRefused ==
  serving => \A l \in revoked : mem.status[l] # "active"
=============================================================================
