-------------------------- MODULE ActivationProofs --------------------------
(***************************************************************************)
(* Proofs about the activation service for any number of licenses,         *)
(* installations, clients, calls and commands.                             *)
(*                                                                         *)
(* WithinLimit needs the limit of every store there is: the server's       *)
(* memory, the file and the commands' copies (Sound).  The others hold as  *)
(* long as no command ran beside the server or another command.  Then the  *)
(* file is what the only command has read, or an earlier state of the      *)
(* memory (Alone); a request in flight is the one its client waits for,    *)
(* with the record it still has, or nobody waits for it (Wire); and an     *)
(* answer on its way says what is in the file (Answered).                  *)
(***************************************************************************)
EXTENDS Activation, FiniteSetTheorems, TLAPS

\* Of a store: the limits, and what an installation in it must have.
SoundData(d, given) ==
  /\ IsFiniteSet(d.active)
  /\ \A l \in Licenses : ActiveCount(d, l) <= Limit[l]
  /\ \A i \in Installs :
       /\ d.token[i] # 0 => d.owner[i] \in Licenses /\ given[i] # 0
       /\ i \in d.active => d.token[i] # 0

Sound ==
  /\ SoundData(mem, last) /\ SoundData(disk, last)
  /\ \A k \in 1 .. MaxCmds : SoundData(copy[k], last)

\* Numbers of calls and tokens are not used again.
Numbered ==
  /\ \A c \in Clients :
       /\ call[c] <= calls
       /\ call[c] = 0 <=> op[c] = "none"
       /\ rec[c].tok <= minted /\ reply[c].tok <= minted
  /\ \A i \in Installs : last[i] <= minted

\* A request in flight is the only one with its number, and answered once.
Wire ==
  \A q \in net :
    /\ q.n <= calls
    /\ \A p \in net : p.n = q.n => p = q
    /\ IF q.op = "activate" THEN q.lic \in Licenses ELSE q.inst \in Installs
    /\ q.n = call[q.from] =>
         /\ op[q.from] = q.op
         /\ rec[q.from].inst = q.inst
         /\ q.op # "activate" => rec[q.from].tok = q.tok
         /\ reply[q.from] = NoReply

\* What an answer r can be to a call of o, by a client with this record.
Fits(o, record, r) ==
  /\ record.inst = NoInstall => record = NoRecord
  /\ r # NoReply => o # "none"
  /\ r.err # "none" => r.inst = NoInstall
  /\ o # "activate" /\ r.inst # NoInstall => r.inst = record.inst
  /\ o \in {"validate", "deactivate"} => record.inst # NoInstall
  /\ o = "activate" /\ r.err = "none" => r.inst \in Installs
  /\ o = "deactivate" =>
       /\ r.inst = NoInstall
       /\ r.err \in {"none", "invalid_token", "unavailable", "no reply"}

Replied == \A c \in Clients : Fits(op[c], rec[c], reply[c])

-----------------------------------------------------------------------------
(* As long as no command ran beside the server or another command *)

Alone ==
  /\ ~serving => mem = Empty
  /\ ~overlap =>
       /\ \A k \in cmd : ~serving /\ copy[k] = disk /\ cmd = {k}
       /\ serving => /\ mem.status = disk.status
                     /\ \A i \in Installs : disk.token[i] # 0 =>
                          mem.token[i] # 0 /\ mem.owner[i] = disk.owner[i]

\* The last token minted for the installation is the one in force.
InForce(i) == disk.token[i] = last[i] /\ (serving => mem.token[i] = last[i])

\* The client's copy of a token is one the file knows of.
Token(i, t) ==
  /\ t # 0
  /\ disk.token[i] # 0
  /\ t = last[i] => InForce(i)

Inactive(i) == i \notin mem.active /\ i \notin disk.active

Recorded ==
  ~overlap => \A c \in Clients : rec[c].inst # NoInstall => Token(rec[c].inst, rec[c].tok)

\* What an answer on its way says of the store.
Told(c) ==
  /\ op[c] = "activate" /\ reply[c].err = "none" =>
       /\ Token(reply[c].inst, reply[c].tok)
       /\ (/\ rec[c].inst \notin {NoInstall, reply[c].inst}
           /\ disk.owner[rec[c].inst] = disk.owner[reply[c].inst])
          => Inactive(rec[c].inst)
  /\ op[c] = "deactivate" =>
       /\ reply[c].err = "none" => Inactive(rec[c].inst)
       /\ reply[c].err = "invalid_token" => rec[c].tok # last[rec[c].inst]

Answered == ~overlap => \A c \in Clients : Told(c)

Ended ==
  ~overlap =>
    /\ \A l \in revoked :
         disk.status[l] = "revoked" /\ (serving => mem.status[l] = "revoked")
    /\ \A i \in removed : last[i] # 0 /\ Inactive(i)

\* SlotsAreAccountedFor, one installation at a time.
Slots ==
  ~overlap => \A i \in Installs :
    \/ Inactive(i)
    \/ i \in stranded
    \/ \E c \in Clients : rec[c].inst = i \/ reply[c].inst = i

IInv ==
  /\ TypeOK
  /\ Sound /\ Numbered /\ Wire /\ Replied
  /\ Alone /\ Recorded /\ Answered /\ Ended /\ Slots

-----------------------------------------------------------------------------
(* Data and answers *)

\* A store before the first Issue.
LEMMA EmptyIsData ==
  /\ Empty \in Data
  /\ Empty.active = {}
  /\ \A i \in Installs : Empty.token[i] = 0
  BY ActivationAssumption DEF Data, Empty

\* What Deactivate makes of a store.
LEMMA DroppedData ==
  ASSUME NEW d \in Data, NEW i \in Installs, NEW e, e = [d EXCEPT !.active = @ \ {i}]
  PROVE  /\ e \in Data
         /\ e.status = d.status
         /\ e.owner = d.owner
         /\ e.token = d.token
         /\ e.active = d.active \ {i}
  BY ActivationAssumption DEF Data

\* An answer of the server: an error says nothing of an installation.
LEMMA AnswerParts ==
  ASSUME NEW r \in Answers
  PROVE  /\ r.inst \in Installs \cup {NoInstall}
         /\ r.tok \in 0 .. MaxToken
         /\ r.err \in Errors \cup {"none"}
         /\ r.err # "none" => r.inst = NoInstall /\ r.tok = 0
         /\ r # NoReply
  <1>1. CASE \E e \in Errors : r = Err(e)
    <2>1. PICK e \in Errors : r = Err(e)
      BY <1>1
    <2>2. r.err = e /\ r.inst = NoInstall /\ r.tok = 0
      BY <2>1 DEF Err
    <2>3. NoReply.err = "no reply" /\ e # "no reply"
      BY DEF NoReply, Err, Errors
    <2>4. r # NoReply
      BY <2>2, <2>3
    <2>5. 0 \in 0 .. MaxToken /\ e # "none"
      BY ActivationAssumption DEF Errors
    <2> QED
      BY <2>2, <2>4, <2>5
  <1>2. CASE r \in [err : {"none"}, inst : Installs \cup {NoInstall}, tok : 0 .. MaxToken]
    <2>1. r.err = "none" /\ NoReply.err = "no reply"
      BY <1>2 DEF NoReply, Err
    <2> QED
      BY <1>2, <2>1
  <1> QED
    BY <1>1, <1>2 DEF Answers

\* The fields of an answer that has not come.
LEMMA NoReplyParts ==
  NoReply.err = "no reply" /\ NoReply.inst = NoInstall /\ NoReply.tok = 0
  BY DEF NoReply, Err

\* The fields of an error.
LEMMA ErrParts ==
  \A e : Err(e).err = e /\ Err(e).inst = NoInstall /\ Err(e).tok = 0
  BY DEF Err

\* The fields of a Result.
LEMMA OkParts ==
  \A i, t : Ok(i, t).err = "none" /\ Ok(i, t).inst = i /\ Ok(i, t).tok = t
  BY DEF Ok

\* A store with fewer installations counts no more of any license.
LEMMA FewerActive ==
  ASSUME NEW d, NEW e, IsFiniteSet(d.active), e.active \subseteq d.active,
         \A i \in e.active : e.owner[i] = d.owner[i]
  PROVE  /\ IsFiniteSet(e.active)
         /\ \A l : ActiveCount(d, l) \in Nat /\ ActiveCount(e, l) <= ActiveCount(d, l)
  <1>1. IsFiniteSet(e.active)
    BY FS_Subset
  <1>2. ASSUME NEW l
        PROVE  ActiveCount(d, l) \in Nat /\ ActiveCount(e, l) <= ActiveCount(d, l)
    <2> DEFINE D == {i \in d.active : d.owner[i] = l}
               E == {i \in e.active : e.owner[i] = l}
    <2>1. D \subseteq d.active /\ E \subseteq D
      OBVIOUS
    <2>2. IsFiniteSet(D)
      BY <2>1, FS_Subset
    <2>3. Cardinality(E) <= Cardinality(D) /\ Cardinality(D) \in Nat
      BY <2>1, <2>2, FS_Subset, FS_CardinalityType
    <2> QED
      BY <2>3 DEF ActiveCount
  <1> QED
    BY <1>1, <1>2

\* A server that is not running has nothing in memory.
LEMMA EmptyIsSound == \A given : SoundData(Empty, given)
  <1>1. \A l : {i \in {} : Empty.owner[i] = l} = {}
    OBVIOUS
  <1> QED
    BY <1>1, EmptyIsData, FS_EmptySet, ActivationAssumption DEF SoundData, ActiveCount

-----------------------------------------------------------------------------
(* What a handler does, whatever it answers *)

\* The store stays sound; the file is left alone or becomes what memory is; an
\* installation that exists keeps its license, becomes active no more, and gets
\* no token but a newly minted one.
Effect ==
  /\ mem' \in Data /\ SoundData(mem', last')
  /\ disk' = disk \/ disk' = mem'
  /\ mem'.status = mem.status
  /\ minted' \in 0 .. MaxToken /\ minted <= minted'
  /\ last' \in [Installs -> 0 .. MaxToken]
  /\ \A i \in Installs :
       /\ \/ last'[i] = last[i] /\ mem'.token[i] = mem.token[i]
          \/ last'[i] = minted' /\ mem'.token[i] = minted' /\ minted < minted'
       /\ last[i] # 0 => mem'.owner[i] = mem.owner[i]
       /\ i \in mem'.active => i \in mem.active \/ last[i] = 0
  /\ UNCHANGED expired /\ proxy' \in BOOLEAN

\* What an answer to Activate says of the store.
ActivateAnswers(l, id, r) ==
  r.err = "none" =>
    /\ disk' = mem'
    /\ r.inst \in Installs
    /\ r.tok # 0 /\ r.tok = last'[r.inst] /\ r.tok <= minted'
    /\ mem'.token[r.inst] = last'[r.inst]
    /\ mem'.active \subseteq mem.active \cup {r.inst}
    /\ id \in mem'.active \ {r.inst} => mem'.owner[id] # mem'.owner[r.inst]

\* An operation that is refused, and Validate, which saves what there is.
LEMMA NothingDone ==
  ASSUME IInv, UNCHANGED <<mem, minted, last, proxy, expired>>,
         disk' = disk \/ disk' = mem'
  PROVE  Effect
  BY ActivationAssumption
  DEF IInv, TypeOK, StoreTypeOK, Sound, SoundData, ActiveCount, Effect

\* Store.Activate: refused, a new token for an installation, or a new installation.
LEMMA ActivateEffect ==
  ASSUME IInv, NEW l \in Licenses, NEW id, NEW r \in Answers, Activate(l, id, r)
  PROVE  Effect /\ ActivateAnswers(l, id, r)
  <1>0. /\ mem \in Data /\ SoundData(mem, last) /\ proxy \in BOOLEAN
        /\ minted \in 0 .. MaxToken /\ last \in [Installs -> 0 .. MaxToken]
    BY DEF IInv, TypeOK, StoreTypeOK, Sound
  <1>1. CASE UNCHANGED storeVars /\ r.err # "none"
    <2>1. UNCHANGED <<mem, disk, minted, last, proxy, expired>>
      BY <1>0, <1>1 DEF storeVars
    <2> QED
      BY <1>0, <1>1, <2>1, NothingDone DEF ActivateAnswers
  <1>2. CASE Refusal(l) = "none" /\ Known(l, id) /\ Renew(id, r)
    <2>0. id \in mem.active /\ id \in Installs /\ mem.owner[id] = l
      BY <1>0, <1>2 DEF Known, Data
    <2>1. /\ mem' = [mem EXCEPT !.token[id] = minted + 1]
          /\ minted < MaxToken /\ minted' = minted + 1
          /\ last' = [last EXCEPT ![id] = minted + 1]
          /\ UNCHANGED <<proxy, expired>>
      BY <1>0, <1>2 DEF Renew, Mint
    <2>2. minted + 1 \in 0 .. MaxToken /\ minted \in Nat
      BY <1>0, <2>1, ActivationAssumption
    <2>3. /\ mem' \in Data
          /\ mem'.status = mem.status
          /\ mem'.owner = mem.owner
          /\ mem'.token = [mem.token EXCEPT ![id] = minted + 1]
          /\ mem'.active = mem.active
      BY <1>0, <2>0, <2>1, <2>2, ActivationAssumption DEF Data
    <2>4. \/ disk' = mem' /\ r = Ok(id, minted + 1)
          \/ disk' = disk /\ r.err # "none"
      BY <1>0, <1>2, <2>0, ErrParts DEF Renew, ProxyCreds, Persist
    <2>5. SoundData(mem', last')
      BY <1>0, <2>0, <2>1, <2>2, <2>3, ActivationAssumption
      DEF SoundData, ActiveCount, Data
    <2>6. Effect
      <3>1. disk' = disk \/ disk' = mem'
        BY <2>4
      <3>2. mem.token \in [Installs -> 0 .. MaxToken]
        BY <1>0 DEF Data
      <3>3. last' \in [Installs -> 0 .. MaxToken] /\ minted' \in 0 .. MaxToken
        BY <1>0, <2>0, <2>1, <2>2
      <3>4. \A i \in Installs :
              \/ last'[i] = last[i] /\ mem'.token[i] = mem.token[i]
              \/ last'[i] = minted' /\ mem'.token[i] = minted' /\ minted < minted'
        BY <1>0, <2>0, <2>1, <2>2, <2>3, <3>2
      <3> QED
        BY <1>0, <2>1, <2>2, <2>3, <2>5, <3>1, <3>3, <3>4 DEF Effect
    <2>7. ActivateAnswers(l, id, r)
      BY <1>0, <2>0, <2>1, <2>2, <2>3, <2>4, OkParts DEF ActivateAnswers, Data
    <2> QED
      BY <1>0, <2>6, <2>7
  <1>3. ASSUME Refusal(l) = "none", ~Known(l, id), NEW i \in Installs,
               ActiveCount(mem, l) < Limit[l], last[i] = 0, Mint(i),
               mem' = [mem EXCEPT !.owner[i] = l, !.token[i] = minted + 1,
                                  !.active = @ \cup {i}],
               ProxyCreds(l, r, Ok(i, minted + 1)), UNCHANGED <<proxy, expired>>
        PROVE  Effect /\ ActivateAnswers(l, id, r)
    <2>1. /\ minted < MaxToken /\ minted' = minted + 1
          /\ last' = [last EXCEPT ![i] = minted + 1]
      BY <1>0, <1>3 DEF Mint
    <2>2. minted + 1 \in 0 .. MaxToken /\ minted \in Nat
      BY <1>0, <2>1, ActivationAssumption
    <2>3. /\ mem' \in Data
          /\ mem'.status = mem.status
          /\ mem'.owner = [mem.owner EXCEPT ![i] = l]
          /\ mem'.token = [mem.token EXCEPT ![i] = minted + 1]
          /\ mem'.active = mem.active \cup {i}
      <3>1. mem' = [status |-> mem.status, owner |-> [mem.owner EXCEPT ![i] = l],
                    token |-> [mem.token EXCEPT ![i] = minted + 1],
                    active |-> mem.active \cup {i}]
        BY <1>0, <1>3 DEF Data
      <3>2. /\ [mem.owner EXCEPT ![i] = l] \in [Installs -> Licenses \cup {NoLicense}]
            /\ [mem.token EXCEPT ![i] = minted + 1] \in [Installs -> 0 .. MaxToken]
            /\ mem.active \cup {i} \in SUBSET Installs
            /\ mem.status \in [Licenses -> {"none", "active", "revoked"}]
        BY <1>0, <1>3, <2>2, ActivationAssumption DEF Data
      <3> QED
        BY <3>1, <3>2 DEF Data
    <2>4. \/ disk' = mem' /\ r = Ok(i, minted + 1)
          \/ disk' = disk /\ r.err # "none"
      BY <1>0, <1>3, ErrParts DEF ProxyCreds, Persist
    <2>5. i \notin mem.active /\ mem.active \subseteq Installs
      BY <1>0, <1>3 DEF SoundData, Data
    <2>6. /\ IsFiniteSet(mem'.active)
          /\ ActiveCount(mem, l) \in Nat
          /\ ActiveCount(mem', l) = ActiveCount(mem, l) + 1
          /\ \A k : k # l => ActiveCount(mem', k) = ActiveCount(mem, k)
      <3> DEFINE Old(k) == {j \in mem.active : mem.owner[j] = k}
                 New(k) == {j \in mem'.active : mem'.owner[j] = k}
      <3>1. mem'.owner[i] = l /\ \A j \in mem.active : mem'.owner[j] = mem.owner[j]
        BY <1>0, <1>3, <2>3, <2>5 DEF Data
      <3>2. /\ New(l) = Old(l) \cup {i} /\ i \notin Old(l)
            /\ \A k : k # l => New(k) = Old(k)
        BY <2>3, <2>5, <3>1
      <3>3. IsFiniteSet(mem.active)
        BY <1>0 DEF SoundData
      <3>4. IsFiniteSet(Old(l)) /\ IsFiniteSet(mem'.active)
        BY <2>3, <3>3, FS_Subset, FS_AddElement
      <3>5. Cardinality(New(l)) = Cardinality(Old(l)) + 1 /\ Cardinality(Old(l)) \in Nat
        BY <3>2, <3>4, FS_AddElement, FS_CardinalityType
      <3> QED
        BY <3>2, <3>4, <3>5 DEF ActiveCount
    <2>7. \A k \in Licenses : ActiveCount(mem', k) <= Limit[k]
      BY <1>0, <1>3, <2>6, ActivationAssumption DEF SoundData
    <2>8. \A j \in Installs :
            /\ mem'.token[j] # 0 => mem'.owner[j] \in Licenses /\ last'[j] # 0
            /\ j \in mem'.active => mem'.token[j] # 0
      BY <1>0, <2>1, <2>2, <2>3 DEF SoundData, Data
    <2>9. SoundData(mem', last')
      BY <1>0, <2>6, <2>7, <2>8 DEF SoundData, ActiveCount
    <2>10. Effect
      BY <1>0, <1>3, <2>1, <2>2, <2>3, <2>4, <2>9, ActivationAssumption DEF Effect, Data
    <2>11. ActivateAnswers(l, id, r)
      BY <1>0, <1>3, <2>1, <2>2, <2>3, <2>4, <2>5, OkParts
      DEF ActivateAnswers, Known, Data
    <2> QED
      BY <1>0, <2>10, <2>11
  <1>4. \/ UNCHANGED storeVars /\ r.err # "none"
        \/ Refusal(l) = "none" /\ Known(l, id) /\ Renew(id, r)
        \/ Refusal(l) = "none" /\ ~Known(l, id) /\ NewInstallation(l, r)
    BY ErrParts DEF Activate
  <1>5. CASE Refusal(l) = "none" /\ ~Known(l, id) /\ NewInstallation(l, r)
    <2>1. CASE r = Err("installation_limit") /\ UNCHANGED storeVars
      BY <1>1, <2>1, ErrParts
    <2> QED
      BY <1>3, <1>5, <2>1 DEF NewInstallation
  <1> QED
    BY <1>1, <1>2, <1>4, <1>5

\* What an answer to Validate says of it.
ValidateAnswers(i, t, r) ==
  /\ mem' = mem
  /\ r.inst \in {NoInstall, i} /\ r.tok \in {0, t}

\* Store.Validate.
LEMMA ValidateEffect ==
  ASSUME IInv, NEW i \in Installs, NEW t, NEW r \in Answers, Validate(i, t, r)
  PROVE  Effect /\ ValidateAnswers(i, t, r)
  <1>1. UNCHANGED <<mem, minted, last, proxy, expired>> /\ (disk' = disk \/ disk' = mem')
    BY DEF Validate, ProxyCreds, Persist
  <1>2. r.inst \in {NoInstall, i} /\ r.tok \in {0, t}
    BY ErrParts, OkParts DEF Validate, ProxyCreds, Persist
  <1> QED
    BY <1>1, <1>2, NothingDone DEF ValidateAnswers

\* What an answer to Deactivate says of it.
DeactivateAnswers(i, t, r) ==
  /\ mem'.active \subseteq mem.active
  /\ mem'.token = mem.token /\ last' = last
  /\ r.inst = NoInstall /\ r.tok = 0
  /\ r.err \in {"none", "invalid_token", "unavailable"}
  /\ r.err = "none" => disk' = mem' /\ i \notin mem'.active
  /\ r.err = "invalid_token" => ~Holds(i, t)

\* Store.Deactivate.
LEMMA DeactivateEffect ==
  ASSUME IInv, NEW i \in Installs, NEW t, NEW r \in Answers, Deactivate(i, t, r)
  PROVE  Effect /\ DeactivateAnswers(i, t, r)
  <1>0. /\ mem \in Data /\ SoundData(mem, last) /\ proxy \in BOOLEAN
        /\ minted \in 0 .. MaxToken /\ last \in [Installs -> 0 .. MaxToken]
    BY DEF IInv, TypeOK, StoreTypeOK, Sound
  <1>1. CASE ~Holds(i, t) /\ r = Err("invalid_token") /\ UNCHANGED <<mem, disk>>
    <2>1. UNCHANGED <<mem, disk, minted, last, proxy, expired>>
      BY <1>0, <1>1 DEF Deactivate
    <2> QED
      BY <1>0, <1>1, <2>1, NothingDone, ErrParts DEF DeactivateAnswers
  <1>2. CASE mem' = [mem EXCEPT !.active = @ \ {i}] /\ Persist(r, Ok(NoInstall, 0))
    <2>1. UNCHANGED <<minted, last, proxy, expired>>
      BY <1>0 DEF Deactivate
    <2>2. /\ mem' \in Data
          /\ mem'.status = mem.status
          /\ mem'.owner = mem.owner
          /\ mem'.token = mem.token
          /\ mem'.active = mem.active \ {i}
      BY <1>0, <1>2, DroppedData
    <2>3. \/ disk' = mem' /\ r = Ok(NoInstall, 0)
          \/ disk' = disk /\ r = Err("unavailable")
      BY <1>0, <1>2 DEF Persist
    <2>4. /\ IsFiniteSet(mem'.active)
          /\ \A l \in Licenses : ActiveCount(mem', l) <= Limit[l]
      <3>1. /\ IsFiniteSet(mem'.active)
            /\ \A l : /\ ActiveCount(mem, l) \in Nat
                      /\ ActiveCount(mem', l) <= ActiveCount(mem, l)
        <4>1. IsFiniteSet(mem.active)
          BY <1>0 DEF SoundData
        <4>2. /\ mem'.active \subseteq mem.active
              /\ \A j \in mem'.active : mem'.owner[j] = mem.owner[j]
          BY <1>0, <2>2
        <4> QED
          BY <1>0, <4>1, <4>2, FewerActive
      <3>2. ASSUME NEW l \in Licenses PROVE ActiveCount(mem', l) <= Limit[l]
        <4>1. ActiveCount(mem, l) <= Limit[l] /\ Limit[l] \in Nat
          BY <1>0, ActivationAssumption DEF SoundData
        <4>2. ActiveCount(mem', l) \in Nat
          BY <1>0, <3>1, FewerActive
        <4> QED
          BY <1>0, <3>1, <4>1, <4>2
      <3> QED
        BY <1>0, <3>1, <3>2
    <2>5. SoundData(mem', last')
      BY <1>0, <2>1, <2>2, <2>4 DEF SoundData, ActiveCount
    <2>6. Effect
      BY <1>0, <2>1, <2>2, <2>3, <2>5, ActivationAssumption DEF Effect
    <2> QED
      BY <1>0, <2>1, <2>2, <2>3, <2>6, ErrParts, OkParts DEF DeactivateAnswers
  <1> QED
    BY <1>1, <1>2 DEF Deactivate

-----------------------------------------------------------------------------
(* The invariant *)

\* The fields of the records a client has.
Fields ==
  /\ minted \in Nat /\ calls \in Nat
  /\ \A i \in Installs : last[i] \in Nat
  /\ \A c \in Clients :
       /\ rec[c].inst \in Installs \cup {NoInstall} /\ rec[c].tok \in 0 .. MaxToken
       /\ reply[c].inst \in Installs \cup {NoInstall} /\ reply[c].tok \in 0 .. MaxToken
       /\ call[c] \in Nat
       /\ rec[c] # NoRecord => rec[c].inst # NoInstall
  /\ \A q \in net :
       /\ q.from \in Clients /\ q.n \in Nat /\ q.n > 0
       /\ q.op \in {"activate", "validate", "deactivate"}
       /\ q.inst \in Installs \cup {NoInstall} /\ q.tok \in Nat

\* They follow from the types of the records.
LEMMA FieldTypes == IInv => Fields
  <1> SUFFICES ASSUME TypeOK, Replied PROVE Fields
    BY DEF IInv
  <1>1. minted \in Nat /\ calls \in Nat /\ \A i \in Installs : last[i] \in Nat
    BY ActivationAssumption, ClientAssumption DEF TypeOK, StoreTypeOK
  <1>2. ASSUME NEW c \in Clients
        PROVE  /\ rec[c].inst \in Installs \cup {NoInstall}
               /\ rec[c].tok \in 0 .. MaxToken
               /\ call[c] \in Nat
               /\ rec[c] # NoRecord => rec[c].inst # NoInstall
    <2>1. rec[c] \in [inst : Installs \cup {NoInstall}, tok : 0 .. MaxToken]
      BY DEF TypeOK
    <2>2. call[c] \in Nat
      BY ClientAssumption DEF TypeOK
    <2>3. rec[c] # NoRecord => rec[c].inst # NoInstall
      BY DEF Replied, Fits
    <2> QED
      BY <2>1, <2>2, <2>3
  <1>3. ASSUME NEW c \in Clients
        PROVE  /\ reply[c].inst \in Installs \cup {NoInstall}
               /\ reply[c].tok \in 0 .. MaxToken
    <2>1. reply[c] \in Answers \/ reply[c] = NoReply
      BY DEF TypeOK
    <2>2. 0 \in 0 .. MaxToken
      BY ActivationAssumption
    <2> QED
      BY <2>1, <2>2, AnswerParts, NoReplyParts
  <1>4. ASSUME NEW q \in net
        PROVE  /\ q.from \in Clients /\ q.n \in Nat /\ q.n > 0
               /\ q.op \in {"activate", "validate", "deactivate"}
               /\ q.inst \in Installs \cup {NoInstall} /\ q.tok \in Nat
    <2>1. q \in Requests
      BY DEF TypeOK
    <2> QED
      BY <2>1, ActivationAssumption, ClientAssumption DEF Requests
  <1>5. /\ \A c \in Clients :
             /\ rec[c].inst \in Installs \cup {NoInstall} /\ rec[c].tok \in 0 .. MaxToken
             /\ reply[c].inst \in Installs \cup {NoInstall} /\ reply[c].tok \in 0 .. MaxToken
             /\ call[c] \in Nat
             /\ rec[c] # NoRecord => rec[c].inst # NoInstall
    BY <1>2, <1>3
  <1> QED
    BY <1>1, <1>4, <1>5 DEF Fields

\* Before the first command the inductive invariant holds.
LEMMA InitInv == Init => IInv
  <1> SUFFICES ASSUME Init PROVE IInv
    OBVIOUS
  <1>0. /\ mem = Empty /\ disk = Empty /\ copy = [k \in 1 .. MaxCmds |-> Empty]
        /\ \A c \in Clients : /\ rec[c] = NoRecord /\ call[c] = 0 /\ op[c] = "none"
                              /\ reply[c] = NoReply
        /\ minted = 0 /\ \A i \in Installs : last[i] = 0
        /\ net = {} /\ revoked = {} /\ removed = {} /\ cmd = {} /\ ~serving
    BY DEF Init, StoreInit
  <1>1. TypeOK
    <2>1. minted \in 0 .. MaxToken /\ calls \in 0 .. MaxCalls /\ cmds \in 0 .. MaxCmds
      BY ActivationAssumption, ClientAssumption DEF Init, StoreInit
    <2>2. last \in [Installs -> 0 .. MaxToken]
      BY ActivationAssumption DEF Init, StoreInit
    <2>3. rec \in [Clients -> [inst : Installs \cup {NoInstall}, tok : 0 .. MaxToken]]
      BY ActivationAssumption DEF Init, NoRecord
    <2>4. call \in [Clients -> 0 .. MaxCalls]
      BY ClientAssumption DEF Init
    <2>5. /\ op \in [Clients -> {"none", "activate", "validate", "deactivate"}]
          /\ reply \in [Clients -> Answers \cup {NoReply}]
      BY DEF Init
    <2>6. /\ {proxy, serving, overlap} \subseteq BOOLEAN
          /\ expired \subseteq Licenses /\ revoked \subseteq Licenses
          /\ net \subseteq Requests
          /\ removed \subseteq Installs /\ stranded \subseteq Installs
      BY DEF Init, StoreInit
    <2> QED
      BY <1>0, <2>1, <2>2, <2>3, <2>4, <2>5, <2>6, EmptyIsData DEF TypeOK, StoreTypeOK
  <1>2. Sound
    BY <1>0, EmptyIsSound DEF Sound
  <1>3. calls = 0 /\ NoRecord.tok = 0 /\ NoRecord.inst = NoInstall
    BY DEF Init, NoRecord
  <1>4. Numbered
    <2>1. 0 <= 0
      OBVIOUS
    <2>2. \A c \in Clients : rec[c].tok = 0 /\ reply[c].tok = 0
      BY <1>0, <1>3, NoReplyParts
    <2> QED
      BY <1>0, <1>3, <2>1, <2>2 DEF Numbered
  <1>5. Wire /\ Replied
    BY <1>0, <1>3, NoReplyParts DEF Wire, Replied, Fits
  <1>6. Alone /\ Recorded /\ Ended
    BY <1>0, <1>3 DEF Alone, Recorded, Ended
  <1>7. Answered
    BY <1>0 DEF Answered, Told
  <1>8. Slots
    BY <1>0, EmptyIsData DEF Slots, Inactive
  <1> QED
    BY <1>1, <1>2, <1>4, <1>5, <1>6, <1>7, <1>8 DEF IInv

\* The fields of an empty SecretStore.
LEMMA NoRecordParts == NoRecord.inst = NoInstall /\ NoRecord.tok = 0
  BY DEF NoRecord

\* A call that returns or is given up, and what it may do to the record.
CallEnds(c) ==
  /\ op' = [op EXCEPT ![c] = "none"]
  /\ call' = [call EXCEPT ![c] = 0]
  /\ reply' = [reply EXCEPT ![c] = NoReply]
  /\ \/ rec' = rec
     \/ rec' = [rec EXCEPT ![c] = NoRecord]
     \/ /\ op[c] = "activate" /\ reply[c].err = "none"
        /\ rec' = [rec EXCEPT ![c] = [inst |-> reply[c].inst, tok |-> reply[c].tok]]
  /\ UNCHANGED <<proxy, mem, disk, expired, minted, last, serving, cmd, copy, cmds,
                 calls, net, revoked, overlap>>

\* It leaves everything alone but the history, which the caller sees to.
LEMMA CallEndsInv ==
  ASSUME IInv, NEW c \in Clients, CallEnds(c)
  PROVE  /\ removed' \subseteq Installs /\ stranded' \subseteq Installs => TypeOK'
         /\ Sound' /\ Numbered' /\ Wire' /\ Replied' /\ Alone' /\ Recorded' /\ Answered'
  <1>0. /\ TypeOK /\ Sound /\ Numbered /\ Wire /\ Replied
        /\ Alone /\ Recorded /\ Answered /\ Fields
    BY FieldTypes DEF IInv
  <1>1. UNCHANGED <<proxy, mem, disk, expired, minted, last, serving, cmd, copy, cmds,
                    calls, net, revoked, overlap>>
    BY DEF CallEnds
  <1>2. /\ op'[c] = "none" /\ call'[c] = 0 /\ reply'[c] = NoReply
        /\ \A b \in Clients \ {c} :
             op'[b] = op[b] /\ call'[b] = call[b] /\ reply'[b] = reply[b]
    BY <1>0 DEF CallEnds, TypeOK
  <1>3. reply'[c].err = "no reply" /\ reply'[c].inst = NoInstall /\ reply'[c].tok = 0
    BY <1>2, NoReplyParts
  <1>4. \A b \in Clients \ {c} : rec'[b] = rec[b]
    BY <1>0 DEF CallEnds, TypeOK
  <1>5. \/ rec'[c] = rec[c]
        \/ rec'[c] = NoRecord /\ rec'[c].inst = NoInstall /\ rec'[c].tok = 0
        \/ /\ op[c] = "activate" /\ reply[c].err = "none"
           /\ rec'[c].inst = reply[c].inst /\ rec'[c].tok = reply[c].tok
    BY <1>0, NoRecordParts DEF CallEnds, TypeOK
  <1>6. ASSUME removed' \subseteq Installs, stranded' \subseteq Installs PROVE TypeOK'
    <2>1. /\ op' \in [Clients -> {"none", "activate", "validate", "deactivate"}]
          /\ reply' \in [Clients -> Answers \cup {NoReply}]
      BY <1>0 DEF CallEnds, TypeOK
    <2>2. call' \in [Clients -> 0 .. MaxCalls]
      BY <1>0, ClientAssumption DEF CallEnds, TypeOK
    <2>3. rec' \in [Clients -> [inst : Installs \cup {NoInstall}, tok : 0 .. MaxToken]]
      <3>1. NoRecord \in [inst : Installs \cup {NoInstall}, tok : 0 .. MaxToken]
        BY ActivationAssumption DEF NoRecord
      <3>2. [inst |-> reply[c].inst, tok |-> reply[c].tok]
              \in [inst : Installs \cup {NoInstall}, tok : 0 .. MaxToken]
        BY <1>0 DEF Fields
      <3> QED
        BY <1>0, <3>1, <3>2 DEF CallEnds, TypeOK
    <2> QED
      BY <1>0, <1>1, <1>6, <2>1, <2>2, <2>3 DEF TypeOK, StoreTypeOK
  <1>7. Sound' /\ Alone'
    BY <1>0, <1>1 DEF Sound, Alone
  <1>8. Numbered'
    <2>1. ASSUME NEW b \in Clients
          PROVE  /\ call'[b] <= calls'
                 /\ call'[b] = 0 <=> op'[b] = "none"
                 /\ rec'[b].tok <= minted'
                 /\ reply'[b].tok <= minted'
      <3>1. CASE b = c
        <4>1. rec'[c].tok \in {rec[c].tok, 0, reply[c].tok}
          BY <1>5
        <4>2. /\ minted \in Nat /\ calls \in Nat
              /\ rec[c].tok <= minted /\ reply[c].tok <= minted
          BY <1>0 DEF Numbered, Fields
        <4>3. rec'[c].tok <= minted'
          BY <1>1, <4>1, <4>2
        <4>4. 0 <= calls /\ 0 <= minted
          BY <4>2
        <4> QED
          BY <1>1, <1>2, <1>3, <3>1, <4>3, <4>4
      <3>2. CASE b # c
        BY <1>0, <1>1, <1>2, <1>4, <3>2 DEF Numbered
      <3> QED
        BY <3>1, <3>2
    <2> QED
      BY <1>0, <1>1, <2>1 DEF Numbered
  <1>9. Wire'
    <2> SUFFICES ASSUME NEW q \in net
                 PROVE  q.n = call'[q.from] =>
                          /\ op'[q.from] = q.op
                          /\ rec'[q.from].inst = q.inst
                          /\ q.op # "activate" => rec'[q.from].tok = q.tok
                          /\ reply'[q.from] = NoReply
      BY <1>0, <1>1 DEF Wire
    <2>1. q.from \in Clients /\ q.n # 0
      BY <1>0 DEF Fields
    <2> QED
      BY <1>0, <1>2, <1>4, <2>1 DEF Wire
  <1>10. Replied'
    <2> SUFFICES ASSUME NEW b \in Clients PROVE Fits(op'[b], rec'[b], reply'[b])
      BY DEF Replied
    <2>1. CASE b = c
      <3>1. rec'[c].inst = NoInstall => rec'[c] = NoRecord
        BY <1>0, <1>5, ActivationAssumption DEF Replied, Fits
      <3> QED
        BY <1>2, <1>3, <2>1, <3>1 DEF Fits
    <2>2. CASE b # c
      BY <1>0, <1>2, <1>4, <2>2 DEF Replied
    <2> QED
      BY <2>1, <2>2
  <1>11. Recorded'
    <2> SUFFICES ASSUME ~overlap, NEW b \in Clients, rec'[b].inst # NoInstall
                 PROVE  Token(rec'[b].inst, rec'[b].tok)
      BY <1>1 DEF Recorded, Token, InForce
    <2>1. CASE b = c
      BY <1>0, <1>5, <2>1 DEF Recorded, Answered, Told
    <2>2. CASE b # c
      BY <1>0, <1>4, <2>2 DEF Recorded
    <2> QED
      BY <2>1, <2>2
  <1>12. Answered'
    BY <1>0, <1>1, <1>2, <1>4 DEF Answered, Told, Token, InForce, Inactive
  <1> QED
    BY <1>6, <1>7, <1>8, <1>9, <1>10, <1>11, <1>12

\* A new call keeps the invariant.
LEMMA SendInv ==
  ASSUME IInv, NEW c \in Clients, NEW o \in {"activate", "validate", "deactivate"},
         NEW l, NEW t, Send(c, o, l, rec[c].inst, t),
         IF o = "activate" THEN l \in Licenses /\ t = 0
         ELSE l = NoLicense /\ t = rec[c].tok /\ rec[c] # NoRecord
  PROVE  IInv'
  <1>0. /\ TypeOK /\ Sound /\ Numbered /\ Wire /\ Replied
        /\ Alone /\ Recorded /\ Answered /\ Ended /\ Slots /\ Fields
    BY FieldTypes DEF IInv
  <1> DEFINE new == [from |-> c, n |-> calls + 1, op |-> o, lic |-> l,
                     inst |-> rec[c].inst, tok |-> t]
  <1>1. UNCHANGED <<proxy, mem, disk, expired, minted, last, serving, cmd, copy, cmds,
                    rec, reply, revoked, removed, stranded, overlap>>
    BY DEF Send, storeVars, serverVars, history
  <1>2. op[c] = "none" /\ calls < MaxCalls /\ calls' = calls + 1 /\ net' = net \cup {new}
    BY DEF Send
  <1>3. /\ call'[c] = calls + 1 /\ op'[c] = o
        /\ \A b \in Clients \ {c} : call'[b] = call[b] /\ op'[b] = op[b]
    BY <1>0 DEF Send, TypeOK
  <1>4. /\ new.from = c /\ new.n = calls + 1 /\ new.op = o /\ new.lic = l
        /\ new.inst = rec[c].inst /\ new.tok = t
    OBVIOUS
  <1>5. calls \in Nat /\ calls + 1 \in 1 .. MaxCalls /\ calls' \in 0 .. MaxCalls
    BY <1>0, <1>2, ClientAssumption DEF Fields
  <1>6. reply[c] = NoReply
    BY <1>0, <1>2 DEF Replied, Fits
  <1>7. TypeOK'
    <2>1. call' \in [Clients -> 0 .. MaxCalls]
      BY <1>0, <1>5 DEF Send, TypeOK
    <2>2. op' \in [Clients -> {"none", "activate", "validate", "deactivate"}]
      BY <1>0 DEF Send, TypeOK
    <2>3. new \in Requests
      <3>1. l \in Licenses \cup {NoLicense} /\ t \in 0 .. MaxToken
        BY <1>0, ActivationAssumption DEF Fields
      <3>2. rec[c].inst \in Installs \cup {NoInstall}
        BY <1>0 DEF Fields
      <3> QED
        BY <1>5, <3>1, <3>2 DEF Requests
    <2> HIDE DEF new
    <2> QED
      BY <1>0, <1>1, <1>2, <1>5, <2>1, <2>2, <2>3 DEF TypeOK, StoreTypeOK
  <1>8. Sound' /\ Alone' /\ Recorded' /\ Ended' /\ Slots'
    BY <1>0, <1>1 DEF Sound, Alone, Recorded, Ended, Slots, Token, InForce, Inactive
  <1> HIDE DEF new
  <1>9. Numbered'
    <2>1. ASSUME NEW b \in Clients
          PROVE  call'[b] <= calls' /\ (call'[b] = 0 <=> op'[b] = "none")
      <3>1. CASE b = c
        BY <1>2, <1>3, <1>5, <3>1
      <3>2. CASE b # c
        BY <1>0, <1>2, <1>3, <1>5, <3>2 DEF Numbered, Fields
      <3> QED
        BY <3>1, <3>2
    <2> QED
      BY <1>0, <1>1, <2>1 DEF Numbered
  <1>10. Wire'
    <2>1. \A q \in net : q.n # calls + 1 /\ q.n <= calls + 1 /\ q.n # call'[c]
      BY <1>0, <1>3, <1>5 DEF Wire, Fields
    <2>2. ASSUME NEW q \in net' PROVE q.n <= calls' /\ \A p \in net' : p.n = q.n => p = q
      BY <1>0, <1>2, <1>4, <1>5, <2>1 DEF Wire
    <2>3. ASSUME NEW q \in net'
          PROVE  IF q.op = "activate" THEN q.lic \in Licenses ELSE q.inst \in Installs
      <3>1. CASE q = new
        BY <1>0, <1>4, <3>1 DEF Fields
      <3> QED
        BY <1>0, <1>2, <3>1 DEF Wire
    <2>4. ASSUME NEW q \in net', q.n = call'[q.from]
          PROVE  /\ op'[q.from] = q.op
                 /\ rec'[q.from].inst = q.inst
                 /\ q.op # "activate" => rec'[q.from].tok = q.tok
                 /\ reply'[q.from] = NoReply
      <3>1. CASE q = new
        BY <1>1, <1>3, <1>4, <1>6, <3>1
      <3>2. CASE q \in net
        <4>1. q.from \in Clients \ {c}
          BY <1>0, <2>1, <2>4, <3>2 DEF Fields
        <4> QED
          BY <1>0, <1>1, <1>3, <2>4, <3>2, <4>1 DEF Wire
      <3> QED
        BY <1>2, <3>1, <3>2
    <2> QED
      BY <2>2, <2>3, <2>4 DEF Wire
  <1>11. reply[c].err = "no reply" /\ reply[c].inst = NoInstall
    BY <1>6, NoReplyParts
  <1>12. Replied'
    <2> SUFFICES ASSUME NEW b \in Clients PROVE Fits(op'[b], rec[b], reply[b])
      BY <1>1 DEF Replied
    <2>1. CASE b = c
      <3>1. o # "activate" => rec[c].inst # NoInstall
        BY <1>0 DEF Fields
      <3> QED
        BY <1>0, <1>3, <1>6, <1>11, <2>1, <3>1 DEF Replied, Fits
    <2>2. CASE b # c
      BY <1>0, <1>3, <2>2 DEF Replied
    <2> QED
      BY <2>1, <2>2
  <1>13. Answered'
    <2> SUFFICES ASSUME ~overlap, NEW b \in Clients PROVE Told(b)'
      BY <1>1 DEF Answered
    <2>1. CASE b = c
      BY <1>1, <1>11, <2>1 DEF Told
    <2>2. CASE b # c
      BY <1>0, <1>1, <1>3, <2>2 DEF Answered, Told, Token, InForce, Inactive
    <2> QED
      BY <2>1, <2>2
  <1> QED
    BY <1>7, <1>8, <1>9, <1>10, <1>12, <1>13 DEF IInv

\* A command of the operator: the file is as it was, or the copy with the
\* license's new status.
LEMMA CmdEndsInv ==
  ASSUME IInv, NEW k \in cmd, NEW l \in Licenses, NEW s \in {"active", "revoked"},
         CmdEnds(k, [copy[k] EXCEPT !.status[l] = s]),
         s = "active" => copy[k].status[l] = "none",
         \/ revoked' = revoked
         \/ /\ s = "revoked" /\ disk' = [copy[k] EXCEPT !.status[l] = s]
            /\ revoked' = revoked \cup {l}
  PROVE  IInv'
  <1>0. /\ TypeOK /\ Sound /\ Numbered /\ Wire /\ Replied
        /\ Alone /\ Recorded /\ Answered /\ Ended /\ Slots /\ Fields
    BY FieldTypes DEF IInv
  <1> DEFINE d == [copy[k] EXCEPT !.status[l] = s]
  <1>1. /\ cmd' = cmd \ {k} /\ copy' = [copy EXCEPT ![k] = Empty]
        /\ disk' = disk \/ disk' = d
    BY DEF CmdEnds
  <1>2. UNCHANGED <<proxy, mem, expired, minted, last, serving, cmds, rec, calls, call, op,
                    net, reply, removed, stranded, overlap>>
    BY DEF CmdEnds, clientVars
  <1>3. /\ k \in 1 .. MaxCmds /\ copy \in [1 .. MaxCmds -> Data] /\ copy[k] \in Data
        /\ disk \in Data /\ SoundData(copy[k], last) /\ SoundData(disk, last)
    BY <1>0 DEF TypeOK, StoreTypeOK, Sound
  <1>4. /\ d \in Data /\ SoundData(d, last)
        /\ d.status = [copy[k].status EXCEPT ![l] = s]
        /\ d.owner = copy[k].owner
        /\ d.token = copy[k].token
        /\ d.active = copy[k].active
    <2>1. /\ d \in Data
          /\ d.status = [copy[k].status EXCEPT ![l] = s]
          /\ d.owner = copy[k].owner
          /\ d.token = copy[k].token
          /\ d.active = copy[k].active
      BY <1>3, ActivationAssumption DEF Data
    <2> HIDE DEF d
    <2> QED
      BY <1>3, <2>1 DEF SoundData, ActiveCount
  <1>5. \/ revoked' = revoked
        \/ s = "revoked" /\ disk' = d /\ revoked' = revoked \cup {l}
    OBVIOUS
  <1> HIDE DEF d
  <1>6. disk' \in Data /\ SoundData(disk', last)
    BY <1>1, <1>3, <1>4
  <1>7. ~overlap => /\ ~serving
                    /\ disk'.owner = disk.owner
                    /\ disk'.token = disk.token
                    /\ disk'.active = disk.active
    BY <1>0, <1>1, <1>4 DEF Alone
  <1>8. ~overlap => \A m \in Licenses :
          \/ disk'.status[m] = disk.status[m]
          \/ m = l /\ disk' = d /\ disk'.status[m] = s
    BY <1>0, <1>1, <1>3, <1>4 DEF Alone, Data
  <1>9. TypeOK'
    <2>1. copy' \in [1 .. MaxCmds -> Data] /\ cmd' \subseteq 1 .. MaxCmds
      BY <1>0, <1>1, <1>3, EmptyIsData DEF TypeOK
    <2> QED
      BY <1>0, <1>2, <1>5, <1>6, <2>1 DEF TypeOK, StoreTypeOK
  <1>10. Sound'
    <2>1. \A m \in 1 .. MaxCmds : copy'[m] = copy[m] \/ copy'[m] = Empty
      BY <1>1, <1>3
    <2> QED
      BY <1>0, <1>2, <1>6, <2>1, EmptyIsSound DEF Sound
  <1>11. Numbered' /\ Wire' /\ Replied'
    BY <1>0, <1>2 DEF Numbered, Wire, Replied, Fits
  <1>12. Alone'
    <2>1. ~overlap => cmd' = {}
      BY <1>0, <1>1 DEF Alone
    <2> QED
      BY <1>0, <1>2, <1>7, <2>1 DEF Alone
  <1>13. Recorded'
    BY <1>0, <1>2, <1>7 DEF Recorded, Token, InForce
  <1>14. Answered'
    BY <1>0, <1>2, <1>7 DEF Answered, Told, Token, InForce, Inactive
  <1>15. Slots'
    BY <1>0, <1>2, <1>7 DEF Slots, Inactive
  <1>16. Ended'
    <2> SUFFICES ASSUME ~overlap
                 PROVE  /\ \A m \in revoked' : disk'.status[m] = "revoked"
                        /\ \A i \in removed : last[i] # 0 /\ Inactive(i)
      BY <1>2, <1>7 DEF Ended, Inactive
    <2>1. ASSUME NEW m \in revoked' PROVE disk'.status[m] = "revoked"
      <3>1. m \in Licenses
        BY <1>9 DEF TypeOK
      <3>2. CASE m \in revoked
        <4>1. disk.status[m] = "revoked"
          BY <1>0, <3>2 DEF Ended
        <4>2. m = l => s = "revoked"
          BY <1>0, <1>1, <4>1 DEF Alone
        <4> QED
          BY <1>8, <3>1, <4>1, <4>2
      <3>3. CASE m \notin revoked
        <4>1. m = l /\ s = "revoked" /\ disk' = d
          BY <1>5, <2>1, <3>3
        <4> QED
          BY <1>3, <1>4, <4>1 DEF Data
      <3> QED
        BY <3>2, <3>3
    <2> QED
      BY <1>0, <1>7, <2>1 DEF Ended, Inactive
  <1> QED
    BY <1>9, <1>10, <1>11, <1>12, <1>13, <1>14, <1>15, <1>16 DEF IInv

\* A handler of the server keeps it, whatever it answers and whoever waits.
LEMMA HandleInv ==
  ASSUME IInv, NEW q \in net, NEW r \in Answers, Handle(q, r)
  PROVE  IInv'
  <1>0. /\ TypeOK /\ Sound /\ Numbered /\ Wire /\ Replied
        /\ Alone /\ Recorded /\ Answered /\ Ended /\ Slots /\ Fields
    BY FieldTypes DEF IInv
  <1> DEFINE c == q.from
             waits == call[q.from] = q.n
  <1>1. /\ c \in Clients /\ q.op \in {"activate", "validate", "deactivate"}
        /\ q.op = "activate" => q.lic \in Licenses
        /\ q.op # "activate" => q.inst \in Installs
    BY <1>0 DEF Fields, Wire
  <1>2. /\ Effect
        /\ q.op = "activate" => ActivateAnswers(q.lic, q.inst, r)
        /\ q.op = "validate" => ValidateAnswers(q.inst, q.tok, r)
        /\ q.op = "deactivate" => DeactivateAnswers(q.inst, q.tok, r)
    <2>1. CASE q.op = "activate"
      <3>1. Activate(q.lic, q.inst, r)
        BY <2>1 DEF Handle
      <3> QED
        BY <1>1, <2>1, <3>1, ActivateEffect
    <2>2. CASE q.op = "validate"
      <3>1. Validate(q.inst, q.tok, r)
        BY <2>2 DEF Handle
      <3> QED
        BY <1>1, <2>2, <3>1, ValidateEffect
    <2>3. CASE q.op = "deactivate"
      <3>1. Deactivate(q.inst, q.tok, r)
        BY <2>3 DEF Handle
      <3> QED
        BY <1>1, <2>3, <3>1, DeactivateEffect
    <2> QED
      BY <1>1, <2>1, <2>2, <2>3
  <1>3. /\ serving /\ net' = net \ {q}
        /\ UNCHANGED <<serving, cmd, copy, cmds, rec, calls, call, op, revoked, removed,
                       overlap>>
    BY DEF Handle, serverVars
  <1>4. /\ reply' \in [Clients -> Answers \cup {NoReply}]
        /\ waits => reply'[c] = r
        /\ \A b \in Clients : b # c \/ ~waits => reply'[b] = reply[b]
    BY <1>0, <1>1 DEF Handle, TypeOK
  <1>5. /\ stranded' \subseteq Installs /\ stranded \subseteq stranded'
        /\ (waits /\ r.err = "none") \/ mem'.active \ mem.active \subseteq stranded'
    <2>1. mem'.active \subseteq Installs
      BY <1>2 DEF Effect, Data
    <2> QED
      BY <1>0, <2>1 DEF Handle, TypeOK
  <1>6. /\ r.inst \in Installs \cup {NoInstall} /\ r # NoReply
        /\ r.err # "none" => r.inst = NoInstall /\ r.tok = 0
    BY AnswerParts
  <1>7. waits => /\ op[c] = q.op /\ rec[c].inst = q.inst /\ reply[c] = NoReply
                 /\ q.op # "activate" => rec[c].tok = q.tok
    BY <1>0 DEF Wire
  <1> HIDE DEF waits, c
  <1>8. TypeOK'
    <2>1. disk' \in Data
      BY <1>0, <1>2 DEF TypeOK, StoreTypeOK, Effect
    <2> QED
      BY <1>0, <1>2, <1>3, <1>4, <1>5, <2>1 DEF TypeOK, StoreTypeOK, Effect
  <1>9. Sound'
    <2>1. \A i \in Installs : last[i] # 0 => last'[i] # 0
      BY <1>0, <1>2 DEF Effect, Fields
    <2>2. \A d : SoundData(d, last) => SoundData(d, last')
      BY <2>1 DEF SoundData
    <2> QED
      BY <1>0, <1>2, <1>3, <2>2 DEF Sound, Effect
  <1>10. minted' \in Nat /\ minted <= minted' /\ minted \in Nat
    BY <1>0, <1>2, ActivationAssumption DEF Effect, Fields
  <1>11. Numbered'
    <2>1. \A i \in Installs : last'[i] <= minted'
      BY <1>0, <1>2, <1>10 DEF Effect, Numbered, Fields
    <2>2. waits => r.tok <= minted'
      <3>1. CASE q.op = "activate"
        <4>1. 0 <= minted'
          BY <1>10
        <4> QED
          BY <1>2, <1>6, <3>1, <4>1 DEF ActivateAnswers
      <3>2. CASE q.op # "activate"
        <4>1. r.tok \in {0, q.tok}
          BY <1>1, <1>2, <3>2 DEF ValidateAnswers, DeactivateAnswers
        <4>2. waits => q.tok \in Nat /\ q.tok <= minted
          BY <1>0, <1>1, <1>7, <3>2 DEF Numbered, Fields
        <4> QED
          BY <1>10, <4>1, <4>2
      <3> QED
        BY <3>1, <3>2
    <2>3. ASSUME NEW b \in Clients PROVE rec[b].tok <= minted' /\ reply'[b].tok <= minted'
      <3>1. /\ rec[b].tok \in Nat /\ rec[b].tok <= minted
            /\ reply[b].tok \in Nat /\ reply[b].tok <= minted
        BY <1>0 DEF Numbered, Fields
      <3> QED
        BY <1>4, <1>10, <2>2, <3>1
    <2> QED
      BY <1>0, <1>3, <2>1, <2>3 DEF Numbered
  <1>12. Wire'
    <2> SUFFICES ASSUME NEW p \in net, p # q, p.n = call[p.from]
                 PROVE  reply'[p.from] = NoReply
      BY <1>0, <1>3 DEF Wire
    <2>1. p.n # q.n
      BY <1>0 DEF Wire
    <2> QED
      BY <1>0, <1>4, <2>1 DEF Wire, Fields, waits, c
  <1>13. Replied'
    <2> SUFFICES ASSUME NEW b \in Clients PROVE Fits(op[b], rec[b], reply'[b])
      BY <1>0, <1>3 DEF Replied
    <2>1. CASE b = c /\ waits
      <3>1. Fits(op[b], rec[b], reply[b])
        BY <1>0 DEF Replied
      <3> QED
        BY <1>1, <1>2, <1>4, <1>6, <1>7, <2>1, <3>1
        DEF ActivateAnswers, ValidateAnswers, DeactivateAnswers, Fits
    <2>2. CASE ~(b = c /\ waits)
      BY <1>0, <1>4, <2>2 DEF Replied
    <2> QED
      BY <2>1, <2>2
  <1>14. ASSUME ~overlap, NEW i \in Installs, disk.token[i] # 0
         PROVE  /\ last[i] # 0
                /\ mem'.token[i] # 0 /\ mem'.owner[i] = disk.owner[i]
                /\ disk'.token[i] # 0 /\ disk'.owner[i] = disk.owner[i]
    <2>1. last[i] # 0
      BY <1>0, <1>14 DEF Sound, SoundData
    <2>2. mem.token[i] # 0 /\ mem.owner[i] = disk.owner[i]
      BY <1>0, <1>3, <1>14 DEF Alone
    <2>3. mem'.token[i] # 0
      BY <1>2, <1>10, <2>2 DEF Effect
    <2> QED
      BY <1>2, <1>14, <2>1, <2>2, <2>3 DEF Effect
  <1>15. ASSUME NEW i \in Installs, last[i] # 0, Inactive(i)
         PROVE  Inactive(i)'
    BY <1>2, <1>15 DEF Effect, Inactive
  <1>16. ASSUME ~overlap, NEW i \in Installs, NEW t \in Nat, t <= minted, Token(i, t)
         PROVE  Token(i, t)'
    <2>1. t # 0 /\ disk'.token[i] # 0
      BY <1>14, <1>16 DEF Token
    <2>2. ASSUME t = last'[i] PROVE InForce(i)'
      <3>1. last'[i] = last[i] /\ mem'.token[i] = mem.token[i]
        BY <1>2, <1>10, <1>16, <2>2 DEF Effect
      <3>2. disk.token[i] = last[i] /\ mem.token[i] = last[i]
        BY <1>3, <1>16, <2>2, <3>1 DEF Token, InForce
      <3> QED
        BY <1>2, <3>1, <3>2 DEF Effect, InForce
    <2> QED
      BY <2>1, <2>2 DEF Token
  <1>17. Alone'
    BY <1>0, <1>2, <1>3, <1>14 DEF Alone, Effect
  <1>18. Recorded'
    <2> SUFFICES ASSUME ~overlap, NEW b \in Clients, rec[b].inst # NoInstall
                 PROVE  Token(rec[b].inst, rec[b].tok)'
      BY <1>3 DEF Recorded, Token, InForce
    <2>1. rec[b].inst \in Installs /\ rec[b].tok \in Nat /\ rec[b].tok <= minted
      BY <1>0 DEF Fields, Numbered
    <2>2. Token(rec[b].inst, rec[b].tok)
      BY <1>0 DEF Recorded
    <2>3. PICK i \in Installs, t \in Nat : i = rec[b].inst /\ t = rec[b].tok
      BY <2>1
    <2>4. Token(i, t)'
      BY <1>16, <2>1, <2>2, <2>3
    <2> QED
      BY <1>3, <2>3, <2>4 DEF Token, InForce
  <1>19. Answered'
    <2> SUFFICES ASSUME ~overlap, NEW b \in Clients PROVE Told(b)'
      BY <1>3 DEF Answered
    <2>1. CASE b = c /\ waits
      <3>1. reply'[b] = r /\ op[b] = q.op /\ rec[b].inst = q.inst
        BY <1>4, <1>7, <2>1
      <3>2. ASSUME q.op = "activate", r.err = "none"
            PROVE  /\ Token(reply[b].inst, reply[b].tok)'
                   /\ q.inst \in mem'.active \ {r.inst} =>
                        disk'.owner[q.inst] # disk'.owner[r.inst]
                   /\ disk' = mem'
        BY <1>2, <3>1, <3>2 DEF ActivateAnswers, Token, InForce
      <3>3. ASSUME q.op = "deactivate", r.err = "none"
            PROVE  q.inst \notin mem'.active /\ q.inst \notin disk'.active
        BY <1>2, <3>3 DEF DeactivateAnswers
      <3>4. ASSUME q.op = "deactivate", r.err = "invalid_token"
            PROVE  rec[b].tok # last'[rec[b].inst]
        <4>1. /\ q.inst \in Installs /\ rec[b].tok = q.tok
              /\ ~Holds(q.inst, q.tok) /\ last' = last
          BY <1>1, <1>2, <1>7, <2>1, <3>4 DEF DeactivateAnswers
        <4>2. Token(q.inst, q.tok)
          BY <1>0, <3>1, <4>1, ActivationAssumption DEF Recorded
        <4>3. ASSUME q.tok = last[q.inst] PROVE FALSE
          <5>1. mem.token[q.inst] = q.tok /\ q.tok # 0
            BY <1>3, <4>2, <4>3 DEF Token, InForce
          <5>2. mem.owner[q.inst] \in Licenses
            BY <1>0, <4>1, <5>1 DEF Sound, SoundData
          <5> QED
            BY <4>1, <5>1, <5>2, ActivationAssumption DEF Holds
        <4> QED
          BY <3>1, <4>1, <4>3
      <3> QED
        BY <1>3, <3>1, <3>2, <3>3, <3>4 DEF Told, Inactive
    <2>2. CASE ~(b = c /\ waits)
      <3>1. reply'[b] = reply[b]
        BY <1>4, <2>2
      <3>2. ASSUME rec[b].inst # NoInstall
            PROVE  /\ rec[b].inst \in Installs /\ disk.token[rec[b].inst] # 0
                   /\ rec[b].tok \in Nat /\ rec[b].tok <= minted
        BY <1>0, <3>2 DEF Recorded, Token, Fields, Numbered
      <3>3. ASSUME rec[b].inst # NoInstall, Inactive(rec[b].inst)
            PROVE  rec[b].inst \notin mem'.active /\ rec[b].inst \notin disk'.active
        <4>1. last[rec[b].inst] # 0
          BY <1>14, <3>2, <3>3
        <4> QED
          BY <1>2, <3>2, <3>3, <4>1 DEF Effect, Inactive
      <3>4. ASSUME op[b] = "activate", reply[b].err = "none"
            PROVE  /\ Token(reply[b].inst, reply[b].tok)'
                   /\ (/\ rec[b].inst \notin {NoInstall, reply[b].inst}
                       /\ disk'.owner[rec[b].inst] = disk'.owner[reply[b].inst])
                      => rec[b].inst \notin mem'.active /\ rec[b].inst \notin disk'.active
        <4>1. PICK i \in Installs, t \in Nat : i = reply[b].inst /\ t = reply[b].tok
          <5>1. reply[b].inst \in Installs /\ reply[b].tok \in Nat
            <6>1. reply[b].tok \in 0 .. MaxToken /\ reply[b].inst \in Installs
              BY <1>0, <3>4 DEF Replied, Fits, Fields
            <6> QED
              BY <6>1, ActivationAssumption
          <5> QED
            BY <5>1
        <4>2. t <= minted /\ Token(i, t)
          BY <1>0, <3>4, <4>1 DEF Numbered, Answered, Told
        <4>3. Token(i, t)'
          BY <1>16, <4>2
        <4>4. Token(reply[b].inst, reply[b].tok)'
          BY <3>1, <4>1, <4>3 DEF Token, InForce
        <4>5. disk'.owner[i] = disk.owner[i]
          BY <1>14, <4>2 DEF Token
        <4>6. ASSUME rec[b].inst \notin {NoInstall, i},
                     disk'.owner[rec[b].inst] = disk'.owner[i]
              PROVE  Inactive(rec[b].inst)
          <5>1. disk'.owner[rec[b].inst] = disk.owner[rec[b].inst]
            BY <1>14, <3>2, <4>6
          <5> QED
            BY <1>0, <3>4, <4>1, <4>5, <4>6, <5>1 DEF Answered, Told
        <4> QED
          BY <3>3, <4>1, <4>4, <4>6
      <3>5. ASSUME op[b] = "deactivate"
            PROVE  /\ rec[b].inst # NoInstall
                   /\ reply[b].err = "none" => Inactive(rec[b].inst)
                   /\ reply[b].err = "invalid_token" => rec[b].tok # last[rec[b].inst]
        BY <1>0, <3>5 DEF Replied, Fits, Answered, Told
      <3>6. ASSUME op[b] = "deactivate", rec[b].tok # last[rec[b].inst]
            PROVE  rec[b].tok # last'[rec[b].inst]
        BY <1>2, <1>10, <3>2, <3>5, <3>6 DEF Effect
      <3> QED
        BY <1>3, <3>1, <3>3, <3>4, <3>5, <3>6 DEF Told, Inactive
    <2> QED
      BY <2>1, <2>2
  <1>20. Ended'
    <2>1. ~overlap => mem'.status = disk'.status /\ disk'.status = disk.status
      BY <1>0, <1>2, <1>3 DEF Alone, Effect
    <2>2. ~overlap => \A l \in revoked :
             disk'.status[l] = "revoked" /\ mem'.status[l] = "revoked"
      BY <1>0, <2>1 DEF Ended
    <2>3. ASSUME ~overlap, NEW i \in removed PROVE last'[i] # 0 /\ Inactive(i)'
      <3>1. i \in Installs /\ last[i] # 0 /\ Inactive(i)
        BY <1>0, <2>3 DEF Ended, TypeOK
      <3>2. last'[i] # 0
        BY <1>2, <1>10, <3>1 DEF Effect
      <3> QED
        BY <1>15, <3>1, <3>2
    <2> QED
      BY <1>3, <2>2, <2>3 DEF Ended
  <1>21. Slots'
    <2> SUFFICES ASSUME ~overlap, NEW i \in Installs, ~Inactive(i)', i \notin stranded'
                 PROVE  \E b \in Clients : rec[b].inst = i \/ reply'[b].inst = i
      BY <1>3 DEF Slots
    <2>1. CASE i \in mem'.active \ mem.active
      <3>1. waits /\ r.err = "none"
        BY <1>5, <2>1
      <3>2. r.inst = i
        BY <1>1, <1>2, <2>1, <3>1 DEF ActivateAnswers, ValidateAnswers, DeactivateAnswers
      <3> QED
        BY <1>1, <1>4, <3>1, <3>2
    <2>2. CASE i \notin mem'.active \ mem.active
      <3>1. ~Inactive(i) /\ i \notin stranded
        BY <1>2, <1>5, <2>2 DEF Effect, Inactive
      <3>2. PICK b \in Clients : rec[b].inst = i \/ reply[b].inst = i
        BY <1>0, <3>1 DEF Slots
      <3>3. CASE rec[b].inst = i
        BY <3>3
      <3>4. CASE reply[b].inst = i
        <4>1. ~(b = c /\ waits)
          BY <1>7, <3>4, NoReplyParts, ActivationAssumption
        <4> QED
          BY <1>4, <3>4, <4>1
      <3> QED
        BY <3>2, <3>3, <3>4
    <2> QED
      BY <2>1, <2>2
  <1> QED
    BY <1>8, <1>9, <1>11, <1>12, <1>13, <1>17, <1>18, <1>19, <1>20, <1>21 DEF IInv

\* Every step of the server, its clients and the operator keeps the invariant.
LEMMA StepInv == IInv /\ [Next]_vars => IInv'
  <1> SUFFICES ASSUME IInv, [Next]_vars PROVE IInv'
    OBVIOUS
  <1>0. /\ TypeOK /\ Sound /\ Numbered /\ Wire /\ Replied
        /\ Alone /\ Recorded /\ Answered /\ Ended /\ Slots /\ Fields
    BY FieldTypes DEF IInv
  <1>1. CASE CmdOpen
    <2>0. /\ cmds < MaxCmds /\ cmds' = cmds + 1
          /\ cmd' = cmd \cup {cmds + 1}
          /\ copy' = [copy EXCEPT ![cmds + 1] = disk]
          /\ overlap' = (overlap \/ serving \/ cmd # {})
          /\ UNCHANGED <<proxy, mem, disk, expired, minted, last, serving, rec, calls, call,
                         op, net, reply, revoked, removed, stranded>>
      BY <1>1 DEF CmdOpen, storeVars, clientVars
    <2>1. /\ cmds' \in 0 .. MaxCmds /\ cmds + 1 \in 1 .. MaxCmds
          /\ cmd' \subseteq 1 .. MaxCmds
      BY <1>0, <2>0, ClientAssumption DEF TypeOK
    <2>2. TypeOK'
      <3>1. copy' \in [1 .. MaxCmds -> Data]
        BY <1>0, <2>0, <2>1 DEF TypeOK, StoreTypeOK
      <3>2. overlap' \in BOOLEAN
        BY <2>0, Zenon
      <3> QED
        BY <1>0, <2>0, <2>1, <3>1, <3>2 DEF TypeOK, StoreTypeOK
    <2>3. Sound' /\ Numbered' /\ Wire' /\ Replied'
      <3>1. \A k \in 1 .. MaxCmds : copy'[k] = copy[k] \/ copy'[k] = disk
        BY <1>0, <2>0, <2>1 DEF TypeOK
      <3>2. Sound'
        BY <1>0, <2>0, <3>1 DEF Sound
      <3> QED
        BY <1>0, <2>0, <3>2 DEF Numbered, Wire, Replied, Fits
    <2>4. Alone'
      <3>1. copy'[cmds + 1] = disk
        BY <1>0, <2>0, <2>1 DEF TypeOK
      <3>2. ~overlap' => ~overlap /\ ~serving /\ cmd' = {cmds + 1}
        BY <2>0
      <3> QED
        BY <1>0, <2>0, <3>1, <3>2 DEF Alone
    <2>5. Recorded' /\ Answered' /\ Ended' /\ Slots'
      BY <1>0, <2>0 DEF Recorded, Answered, Told, Ended, Slots, Token, InForce, Inactive
    <2> QED
      BY <2>2, <2>3, <2>4, <2>5 DEF IInv
  <1>2. CASE Serve
    <2>0. /\ ~serving /\ serving' = TRUE /\ mem' = disk
          /\ proxy' \in BOOLEAN /\ overlap' = (overlap \/ cmd # {})
          /\ UNCHANGED <<disk, expired, minted, last, cmd, copy, cmds, rec, calls, call, op,
                         net, reply, revoked, removed, stranded>>
      BY <1>2 DEF Serve, clientVars
    <2>1. TypeOK'
      BY <1>0, <2>0 DEF TypeOK, StoreTypeOK
    <2>2. Sound' /\ Numbered' /\ Wire' /\ Replied'
      BY <1>0, <2>0 DEF Sound, Numbered, Wire, Replied, Fits
    <2>3. Alone' /\ Ended' /\ Slots'
      BY <1>0, <2>0 DEF Alone, Ended, Slots, Inactive
    <2>4. Recorded' /\ Answered'
      BY <1>0, <2>0 DEF Recorded, Answered, Told, Token, InForce, Inactive
    <2> QED
      BY <2>1, <2>2, <2>3, <2>4 DEF IInv
  <1>3. CASE ServerDies
    <2>0. /\ serving /\ serving' = FALSE /\ mem' = Empty /\ proxy' = FALSE
          /\ UNCHANGED <<disk, expired, minted, last, cmd, copy, cmds, rec, calls, call, op,
                         net, reply, revoked, removed, stranded, overlap>>
      BY <1>3 DEF ServerDies, clientVars, history
    <2>1. TypeOK'
      BY <1>0, <2>0, EmptyIsData DEF TypeOK, StoreTypeOK
    <2>2. Sound' /\ Numbered' /\ Wire' /\ Replied'
      BY <1>0, <2>0, EmptyIsSound DEF Sound, Numbered, Wire, Replied, Fits
    <2>3. mem'.active = {}
      BY <2>0, EmptyIsData
    <2>4. Alone' /\ Ended' /\ Slots'
      BY <1>0, <2>0, <2>3 DEF Alone, Ended, Slots, Inactive
    <2>5. Recorded' /\ Answered'
      BY <1>0, <2>0, <2>3 DEF Recorded, Answered, Told, Token, InForce, Inactive
    <2> QED
      BY <2>1, <2>2, <2>4, <2>5 DEF IInv
  <1>4. ASSUME NEW k \in cmd, NEW l \in Licenses, CmdIssue(k, l) PROVE IInv'
    <2>1. CmdEnds(k, [copy[k] EXCEPT !.status[l] = "active"]) /\ copy[k].status[l] = "none"
          /\ revoked' = revoked
      BY <1>4 DEF CmdIssue
    <2> QED
      BY <2>1, CmdEndsInv
  <1>5. ASSUME NEW k \in cmd, NEW l \in Licenses, CmdRevoke(k, l) PROVE IInv'
    <2>1. /\ CmdEnds(k, [copy[k] EXCEPT !.status[l] = "revoked"])
          /\ \/ revoked' = revoked
             \/ /\ disk' = [copy[k] EXCEPT !.status[l] = "revoked"]
                /\ revoked' = revoked \cup {l}
      BY <1>5 DEF CmdRevoke
    <2> QED
      BY <2>1, CmdEndsInv
  <1>6. ASSUME NEW l \in Licenses, LicenseExpires(l) PROVE IInv'
    <2>0. /\ expired' = expired \cup {l}
          /\ UNCHANGED <<proxy, mem, disk, minted, last, serving, cmd, copy, cmds, rec, calls,
                         call, op, net, reply, revoked, removed, stranded, overlap>>
      BY <1>6 DEF LicenseExpires, Expire, serverVars, clientVars, history
    <2>1. TypeOK'
      BY <1>0, <2>0 DEF TypeOK, StoreTypeOK
    <2>2. Sound' /\ Numbered' /\ Wire' /\ Replied' /\ Alone'
      BY <1>0, <2>0 DEF Sound, Numbered, Wire, Replied, Fits, Alone
    <2>3. Recorded' /\ Answered' /\ Ended' /\ Slots'
      BY <1>0, <2>0 DEF Recorded, Answered, Told, Ended, Slots, Token, InForce, Inactive
    <2> QED
      BY <2>1, <2>2, <2>3 DEF IInv
  <1>7. ASSUME NEW c \in Clients, NEW l \in Licenses, SendActivate(c, l) PROVE IInv'
    BY <1>7, SendInv DEF SendActivate
  <1>8. ASSUME NEW c \in Clients, SendValidate(c) \/ SendDeactivate(c) PROVE IInv'
    <2>1. /\ rec[c] # NoRecord
          /\ \/ Send(c, "validate", NoLicense, rec[c].inst, rec[c].tok)
             \/ Send(c, "deactivate", NoLicense, rec[c].inst, rec[c].tok)
      BY <1>8 DEF SendValidate, SendDeactivate
    <2> QED
      BY <2>1, SendInv
  <1>9. ASSUME NEW c \in Clients, GiveUp(c) PROVE IInv'
    <2>1. /\ CallEnds(c) /\ rec' = rec /\ removed' = removed
          /\ stranded' = stranded \cup ({reply[c].inst} \ {NoInstall, rec[c].inst})
      BY <1>9 DEF GiveUp, CallEnds, storeVars, serverVars
    <2>2. stranded' \subseteq Installs /\ removed' \subseteq Installs
      BY <1>0, <2>1 DEF TypeOK, Fields
    <2>3. \A b \in Clients \ {c} : reply'[b] = reply[b]
      BY <1>0, <2>1 DEF CallEnds, TypeOK
    <2>4. Ended'
      BY <1>0, <2>1 DEF CallEnds, Ended, Inactive
    <2>5. Slots'
      BY <1>0, <2>1, <2>3, ActivationAssumption DEF CallEnds, Slots, Inactive
    <2> QED
      BY <2>1, <2>2, <2>4, <2>5, CallEndsInv DEF IInv
  <1>10. ASSUME NEW c \in Clients, ReceiveOther(c) PROVE IInv'
    <2>1. /\ CallEnds(c) /\ rec' = rec /\ removed' = removed /\ stranded' = stranded
          /\ op[c] = "validate" \/ (op[c] = "activate" /\ reply[c].err # "none")
      BY <1>10 DEF ReceiveOther, Returns, CallEnds, storeVars, serverVars
    <2>2. stranded' \subseteq Installs /\ removed' \subseteq Installs
      BY <1>0, <2>1 DEF TypeOK
    <2>3. \A b \in Clients \ {c} : reply'[b] = reply[b]
      BY <1>0, <2>1 DEF CallEnds, TypeOK
    <2>4. Ended'
      BY <1>0, <2>1 DEF CallEnds, Ended, Inactive
    <2>5. reply[c].inst \in {NoInstall, rec[c].inst}
      BY <1>0, <2>1 DEF Replied, Fits
    <2>6. Slots'
      BY <1>0, <2>1, <2>3, <2>5, ActivationAssumption DEF CallEnds, Slots, Inactive
    <2> QED
      BY <2>1, <2>2, <2>4, <2>6, CallEndsInv DEF IInv
  <1>11. ASSUME NEW c \in Clients, ReceiveActivation(c) PROVE IInv'
    <2>1. /\ op[c] = "activate" /\ reply[c].err = "none" /\ CallEnds(c)
          /\ removed' = removed /\ stranded \subseteq stranded'
          /\ stranded' \subseteq stranded \cup ({rec[c].inst, reply[c].inst} \ {NoInstall})
      BY <1>11 DEF ReceiveActivation, Returns, CallEnds, storeVars, serverVars
    <2>2. stranded' \subseteq Installs /\ removed' \subseteq Installs
      <3>1. stranded \subseteq Installs /\ removed \subseteq Installs
        BY <1>0 DEF TypeOK
      <3>2. {rec[c].inst, reply[c].inst} \ {NoInstall} \subseteq Installs
        BY <1>0 DEF Fields
      <3> QED
        BY <2>1, <3>1, <3>2
    <2>3. \A b \in Clients \ {c} : reply'[b] = reply[b] /\ rec'[b] = rec[b]
      BY <1>0, <2>1 DEF CallEnds, TypeOK
    <2>4. Ended'
      BY <1>0, <2>1 DEF CallEnds, Ended, Inactive
    <2>5. ~overlap => \A i \in {rec[c].inst, reply[c].inst} :
             i = NoInstall \/ Inactive(i) \/ i \in stranded' \/ rec'[c].inst = i
      <3>1. CASE /\ rec'[c].inst = reply[c].inst /\ rec[c].inst # NoInstall
                 /\ disk.owner[rec[c].inst] = disk.owner[reply[c].inst]
        BY <1>0, <2>1, <3>1 DEF Answered, Told
      <3>2. CASE ~(/\ rec'[c].inst = reply[c].inst /\ rec[c].inst # NoInstall
                   /\ disk.owner[rec[c].inst] = disk.owner[reply[c].inst])
        <4>1. {rec[c].inst, reply[c].inst} \ {NoInstall, rec'[c].inst} \subseteq stranded'
          BY <1>11, <3>2 DEF ReceiveActivation
        <4> QED
          BY <4>1
      <3> QED
        BY <3>1, <3>2
    <2>6. Slots'
      BY <1>0, <2>1, <2>3, <2>5, ActivationAssumption DEF CallEnds, Slots, Inactive
    <2> QED
      BY <2>1, <2>2, <2>4, <2>6, CallEndsInv DEF IInv
  <1>12. ASSUME NEW c \in Clients, ReceiveDeactivation(c) PROVE IInv'
    <2>0. /\ op[c] = "deactivate" /\ reply[c] # NoReply
          /\ op' = [op EXCEPT ![c] = "none"] /\ call' = [call EXCEPT ![c] = 0]
          /\ reply' = [reply EXCEPT ![c] = NoReply]
          /\ UNCHANGED <<proxy, mem, disk, expired, minted, last, serving, cmd, copy, cmds,
                         calls, net, overlap, revoked>>
      BY <1>12 DEF ReceiveDeactivation, Returns, storeVars, serverVars
    <2>1. rec[c].inst \in Installs /\ reply[c].inst = NoInstall
      BY <1>0, <2>0 DEF Replied, Fits, Fields
    <2>2. \A b \in Clients \ {c} : reply'[b] = reply[b]
      BY <1>0, <2>0 DEF TypeOK
    <2>3. CASE UNCHANGED <<rec, removed, stranded>>
      <3>1. CallEnds(c)
        BY <2>0, <2>3 DEF CallEnds
      <3>2. removed' \subseteq Installs /\ stranded' \subseteq Installs
        BY <1>0, <2>3 DEF TypeOK
      <3>3. Ended'
        BY <1>0, <2>0, <2>3 DEF Ended, Inactive
      <3>4. Slots'
        BY <1>0, <2>0, <2>1, <2>2, <2>3, ActivationAssumption DEF Slots, Inactive
      <3> QED
        BY <3>1, <3>2, <3>3, <3>4, CallEndsInv DEF IInv
    <2>4. CASE /\ Cleared(reply[c].err) /\ rec' = [rec EXCEPT ![c] = NoRecord]
               /\ IF rec[c].tok = last[rec[c].inst]
                    THEN removed' = removed \cup {rec[c].inst} /\ UNCHANGED stranded
                    ELSE stranded' = stranded \cup {rec[c].inst} /\ UNCHANGED removed
      <3>1. CallEnds(c)
        BY <2>0, <2>4 DEF CallEnds
      <3>2. /\ removed' \subseteq Installs /\ stranded' \subseteq Installs
            /\ stranded \subseteq stranded'
        BY <1>0, <2>1, <2>4 DEF TypeOK
      <3>3. ASSUME ~overlap, rec[c].tok = last[rec[c].inst]
            PROVE  last[rec[c].inst] # 0 /\ Inactive(rec[c].inst)
        <4>1. reply[c].err \in {"none", "invalid_token"}
          BY <1>0, <2>0, <2>4, NoReplyParts DEF Cleared, MapAPIError, Replied, Fits
        <4>2. Token(rec[c].inst, rec[c].tok)
          BY <1>0, <2>1, <3>3, ActivationAssumption DEF Recorded
        <4> QED
          BY <1>0, <2>0, <3>3, <4>1, <4>2 DEF Answered, Told, Token
      <3>4. Ended'
        BY <1>0, <2>0, <2>4, <3>3 DEF Ended, Inactive
      <3>5. \A b \in Clients \ {c} : rec'[b] = rec[b]
        BY <1>0, <2>4 DEF TypeOK
      <3>6. ~overlap => Inactive(rec[c].inst) \/ rec[c].inst \in stranded'
        BY <2>4, <3>3
      <3>7. Slots'
        BY <1>0, <2>0, <2>1, <2>2, <3>2, <3>5, <3>6, ActivationAssumption DEF Slots, Inactive
      <3> QED
        BY <3>1, <3>2, <3>4, <3>7, CallEndsInv DEF IInv
    <2> QED
      BY <1>12, <2>3, <2>4 DEF ReceiveDeactivation
  <1>13. ASSUME NEW q \in net, NEW r \in Answers, Handle(q, r) PROVE IInv'
    BY <1>13, HandleInv
  <1>14. CASE UNCHANGED vars
    <2>0. UNCHANGED <<proxy, mem, disk, expired, minted, last, serving, cmd, copy, cmds, rec,
                      calls, call, op, net, reply, revoked, removed, stranded, overlap>>
      BY <1>14 DEF vars, storeVars, serverVars, clientVars, history
    <2>1. TypeOK'
      BY <1>0, <2>0 DEF TypeOK, StoreTypeOK
    <2>2. Sound' /\ Numbered' /\ Wire' /\ Replied' /\ Alone'
      BY <1>0, <2>0 DEF Sound, Numbered, Wire, Replied, Fits, Alone
    <2>3. Recorded' /\ Answered' /\ Ended' /\ Slots'
      BY <1>0, <2>0 DEF Recorded, Answered, Told, Ended, Slots, Token, InForce, Inactive
    <2> QED
      BY <2>1, <2>2, <2>3 DEF IInv
  <1> QED
    BY <1>1, <1>2, <1>3, <1>4, <1>5, <1>6, <1>7, <1>8, <1>9, <1>10, <1>11, <1>12, <1>13,
       <1>14
    DEF Next

\* The inductive invariant holds in every reachable state of the service.
THEOREM Invariance == Spec => []IInv
  BY InitInv, StepInv, PTL DEF Spec

-----------------------------------------------------------------------------
(* The properties *)

\* The service's and the clients' state keeps its types.
THEOREM TypeCorrect == Spec => []TypeOK
  <1>1. IInv => TypeOK
    BY DEF IInv
  <1> QED
    BY <1>1, Invariance, PTL

\* Store.Activate counts the active installations of the license before it adds
\* one: no license ever has more than it allows, in memory or in the file,
\* whatever failed to be saved and whatever older file a command put back.
THEOREM LimitsHold == Spec => []WithinLimit
  <1>1. IInv => WithinLimit
    BY DEF IInv, Sound, SoundData, WithinLimit
  <1> QED
    BY <1>1, Invariance, PTL

\* A revocation or a deactivation that was reported done is not undone by a
\* failed save, a restart or a late request.
THEOREM EndingsHold == Spec => []EndingsStick
  <1>1. IInv => EndingsStick
    BY DEF IInv, Ended, Inactive, EndingsStick
  <1> QED
    BY <1>1, Invariance, PTL

\* The token of the last activation a client kept is the one the server accepts,
\* now and after a restart.
THEOREM TokensHold == Spec => []SavedTokenIsCurrent
  <1>1. IInv => SavedTokenIsCurrent
    BY DEF IInv, Recorded, Token, InForce, SavedTokenIsCurrent
  <1> QED
    BY <1>1, Invariance, PTL

\* No slot of a license is taken by an installation nobody can account for.
THEOREM SlotsHold == Spec => []SlotsAreAccountedFor
  <1>1. IInv => SlotsAreAccountedFor
    <2> SUFFICES ASSUME IInv, ~overlap, NEW i \in mem.active \cup disk.active
                 PROVE  \/ i \in stranded
                        \/ \E c \in Clients : rec[c].inst = i \/ reply[c].inst = i
      BY DEF SlotsAreAccountedFor
    <2>1. i \in Installs
      BY DEF IInv, TypeOK, StoreTypeOK, Data
    <2> QED
      BY <2>1 DEF IInv, Slots, Inactive
  <1> QED
    BY <1>1, Invariance, PTL
=============================================================================
