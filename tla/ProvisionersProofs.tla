------------------------- MODULE ProvisionersProofs -------------------------
(***************************************************************************)
(* The provisioners' promises, proved for any number of controllers,       *)
(* identity slots, sessions, daemons, devices, relays, starts and archive  *)
(* entries.  Each kind has an inductive invariant of its own (InstallInv,  *)
(* DecodoInv, LocalInv, MullvadInv), an XInit lemma and an XStep lemma     *)
(* with one step per action; IInv is their conjunction.                    *)
(*                                                                         *)
(* Most of what the four promise is under the condition that one process   *)
(* at a time uses the data directory (the overlap histories); the parts of *)
(* the invariants that need it say so, and the others hold in any case:    *)
(* SharedInv is about the tor directories several controllers use, Placed  *)
(* about the devices several sessions have from one file.                  *)
(***************************************************************************)
EXTENDS Provisioners, FiniteSetTheorems, TLAPS

(* The installers *)

\* Where a start has the archive open, and what all the extracted files are.
Extracting == {"entry", "writing"}
AllFiles(t) == \A e \in 1 .. Entries : tree[e] = t

\* One start installs at a time, and none does once one runs.
OneInstalls ==
  \A p, q \in Starts :
    /\ ipc[p] \in I!Installing /\ ipc[q] \in I!Installing => p = q
    /\ ipc[p] = "run" => ipc[q] \notin I!Installing

\* All files are there, or none is, unless a start is extracting.
AllOrNone ==
  (\A p \in Starts : ipc[p] \notin Extracting) => AllFiles("none") \/ AllFiles("whole")

\* A start extracts from an archive it has compared, entry after entry.
Extracts(p) ==
  /\ ipc[p] = "unzip" => path # NoFile /\ content[path] = "whole"
  /\ ipc[p] \in Extracting =>
       /\ fd[p] \in Starts /\ content[fd[p]] = "whole"
       /\ \A e \in 1 .. Entries : e < entry[p] => tree[e] = "whole"
  /\ ipc[p] = "run" => AllFiles("whole")

\* The last part is what a killed extraction and a second start break.
InstallInv ==
  /\ I!TypeOK
  /\ \A p \in Starts :
       ipc[p] \in {"idle", "download", "copy", "verify", "unzip"} => entry[p] = 1
  /\ \A p \in Starts : ipc[p] = "copy" => fd[p] \in Starts
  /\ \A p \in Starts : ipc[p] = "writing" => entry[p] <= Entries
  /\ ~broken /\ ~ioverlap => OneInstalls /\ AllOrNone /\ \A p \in Starts : Extracts(p)

\* Before the first start.
LEMMA InstallInit == I!Init => InstallInv
<1> SUFFICES ASSUME I!Init PROVE InstallInv
  OBVIOUS
<1>1. entry \in [Starts -> 1 .. Entries + 1] /\ tree \in [1 .. Entries -> {"none", "part", "whole"}]
  BY ProvisionersAssumption DEF I!Init
<1>3. I!TypeOK
  BY <1>1 DEF I!Init, I!TypeOK, I!Installing
<1>2. OneInstalls /\ AllOrNone /\ \A p \in Starts : Extracts(p)
  BY DEF I!Init, OneInstalls, AllOrNone, Extracts, AllFiles, I!Installing, Extracting
<1> QED
  BY <1>2, <1>3 DEF InstallInv, I!Init

\* Every step of a start keeps it.
LEMMA InstallStep == InstallInv /\ [I!Next]_installVars => InstallInv'
<1> SUFFICES ASSUME InstallInv, [I!Next]_installVars PROVE InstallInv'
  OBVIOUS
<1> USE ProvisionersAssumption DEF InstallInv, I!TypeOK, I!Installing, I!Goto
<1>1. ASSUME NEW p \in Starts, I!Find(p) PROVE InstallInv'
  <2>1. I!TypeOK' /\ \A q \in Starts \ {p} : ipc'[q] = ipc[q]
    BY <1>1 DEF I!Find
  <2>2. ~broken' /\ ~ioverlap' => (OneInstalls /\ AllOrNone /\ \A q \in Starts : Extracts(q))'
    <3> SUFFICES ASSUME ~broken', ~ioverlap' PROVE (OneInstalls /\ AllOrNone /\ \A q \in Starts : Extracts(q))'
      OBVIOUS
    <3>1. OneInstalls /\ AllOrNone /\ \A q \in Starts : Extracts(q) /\ ipc[q] \notin I!Installing
      BY <1>1 DEF I!Find
    <3>2. AllFiles("none") \/ AllFiles("whole")
      BY <3>1 DEF AllOrNone, Extracting
    <3>3. OneInstalls'
      BY <1>1, <3>1, <3>2 DEF I!Find, OneInstalls, Extracts, AllFiles
    <3>4. AllOrNone'
      BY <1>1, <3>2 DEF I!Find, AllOrNone, AllFiles
    <3>5. \A q \in Starts : Extracts(q)'
      BY <1>1, <3>1, <3>2 DEF I!Find, Extracts, Extracting, AllFiles
    <3> QED
      BY <3>3, <3>4, <3>5
  <2> QED
    BY <1>1, <2>1, <2>2 DEF I!Find
<1>2. ASSUME NEW p \in Starts, I!Download(p) PROVE InstallInv'
  <2>1. I!TypeOK' /\ \A q \in Starts \ {p} : ipc'[q] = ipc[q]
    <3>1. path' \in Starts \cup {NoFile}
      BY <1>2 DEF I!Download
    <3>3. content' \in [Starts -> {"wrong", "whole"}]
      BY <1>2 DEF I!Download
    <3>2. fd' \in [Starts -> Starts \cup {NoFile}]
      BY <1>2 DEF I!Download
    <3> QED
      BY <1>2, <3>1, <3>2, <3>3 DEF I!Download
  <2>2. ASSUME OneInstalls PROVE OneInstalls'
    BY <1>2, <2>2 DEF I!Download, OneInstalls
  <2>3. ASSUME AllOrNone PROVE AllOrNone'
    BY <1>2, <2>3 DEF I!Download, AllOrNone, AllFiles, Extracting
  <2>4. ASSUME OneInstalls, NEW q \in Starts, Extracts(q) PROVE Extracts(q)'
    BY <1>2, <2>4 DEF I!Download, OneInstalls, Extracts, AllFiles, Extracting
  <2> QED
    BY <1>2, <2>1, <2>2, <2>3, <2>4 DEF I!Download
<1>3. ASSUME NEW p \in Starts, I!Copy(p) PROVE InstallInv'
  <2>1. I!TypeOK' /\ \A q \in Starts \ {p} : ipc'[q] = ipc[q]
    <3>1. content' \in [Starts -> {"wrong", "whole"}]
      BY <1>3 DEF I!Copy
    <3> QED
      BY <1>3, <3>1 DEF I!Copy
  <2>2. ASSUME OneInstalls PROVE OneInstalls'
    BY <1>3, <2>2 DEF I!Copy, OneInstalls
  <2>3. ASSUME AllOrNone PROVE AllOrNone'
    BY <1>3, <2>3 DEF I!Copy, AllOrNone, AllFiles, Extracting
  <2>4. ASSUME OneInstalls, NEW q \in Starts, Extracts(q) PROVE Extracts(q)'
    BY <1>3, <2>4 DEF I!Copy, OneInstalls, Extracts, AllFiles, Extracting
  <2> QED
    BY <1>3, <2>1, <2>2, <2>3, <2>4 DEF I!Copy
<1>4. ASSUME NEW p \in Starts, I!Verify(p) PROVE InstallInv'
  <2>1. I!TypeOK' /\ \A q \in Starts \ {p} : ipc'[q] = ipc[q]
    <3>1. ipc' \in [Starts -> I!Installing \cup {"idle", "run", "error"}]
      BY <1>4 DEF I!Verify
    <3>2. path' \in Starts \cup {NoFile}
      BY <1>4 DEF I!Verify
    <3> QED
      BY <1>4, <3>1, <3>2 DEF I!Verify
  <2>2. ASSUME OneInstalls PROVE OneInstalls'
    BY <1>4, <2>2 DEF I!Verify, OneInstalls
  <2>3. ASSUME AllOrNone PROVE AllOrNone'
    BY <1>4, <2>3 DEF I!Verify, AllOrNone, AllFiles, Extracting
  <2>4. ASSUME OneInstalls, NEW q \in Starts, Extracts(q) PROVE Extracts(q)'
    BY <1>4, <2>4 DEF I!Verify, OneInstalls, Extracts, AllFiles, Extracting
  <2> QED
    BY <1>4, <2>1, <2>2, <2>3, <2>4 DEF I!Verify
<1>5. ASSUME NEW p \in Starts, I!OpenArchive(p) PROVE InstallInv'
  <2>1. I!TypeOK' /\ \A q \in Starts \ {p} : ipc'[q] = ipc[q]
    <3>1. ipc' \in [Starts -> I!Installing \cup {"idle", "run", "error"}]
      BY <1>5 DEF I!OpenArchive
    <3>2. fd' \in [Starts -> Starts \cup {NoFile}]
      BY <1>5 DEF I!OpenArchive
    <3> QED
      BY <1>5, <3>1, <3>2 DEF I!OpenArchive
  <2>2. ASSUME OneInstalls PROVE OneInstalls'
    BY <1>5, <2>2 DEF I!OpenArchive, OneInstalls
  <2>3. ASSUME OneInstalls, AllOrNone PROVE AllOrNone'
    BY <1>5, <2>3 DEF I!OpenArchive, OneInstalls, AllOrNone, AllFiles, Extracting
  <2>4. ASSUME OneInstalls, NEW q \in Starts, Extracts(q) PROVE Extracts(q)'
    BY <1>5, <2>4 DEF I!OpenArchive, OneInstalls, Extracts, AllFiles, Extracting
  <2> QED
    BY <1>5, <2>1, <2>2, <2>3, <2>4 DEF I!OpenArchive
<1>6. ASSUME NEW p \in Starts, I!OpenEntry(p) PROVE InstallInv'
  <2>1. I!TypeOK' /\ \A q \in Starts \ {p} : ipc'[q] = ipc[q]
    <3>1. ipc' \in [Starts -> I!Installing \cup {"idle", "run", "error"}]
      BY <1>6 DEF I!OpenEntry
    <3>2. tree' \in [1 .. Entries -> {"none", "part", "whole"}]
      BY <1>6 DEF I!OpenEntry
    <3>3. broken' \in BOOLEAN /\ UNCHANGED <<path, content, fd, entry, ioverlap>>
      BY <1>6 DEF I!OpenEntry
    <3>4. \A q \in Starts \ {p} : ipc'[q] = ipc[q]
      BY <1>6 DEF I!OpenEntry
    <3> QED
      BY <3>1, <3>2, <3>3, <3>4
  <2>2. ASSUME OneInstalls PROVE OneInstalls'
    BY <1>6, <2>2 DEF I!OpenEntry, OneInstalls
  <2>3. ~broken' => AllOrNone'
    BY <1>6 DEF I!OpenEntry, AllOrNone, Extracting
  <2>4. ASSUME ~broken', OneInstalls, NEW q \in Starts, Extracts(q) PROVE Extracts(q)'
    BY <1>6, <2>4 DEF I!OpenEntry, OneInstalls, Extracts, AllFiles, Extracting
  <2> QED
    BY <1>6, <2>1, <2>2, <2>3, <2>4 DEF I!OpenEntry
<1>7. ASSUME NEW p \in Starts, I!CopyEntry(p) PROVE InstallInv'
  <2>1. I!TypeOK' /\ \A q \in Starts \ {p} : ipc'[q] = ipc[q]
    <3>1. tree' \in [1 .. Entries -> {"none", "part", "whole"}]
      <4>1. tree' \in {tree, [tree EXCEPT ![entry[p]] = "whole"], [tree EXCEPT ![entry[p]] = "part"]}
        BY <1>7 DEF I!CopyEntry
      <4> QED
        BY <4>1
    <3>2. entry' \in [Starts -> 1 .. Entries + 1]
      BY <1>7 DEF I!CopyEntry
    <3>3. ipc' \in [Starts -> I!Installing \cup {"idle", "run", "error"}]
      <4>1. ipc' \in {[ipc EXCEPT ![p] = "entry"], [ipc EXCEPT ![p] = "error"]}
        BY <1>7 DEF I!CopyEntry
      <4> QED
        BY <4>1
    <3>4. broken' \in BOOLEAN /\ UNCHANGED <<path, content, fd, ioverlap>>
      BY <1>7 DEF I!CopyEntry
    <3>5. \A q \in Starts \ {p} : ipc'[q] = ipc[q]
      BY <1>7 DEF I!CopyEntry
    <3> QED
      BY <3>1, <3>2, <3>3, <3>4, <3>5
  <2>2. ASSUME OneInstalls PROVE OneInstalls'
    BY <1>7, <2>2 DEF I!CopyEntry, OneInstalls
  <2>3. ~broken' => AllOrNone'
    BY <1>7 DEF I!CopyEntry, AllOrNone, Extracting
  <2>4. ASSUME ~broken', OneInstalls, NEW q \in Starts, Extracts(q) PROVE Extracts(q)'
    <3>1. CASE q = p
      <4>1. /\ ipc'[p] = "entry" /\ fd'[p] \in Starts /\ content'[fd'[p]] = "whole"
            /\ entry'[p] = entry[p] + 1 /\ tree' = [tree EXCEPT ![entry[p]] = "whole"]
        BY <1>7, <2>4, <3>1 DEF I!CopyEntry, Extracts, Extracting
      <4>2. \A e \in 1 .. Entries : e < entry'[p] => tree'[e] = "whole"
        BY <1>7, <2>4, <3>1, <4>1 DEF I!CopyEntry, Extracts, Extracting
      <4> QED
        BY <3>1, <4>1, <4>2 DEF Extracts
    <3>2. CASE q # p
      <4>1. ipc'[q] \notin Extracting \cup {"unzip", "run"}
        BY <1>7, <2>1, <2>4, <3>2 DEF I!CopyEntry, OneInstalls, Extracting
      <4> QED
        BY <4>1 DEF Extracts
    <3> QED
      BY <3>1, <3>2
  <2>5. \A q \in Starts : ipc'[q] # "writing" => ipc[q] = ipc'[q] \/ ipc'[q] = "entry" \/ ipc'[q] = "error"
    BY <1>7 DEF I!CopyEntry
  <2>6. \A q \in Starts : ipc[q] = ipc'[q] => entry[q] = entry'[q] /\ fd[q] = fd'[q]
    BY <1>7 DEF I!CopyEntry
  <2>7. \A q \in Starts : ipc'[q] = "writing" => ipc[q] = "writing"
    BY <1>7 DEF I!CopyEntry
  <2>8. (~broken' => ~broken) /\ (~ioverlap' => ~ioverlap)
    BY <1>7 DEF I!CopyEntry
  <2> QED
    BY <2>1, <2>2, <2>3, <2>4, <2>5, <2>6, <2>7, <2>8
<1>8. ASSUME NEW p \in Starts, I!Finish(p) PROVE InstallInv'
  <2>1. I!TypeOK' /\ \A q \in Starts \ {p} : ipc'[q] = ipc[q]
    BY <1>8 DEF I!Finish
  <2>2. ASSUME OneInstalls PROVE OneInstalls'
    BY <1>8, <2>2 DEF I!Finish, OneInstalls
  <2>3. ASSUME Extracts(p) PROVE AllFiles("whole")'
    BY <1>8, <2>3 DEF I!Finish, Extracts, AllFiles, Extracting
  <2>4. ASSUME OneInstalls, AllFiles("whole")', NEW q \in Starts, Extracts(q) PROVE Extracts(q)'
    BY <1>8, <2>4 DEF I!Finish, OneInstalls, Extracts, Extracting
  <2> QED
    BY <1>8, <2>1, <2>2, <2>3, <2>4 DEF I!Finish, AllOrNone
<1>9. ASSUME NEW p \in Starts, I!Killed(p) PROVE InstallInv'
  <2>1. I!TypeOK' /\ \A q \in Starts \ {p} : ipc'[q] = ipc[q]
    BY <1>9 DEF I!Killed
  <2>2. ASSUME OneInstalls PROVE OneInstalls'
    BY <1>9, <2>2 DEF I!Killed, OneInstalls
  <2>3. ASSUME ~broken', AllOrNone PROVE AllOrNone'
    BY <1>9, <2>3 DEF I!Killed, AllOrNone, AllFiles, Extracting
  <2>4. ASSUME ~broken', OneInstalls, NEW q \in Starts, Extracts(q) PROVE Extracts(q)'
    BY <1>9, <2>4 DEF I!Killed, OneInstalls, Extracts, AllFiles, Extracting
  <2> QED
    BY <1>9, <2>1, <2>2, <2>3, <2>4 DEF I!Killed
<1>10. ASSUME UNCHANGED installVars PROVE InstallInv'
  BY <1>10 DEF installVars, OneInstalls, AllOrNone, Extracts, AllFiles, Extracting
<1> QED
  BY <1>1, <1>2, <1>3, <1>4, <1>5, <1>6, <1>7, <1>8, <1>9, <1>10 DEF I!Next

-----------------------------------------------------------------------------
(* Decodo *)

\* Session x is, or was, the one of slot s: in the file, in a controller's memory
\* or in use.
UsedBy(x, s) ==
  \/ state[s] = x
  \/ \E p \in Procs : sessions[p][s] = x \/ using[p][s] = x

\* A session belongs to one slot, and was minted.
SessionsOwned ==
  \A x \in 1 .. MaxSession : \A s, t \in 1 .. N :
    /\ UsedBy(x, s) => x <= minted
    /\ UsedBy(x, s) /\ UsedBy(x, t) => s = t

\* How far a controller is, and what it has by then.
Staged(p) ==
  /\ dpc[p] \in {"down", "provision"} => \A s \in 1 .. N : using[p][s] = 0
  /\ dpc[p] = "provision" => \A s \in (1 .. N) \ target[p] : sessions[p][s] # 0
  /\ dpc[p] \in {"running", "save"} => \A s \in 1 .. N : using[p][s] # 0
  /\ dpc[p] = "save" => \A s \in target[p] : sessions[p][s] # 0

\* A controller that is alone has what it uses in the file.
FileIsUsed(p) ==
  /\ \A q \in Procs : dpc[p] # "down" /\ dpc[q] # "down" => p = q
  /\ dpc[p] \in {"running", "save"} => \A s \in 1 .. N : state[s] = using[p][s]
  /\ dpc[p] = "save" => \A s \in (1 .. N) \ target[p] : sessions[p][s] = state[s]

\* Sessions belong to one slot however many controllers write the file.
DecodoInv ==
  /\ D!TypeOK
  /\ SessionsOwned
  /\ \A p \in Procs : Staged(p) /\ (~doverlap => FileIsUsed(p))

\* Nothing was minted yet.
LEMMA DecodoInit == D!Init => DecodoInv
<1> SUFFICES ASSUME D!Init PROVE DecodoInv
  OBVIOUS
<1>0. D!None \in [1 .. N -> D!Sessions] /\ 0 \in D!Sessions
  BY ProvisionersAssumption DEF D!None, D!Sessions
<1>1. D!TypeOK
  BY <1>0 DEF D!Init, D!TypeOK, D!PCs
<1>2. SessionsOwned
  BY DEF D!Init, D!None, SessionsOwned, UsedBy
<1>3. \A p \in Procs : Staged(p) /\ FileIsUsed(p)
  BY DEF D!Init, D!None, Staged, FileIsUsed
<1> QED
  BY <1>1, <1>2, <1>3 DEF DecodoInv

\* A session is used only by the slot it was minted for: a step that gives slots
\* what they had, and at most one slot the next session, keeps that.
LEMMA Minted ==
  ASSUME D!TypeOK, SessionsOwned, minted' \in Nat, minted <= minted', NEW s \in 1 .. N,
         \A x \in 1 .. MaxSession : \A t \in 1 .. N :
           UsedBy(x, t)' => \/ UsedBy(x, t)
                            \/ t = s /\ minted' = minted + 1 /\ x = minted'
  PROVE  SessionsOwned'
<1> SUFFICES ASSUME NEW x \in 1 .. MaxSession, NEW t \in 1 .. N, NEW u \in 1 .. N
             PROVE  /\ UsedBy(x, t)' => x <= minted'
                    /\ UsedBy(x, t)' /\ UsedBy(x, u)' => t = u
  BY DEF SessionsOwned
<1> QED
  BY DEF D!TypeOK, D!Sessions, SessionsOwned

\* Every step of a controller keeps it.
LEMMA DecodoStep == DecodoInv /\ [D!Next]_decodoVars => DecodoInv'
<1> SUFFICES ASSUME DecodoInv, [D!Next]_decodoVars PROVE DecodoInv'
  OBVIOUS
<1> USE ProvisionersAssumption
<1>0. /\ D!TypeOK /\ SessionsOwned /\ \A p \in Procs : Staged(p) /\ (~doverlap => FileIsUsed(p))
      /\ 1 \in 1 .. N /\ minted \in Nat /\ minted <= minted
      /\ D!None \in [1 .. N -> D!Sessions]
  <2>1. D!None \in [1 .. N -> D!Sessions]
    BY DEF D!Sessions, D!None
  <2>2. 1 \in 1 .. N /\ minted \in Nat /\ minted <= minted
    BY DEF DecodoInv, D!TypeOK, D!Sessions
  <2> QED
    BY <2>1, <2>2 DEF DecodoInv
<1>1. ASSUME NEW p \in Procs, D!Provision(p) PROVE DecodoInv'
  <2>1. D!TypeOK'
    BY <1>0, <1>1 DEF D!Provision, D!TypeOK, D!Goto, D!Loaded, D!PCs
  <2>2. SessionsOwned'
    <3>1. minted' = minted
      BY <1>1 DEF D!Provision
    <3>2. ASSUME NEW x \in 1 .. MaxSession, NEW t \in 1 .. N, UsedBy(x, t)' PROVE UsedBy(x, t)
      BY <1>0, <1>1, <3>2 DEF D!Provision, D!TypeOK, D!Loaded, UsedBy
    <3> QED
      BY <1>0, <3>1, <3>2, Minted
  <2>3. ASSUME NEW q \in Procs PROVE Staged(q)'
    BY <1>0, <1>1 DEF D!Provision, D!TypeOK, D!Goto, Staged
  <2>4. ASSUME NEW q \in Procs, ~doverlap' PROVE FileIsUsed(q)'
    BY <1>0, <1>1, <2>4 DEF D!Provision, D!TypeOK, D!Goto, FileIsUsed
  <2> QED
    BY <2>1, <2>2, <2>3, <2>4 DEF DecodoInv
<1>2. ASSUME NEW p \in Procs, D!Ensure(p) PROVE DecodoInv'
  <2>0. PICK s \in target[p] :
          /\ target' = [target EXCEPT ![p] = @ \ {s}]
          /\ \/ sessions[p][s] # 0 /\ UNCHANGED <<sessions, minted>>
             \/ /\ minted < MaxSession
                /\ minted' = minted + 1
                /\ sessions' = [sessions EXCEPT ![p][s] = minted + 1]
    BY <1>2, Zenon DEF D!Ensure
  <2>a. s \in 1 .. N /\ minted' \in D!Sessions /\ minted' \in Nat /\ minted <= minted'
    <3>1. s \in 1 .. N
      BY <1>0, <2>0 DEF D!TypeOK
    <3>2. CASE UNCHANGED minted
      BY <1>0, <3>1, <3>2 DEF D!TypeOK
    <3>3. CASE minted < MaxSession /\ minted' = minted + 1
      BY <1>0, <3>1, <3>3 DEF D!Sessions
    <3> QED
      BY <2>0, <3>2, <3>3
  <2>b. /\ \A t \in 1 .. N : sessions'[p][t] \in D!Sessions
        /\ \A t \in 1 .. N : \/ sessions'[p][t] = sessions[p][t]
                             \/ t = s /\ minted' = minted + 1 /\ sessions'[p][t] = minted'
        /\ \A t \in (1 .. N) \ target'[p] : t # s => t \notin target[p]
        /\ sessions'[p][s] # 0
    <3>1. \A t \in (1 .. N) \ target'[p] : t # s => t \notin target[p]
      BY <1>0, <2>0 DEF D!TypeOK
    <3>2. CASE sessions[p][s] # 0 /\ UNCHANGED <<sessions, minted>>
      BY <1>0, <3>1, <3>2 DEF D!TypeOK
    <3>3. CASE minted' = minted + 1 /\ sessions' = [sessions EXCEPT ![p][s] = minted + 1]
      <4>1. /\ sessions'[p][s] = minted'
            /\ \A t \in (1 .. N) \ {s} : sessions'[p][t] = sessions[p][t] /\ sessions[p][t] \in D!Sessions
        BY <1>0, <2>a, <3>3 DEF D!TypeOK
      <4> QED
        BY <1>0, <2>a, <3>1, <3>3, <4>1
    <3> QED
      BY <2>0, <3>2, <3>3
  <2>c. /\ sessions' = [sessions EXCEPT ![p] = sessions'[p]]
        /\ DOMAIN sessions'[p] = 1 .. N /\ sessions'[p] = [t \in 1 .. N |-> sessions'[p][t]]
        /\ \A q \in Procs \ {p} : sessions'[q] = sessions[q] /\ target'[q] = target[q]
    BY <1>0, <2>0, <2>a DEF D!TypeOK
  <2>d. UNCHANGED <<state, expired, dpc, using, doverlap>> /\ dpc[p] = "provision"
    BY <1>2 DEF D!Ensure
  <2>1. D!TypeOK'
    <3>1. sessions'[p] \in [1 .. N -> D!Sessions]
      BY <2>b, <2>c
    <3>2. sessions' \in [Procs -> [1 .. N -> D!Sessions]]
      BY <1>0, <2>c, <3>1 DEF D!TypeOK
    <3>3. target' \in [Procs -> SUBSET (1 .. N)]
      BY <1>0, <2>0 DEF D!TypeOK
    <3> QED
      BY <1>0, <2>a, <2>d, <3>2, <3>3 DEF D!TypeOK
  <2>2. SessionsOwned'
    <3>2. ASSUME NEW x \in 1 .. MaxSession, NEW t \in 1 .. N, UsedBy(x, t)'
          PROVE  \/ UsedBy(x, t)
                 \/ t = s /\ minted' = minted + 1 /\ x = minted'
      BY <2>b, <2>c, <2>d, <3>2 DEF UsedBy
    <3> QED
      BY <1>0, <2>a, <3>2, Minted
  <2>3. ASSUME NEW q \in Procs PROVE Staged(q)'
    BY <1>0, <2>b, <2>c, <2>d DEF Staged
  <2>4. ASSUME NEW q \in Procs, ~doverlap' PROVE FileIsUsed(q)'
    BY <1>0, <2>d, <2>4 DEF FileIsUsed
  <2> QED
    BY <2>1, <2>2, <2>3, <2>4 DEF DecodoInv
<1>3. ASSUME NEW p \in Procs, D!ProvisionSaves(p) PROVE DecodoInv'
  <2>0. /\ dpc[p] = "provision" /\ target[p] = {}
        /\ UNCHANGED <<minted, expired, target, doverlap>>
    BY <1>3 DEF D!ProvisionSaves, D!Goto
  <2>1. CASE /\ dpc' = [dpc EXCEPT ![p] = "running"]
             /\ state' = sessions[p]
             /\ using' = [using EXCEPT ![p] = sessions[p]]
             /\ UNCHANGED sessions
    <3>1. D!TypeOK'
      BY <1>0, <2>0, <2>1 DEF D!TypeOK, D!PCs
    <3>2. SessionsOwned'
      <4>1. ASSUME NEW x \in 1 .. MaxSession, NEW t \in 1 .. N, UsedBy(x, t)' PROVE UsedBy(x, t)
        BY <1>0, <2>1, <4>1 DEF D!TypeOK, UsedBy
      <4> QED
        BY <1>0, <2>0, <4>1, Minted
    <3>3. ASSUME NEW q \in Procs PROVE Staged(q)'
      BY <1>0, <2>0, <2>1 DEF D!TypeOK, Staged
    <3>4. ASSUME NEW q \in Procs, ~doverlap' PROVE FileIsUsed(q)'
      BY <1>0, <2>0, <2>1, <3>4 DEF D!TypeOK, FileIsUsed
    <3> QED
      BY <3>1, <3>2, <3>3, <3>4 DEF DecodoInv
  <2>2. CASE /\ dpc' = [dpc EXCEPT ![p] = "down"]
             /\ sessions' = [sessions EXCEPT ![p] = D!None]
             /\ UNCHANGED <<state, using>>
    <3>1. D!TypeOK'
      BY <1>0, <2>0, <2>2 DEF D!TypeOK, D!PCs
    <3>2. SessionsOwned'
      <4>1. ASSUME NEW x \in 1 .. MaxSession, NEW t \in 1 .. N, UsedBy(x, t)' PROVE UsedBy(x, t)
        BY <1>0, <2>2, <4>1 DEF D!TypeOK, D!None, UsedBy
      <4> QED
        BY <1>0, <2>0, <4>1, Minted
    <3>3. ASSUME NEW q \in Procs PROVE Staged(q)'
      BY <1>0, <2>0, <2>2 DEF D!TypeOK, Staged
    <3>4. ASSUME NEW q \in Procs, ~doverlap' PROVE FileIsUsed(q)'
      BY <1>0, <2>0, <2>2, <3>4 DEF D!TypeOK, FileIsUsed
    <3> QED
      BY <3>1, <3>2, <3>3, <3>4 DEF DecodoInv
  <2> QED
    BY <1>3, <2>1, <2>2 DEF D!ProvisionSaves, D!Goto
<1>4. ASSUME NEW p \in Procs, D!ReplaceSaves(p) PROVE DecodoInv'
  <2>0. /\ dpc[p] = "save" /\ dpc' = [dpc EXCEPT ![p] = "running"]
        /\ target' = [target EXCEPT ![p] = {}]
        /\ UNCHANGED <<sessions, minted, expired, doverlap>>
    BY <1>4 DEF D!ReplaceSaves, D!Goto
  <2>1. CASE /\ state' = sessions[p]
             /\ using' = [using EXCEPT ![p] =
                  [s \in 1 .. N |-> IF s \in target[p] THEN sessions[p][s] ELSE @[s]]]
    <3>a. /\ \A q \in Procs \ {p} : using'[q] = using[q] /\ dpc'[q] = dpc[q]
          /\ \A s \in 1 .. N : using'[p][s] = IF s \in target[p] THEN sessions[p][s] ELSE using[p][s]
      BY <1>0, <2>0, <2>1 DEF D!TypeOK
    <3>1. D!TypeOK'
      <4>1. [s \in 1 .. N |-> IF s \in target[p] THEN sessions[p][s] ELSE using[p][s]]
              \in [1 .. N -> D!Sessions]
        BY <1>0 DEF D!TypeOK
      <4>2. using' \in [Procs -> [1 .. N -> D!Sessions]]
        BY <1>0, <2>1, <4>1 DEF D!TypeOK
      <4> QED
        BY <1>0, <2>0, <2>1, <4>2 DEF D!TypeOK, D!PCs
    <3>2. SessionsOwned'
      <4>1. ASSUME NEW x \in 1 .. MaxSession, NEW t \in 1 .. N, UsedBy(x, t)' PROVE UsedBy(x, t)
        BY <2>0, <2>1, <3>a, <4>1 DEF UsedBy
      <4> QED
        BY <1>0, <2>0, <4>1, Minted
    <3>b. Staged(p) /\ dpc'[p] = "running"
      BY <1>0, <2>0 DEF D!TypeOK
    <3>3. ASSUME NEW q \in Procs PROVE Staged(q)'
      <4>1. CASE q = p
        BY <2>0, <3>a, <3>b, <4>1 DEF Staged
      <4>2. CASE q # p
        BY <1>0, <2>0, <3>a, <4>2 DEF D!TypeOK, Staged
      <4> QED
        BY <4>1, <4>2
    <3>4. ASSUME NEW q \in Procs, ~doverlap' PROVE FileIsUsed(q)'
      BY <1>0, <2>0, <2>1, <3>a, <3>4 DEF D!TypeOK, FileIsUsed
    <3> QED
      BY <3>1, <3>2, <3>3, <3>4 DEF DecodoInv
  <2>2. CASE UNCHANGED <<state, using>>
    <3>1. D!TypeOK'
      BY <1>0, <2>0, <2>2 DEF D!TypeOK, D!PCs
    <3>2. SessionsOwned'
      BY <1>0, <2>0, <2>2 DEF SessionsOwned, UsedBy
    <3>3. ASSUME NEW q \in Procs PROVE Staged(q)'
      BY <1>0, <2>0, <2>2 DEF D!TypeOK, Staged
    <3>4. ASSUME NEW q \in Procs, ~doverlap' PROVE FileIsUsed(q)'
      BY <1>0, <2>0, <2>2, <3>4 DEF D!TypeOK, FileIsUsed
    <3> QED
      BY <3>1, <3>2, <3>3, <3>4 DEF DecodoInv
  <2> QED
    BY <1>4, <2>1, <2>2 DEF D!ReplaceSaves
<1>5. ASSUME NEW p \in Procs, NEW s \in 1 .. N, D!ReplaceSession(p, s) PROVE DecodoInv'
  <2>a. minted' \in Nat /\ minted <= minted' /\ minted' = minted + 1 /\ minted' <= MaxSession
    BY <1>0, <1>5 DEF D!ReplaceSession
  <2>1. D!TypeOK'
    <3>1. D!Loaded(p) \in [1 .. N -> D!Sessions] /\ minted' \in D!Sessions
      BY <1>0, <2>a DEF D!TypeOK, D!Loaded, D!Sessions
    <3>2. [D!Loaded(p) EXCEPT ![s] = minted + 1] \in [1 .. N -> D!Sessions]
      BY <2>a, <3>1
    <3> QED
      BY <1>0, <1>5, <3>1, <3>2 DEF D!ReplaceSession, D!TypeOK, D!Goto, D!PCs
  <2>2. SessionsOwned'
    <3>2. ASSUME NEW x \in 1 .. MaxSession, NEW t \in 1 .. N, UsedBy(x, t)'
          PROVE  \/ UsedBy(x, t)
                 \/ t = s /\ minted' = minted + 1 /\ x = minted'
      BY <1>0, <1>5, <3>2 DEF D!ReplaceSession, D!TypeOK, D!Loaded, UsedBy
    <3> QED
      BY <1>0, <2>a, <3>2, Minted
  <2>b. /\ dpc[p] = "running" /\ dpc'[p] = "save" /\ target'[p] = {s}
        /\ sessions'[p][s] = minted + 1
        /\ \A t \in (1 .. N) \ {s} : sessions'[p][t] = D!Loaded(p)[t]
        /\ \A q \in Procs \ {p} : sessions'[q] = sessions[q] /\ dpc'[q] = dpc[q] /\ target'[q] = target[q]
        /\ UNCHANGED <<state, using, doverlap>>
    BY <1>0, <1>5 DEF D!ReplaceSession, D!TypeOK, D!Goto, D!Loaded
  <2>3. ASSUME NEW q \in Procs PROVE Staged(q)'
    BY <1>0, <2>b DEF Staged
  <2>4. ASSUME NEW q \in Procs, ~doverlap' PROVE FileIsUsed(q)'
    <3>1. Staged(p) /\ FileIsUsed(p) /\ FileIsUsed(q)
      BY <1>0, <2>4, <2>b
    <3>2. \A t \in 1 .. N : D!Loaded(p)[t] = state[t]
      BY <2>b, <3>1 DEF D!Loaded, FileIsUsed, Staged
    <3> QED
      BY <2>b, <3>1, <3>2 DEF FileIsUsed
  <2> QED
    BY <2>1, <2>2, <2>3, <2>4 DEF DecodoInv
<1>6. ASSUME NEW p \in Procs, NEW s \in 1 .. N, D!Reestablish(p, s) PROVE DecodoInv'
  <2>1. D!TypeOK'
    BY <1>0, <1>6 DEF D!Reestablish, D!TypeOK, D!Loaded
  <2>2. SessionsOwned'
    <3>1. minted' = minted
      BY <1>6 DEF D!Reestablish
    <3>2. ASSUME NEW x \in 1 .. MaxSession, NEW t \in 1 .. N, UsedBy(x, t)' PROVE UsedBy(x, t)
      BY <1>0, <1>6, <3>2 DEF D!Reestablish, D!TypeOK, D!Loaded, UsedBy
    <3> QED
      BY <1>0, <3>1, <3>2, Minted
  <2>3. ASSUME NEW q \in Procs PROVE Staged(q)'
    BY <1>0, <1>6 DEF D!Reestablish, D!TypeOK, Staged
  <2>4. ASSUME NEW q \in Procs, ~doverlap' PROVE FileIsUsed(q)'
    BY <1>0, <1>6, <2>4 DEF D!Reestablish, D!TypeOK, D!Loaded, FileIsUsed, Staged
  <2> QED
    BY <2>1, <2>2, <2>3, <2>4 DEF DecodoInv
<1>7. ASSUME NEW p \in Procs, D!Stop(p) PROVE DecodoInv'
  <2>1. D!TypeOK'
    BY <1>0, <1>7 DEF D!Stop, D!TypeOK, D!None, D!PCs, D!Sessions
  <2>2. SessionsOwned'
    <3>1. minted' = minted
      BY <1>7 DEF D!Stop
    <3>2. ASSUME NEW x \in 1 .. MaxSession, NEW t \in 1 .. N, UsedBy(x, t)' PROVE UsedBy(x, t)
      BY <1>0, <1>7, <3>2 DEF D!Stop, D!TypeOK, D!None, UsedBy
    <3> QED
      BY <1>0, <3>1, <3>2, Minted
  <2>3. ASSUME NEW q \in Procs PROVE Staged(q)'
    BY <1>0, <1>7 DEF D!Stop, D!TypeOK, D!None, Staged
  <2>4. ASSUME NEW q \in Procs, ~doverlap' PROVE FileIsUsed(q)'
    BY <1>0, <1>7, <2>4 DEF D!Stop, D!TypeOK, FileIsUsed
  <2> QED
    BY <2>1, <2>2, <2>3, <2>4 DEF DecodoInv
<1>8. ASSUME NEW x \in 1 .. MaxSession, D!SessionExpires(x) PROVE DecodoInv'
  BY <1>0, <1>8 DEF DecodoInv, D!SessionExpires, D!TypeOK, SessionsOwned, UsedBy, Staged,
     FileIsUsed
<1>9. ASSUME UNCHANGED decodoVars PROVE DecodoInv'
  BY <1>0, <1>9 DEF DecodoInv, decodoVars, D!TypeOK, SessionsOwned, UsedBy, Staged, FileIsUsed
<1> QED
  BY <1>1, <1>2, <1>3, <1>4, <1>5, <1>6, <1>7, <1>8, <1>9 DEF D!Next

-----------------------------------------------------------------------------
(* The local Tor provisioner *)

\* Where the goroutine of a slot can be in each phase.
Phased(s) ==
  /\ phase \in {"new", "up", "failed", "closed"} => at[s] = "idle"
  /\ phase = "booting" => at[s] \in {"boot", "check", "booted", "err"}
  /\ phase = "serving" => at[s] \in {"idle", "stopOld", "restart", "recheck", "repin", "back"}

\* The daemon a boot made and the slot's own are daemons that were made for the
\* slot, and two different ones.
Manned(s) ==
  /\ next[s] # NoDaemon <=> at[s] \in {"check", "booted", "recheck", "repin"}
  /\ slots[s] # NoDaemon <=> phase \in {"up", "serving"}
  /\ next[s] # NoDaemon => proc[next[s]] # "none" /\ dir[next[s]] = s /\ next[s] # slots[s]
  /\ slots[s] # NoDaemon => proc[slots[s]] # "none" /\ dir[slots[s]] = s

\* While the slot is restarted its old daemon is dead, and the pin copied from it
\* is still its pin.
Restarts(s) ==
  at[s] \in {"restart", "recheck", "repin"} =>
    proc[slots[s]] # "running" /\ pin[s] = pinned[slots[s]]

\* What is handed back is configured with its pin.
HandedBack(s) ==
  at[s] = "back" => pinned[slots[s]] = NoExit \/ conf[slots[s]] = pinned[slots[s]]

\* A running tor belongs to the slot whose directory it uses.
Belongs(d) ==
  proc[d] = "running" => dir[d] \in 1 .. N /\ d \in {next[dir[d]], slots[dir[d]]}

\* What holds of a slot.
SlotInv(s) == Phased(s) /\ Manned(s) /\ Restarts(s) /\ HandedBack(s)

\* What holds of every slot, and of every daemon.
LocalInv ==
  /\ L!OwnTypes
  /\ \A s \in 1 .. N : SlotInv(s)
  /\ \A d \in Daemons : Belongs(d)

\* Before Provision there is no daemon.
LEMMA LocalInit == L!Init => LocalInv
<1> SUFFICES ASSUME L!Init PROVE LocalInv
  OBVIOUS
<1>1. L!OwnTypes
  BY ProvisionersAssumption DEF L!Init, L!OwnTypes, L!Places
<1>2. \A s \in 1 .. N : SlotInv(s)
  BY DEF L!Init, SlotInv, Phased, Manned, Restarts, HandedBack
<1>3. \A d \in Daemons : Belongs(d)
  BY DEF L!Init, Belongs
<1> QED
  BY <1>1, <1>2, <1>3 DEF LocalInv

\* A boot of a slot (by Provision, or of the daemon that replaces a dead one)
\* launches a process in a directory nobody uses.
LEMMA LaunchInv ==
  ASSUME LocalInv, NEW s \in 1 .. N, NEW to,
         \/ at[s] = "boot" /\ to = "check"
         \/ at[s] = "restart" /\ to = "recheck",
         L!Launch(s, at[s], to)
  PROVE  LocalInv'
<1> USE ProvisionersAssumption
<1>1. PICK d \in Daemons :
        /\ at' = [at EXCEPT ![s] = to]
        /\ proc[d] = "none"
        /\ proc' = [proc EXCEPT ![d] = "running"]
        /\ dir' = [dir EXCEPT ![d] = s]
        /\ next' = [next EXCEPT ![s] = d]
        /\ UNCHANGED <<phase, slots, pin, ctrl, pinned, conf>>
  BY DEF L!Launch, L!Step
<1>2. L!OwnTypes'
  BY <1>1 DEF LocalInv, L!OwnTypes, L!Places
<1>3. ASSUME NEW t \in 1 .. N PROVE SlotInv(t)'
  <2>1. Phased(t) /\ Manned(t) /\ Restarts(t) /\ HandedBack(t)
    BY DEF LocalInv, SlotInv
  <2>2. Phased(t)' /\ Restarts(t)' /\ HandedBack(t)'
    BY <1>1, <2>1 DEF LocalInv, L!OwnTypes, Phased, Manned, Restarts, HandedBack
  <2>3. Manned(t)'
    BY <1>1, <2>1 DEF LocalInv, L!OwnTypes, Phased, Manned
  <2> QED
    BY <2>2, <2>3 DEF SlotInv
<1>4. ASSUME NEW e \in Daemons PROVE Belongs(e)'
  <2>1. Belongs(e) /\ Manned(s)
    BY DEF LocalInv, SlotInv
  <2> QED
    BY <1>1, <2>1 DEF LocalInv, L!OwnTypes, Belongs, Manned
<1> QED
  BY <1>2, <1>3, <1>4 DEF LocalInv

\* A step that leaves a slot's goroutine where it is and its daemons as they are,
\* dead at worst, keeps what holds of the slot.
LEMMA Untouched ==
  ASSUME LocalInv, NEW t \in 1 .. N, phase' = phase,
         at'[t] = at[t], next'[t] = next[t], slots'[t] = slots[t], pin'[t] = pin[t],
         \A d \in Daemons : d \in {next[t], slots[t]} =>
            /\ proc'[d] \in {proc[d], "dead"}
            /\ dir'[d] = dir[d] /\ pinned'[d] = pinned[d] /\ conf'[d] = conf[d]
  PROVE  SlotInv(t)'
<1>1. SlotInv(t) /\ L!OwnTypes
  BY DEF LocalInv
<1>2. Phased(t)' /\ Restarts(t)' /\ HandedBack(t)'
  BY <1>1, ProvisionersAssumption DEF L!OwnTypes, SlotInv, Phased, Manned, Restarts, HandedBack
<1>3. Manned(t)'
  BY <1>1, ProvisionersAssumption DEF L!OwnTypes, SlotInv, Manned
<1> QED
  BY <1>2, <1>3 DEF SlotInv

\* The daemons of two slots are different ones.
LEMMA Apart ==
  ASSUME LocalInv, NEW s \in 1 .. N, NEW t \in 1 .. N, s # t, NEW d \in Daemons,
         d \in {next[s], slots[s]}
  PROVE  d \notin {next[t], slots[t]}
<1>1. Manned(s) /\ Manned(t)
  BY DEF LocalInv, SlotInv
<1> QED
  BY <1>1, ProvisionersAssumption DEF Manned

\* A boot that waits for its tor has it running, or has killed it and let go of it.
LEMMA BootstrapInv ==
  ASSUME LocalInv, NEW s \in 1 .. N, NEW to, NEW failed,
         \/ at[s] = "check" /\ to = "booted" /\ failed = "err"
         \/ at[s] = "recheck" /\ to = "repin" /\ failed = "idle",
         L!Bootstrap(s, at[s], to, failed),
         UNCHANGED <<phase, slots, dir, pinned, conf>>,
         pin' \in [1 .. N -> Exits \cup {NoExit}],
         \A t \in 1 .. N : t # s \/ at'[s] # "idle" => pin'[t] = pin[t]
  PROVE  LocalInv'
<1> USE ProvisionersAssumption
<1>0. L!OwnTypes /\ Phased(s) /\ Manned(s) /\ Restarts(s)
  BY DEF LocalInv, SlotInv
<1>1. next[s] \in Daemons
  BY <1>0 DEF L!OwnTypes, Manned
<1>2. \/ /\ at' = [at EXCEPT ![s] = to] /\ UNCHANGED <<proc, next>>
         /\ ctrl' = [ctrl EXCEPT ![next[s]] = TRUE]
      \/ /\ at' = [at EXCEPT ![s] = failed] /\ UNCHANGED ctrl
         /\ proc' = [proc EXCEPT ![next[s]] = "dead"] /\ next' = [next EXCEPT ![s] = NoDaemon]
  BY DEF L!Bootstrap, L!Step
<1>3. /\ \A d \in Daemons : proc'[d] \in {proc[d], "dead"}
      /\ \A t \in 1 .. N : t # s => at'[t] = at[t] /\ next'[t] = next[t]
      /\ \/ at'[s] = to /\ next'[s] = next[s]
         \/ at'[s] = failed /\ next'[s] = NoDaemon /\ proc'[next[s]] = "dead"
  BY <1>0, <1>1, <1>2 DEF L!OwnTypes
<1>4. L!OwnTypes'
  <2>1. at' \in [1 .. N -> L!Places]
    BY <1>0, <1>2 DEF L!OwnTypes, L!Places
  <2>2. proc' \in [Daemons -> {"none", "running", "dead"}] /\ ctrl' \in [Daemons -> BOOLEAN]
    BY <1>0, <1>2 DEF L!OwnTypes
  <2>3. next' \in [1 .. N -> Daemons \cup {NoDaemon}]
    BY <1>0, <1>2 DEF L!OwnTypes
  <2> QED
    BY <1>0, <2>1, <2>2, <2>3 DEF L!OwnTypes
<1>5. ASSUME NEW t \in 1 .. N, t # s PROVE SlotInv(t)'
  BY <1>3, <1>5, Untouched
<1>6. SlotInv(s)'
  <2>1. Phased(s)' /\ HandedBack(s)'
    BY <1>0, <1>3 DEF Phased, HandedBack
  <2>2. Manned(s)'
    <3>1. slots[s] # NoDaemon => slots[s] \in Daemons /\ proc'[slots[s]] # "none"
      BY <1>0, <1>3 DEF L!OwnTypes, Manned
    <3>2. proc'[next[s]] # "none"
      BY <1>0, <1>1, <1>3 DEF L!OwnTypes, Manned
    <3> QED
      BY <1>0, <1>1, <1>3, <3>1, <3>2 DEF Manned
  <2>3. Restarts(s)'
    <3>1. CASE at[s] = "check"
      BY <1>0, <1>3, <3>1 DEF Restarts
    <3>2. CASE at[s] = "recheck"
      <4>1. slots[s] \in Daemons
        BY <1>0, <3>2 DEF Phased, L!OwnTypes
      <4> QED
        BY <1>0, <1>3, <3>2, <4>1 DEF Restarts
    <3> QED
      BY <3>1, <3>2
  <2> QED
    BY <2>1, <2>2, <2>3 DEF SlotInv
<1>7. ASSUME NEW d \in Daemons PROVE Belongs(d)'
  <2>1. Belongs(d)
    BY DEF LocalInv
  <2>2. CASE d = next[s]
    BY <1>0, <1>1, <1>3, <2>1, <2>2 DEF Belongs, Manned
  <2>3. CASE d # next[s]
    BY <1>0, <1>3, <2>1, <2>3 DEF Belongs
  <2> QED
    BY <2>2, <2>3
<1> QED
  BY <1>4, <1>5, <1>6, <1>7 DEF LocalInv

\* Every step of the provisioner, of a slot's goroutine and of a tor keeps it, and
\* the other controllers do not touch it.
LEMMA LocalStep == LocalInv /\ [L!Next]_localVars => LocalInv'
<1> SUFFICES ASSUME LocalInv, [L!Next]_localVars PROVE LocalInv'
  OBVIOUS
<1> USE ProvisionersAssumption
<1>0. /\ L!OwnTypes
      /\ \A s \in 1 .. N : SlotInv(s) /\ Phased(s) /\ Manned(s) /\ Restarts(s) /\ HandedBack(s)
      /\ \A d \in Daemons : Belongs(d)
  BY DEF LocalInv, SlotInv
<1>1. ASSUME L!Provision PROVE LocalInv'
  <2>1. L!OwnTypes'
    BY <1>0, <1>1 DEF L!Provision, L!slotVars, L!torVars, L!OwnTypes, L!Places
  <2>2. ASSUME NEW t \in 1 .. N PROVE SlotInv(t)'
    BY <1>0, <1>1 DEF L!Provision, L!slotVars, L!torVars, L!OwnTypes, SlotInv, Phased, Manned,
       Restarts, HandedBack
  <2>3. ASSUME NEW d \in Daemons PROVE Belongs(d)'
    BY <1>0, <1>1 DEF L!Provision, L!slotVars, L!torVars, Belongs
  <2> QED
    BY <2>1, <2>2, <2>3 DEF LocalInv
<1>2. ASSUME L!Collect PROVE LocalInv'
  <2>0. /\ phase = "booting" /\ at' = [s \in 1 .. N |-> "idle"] /\ next' = [s \in 1 .. N |-> NoDaemon]
        /\ UNCHANGED <<pin, dir, pinned, conf>>
        /\ \A s \in 1 .. N : at[s] \in {"booted", "err"} /\ slots[s] = NoDaemon
    BY <1>0, <1>2 DEF L!Collect, L!torVars, Manned
  <2>1. CASE L!Booted = 1 .. N
    <3>1. phase' = "up" /\ slots' = next /\ UNCHANGED <<proc, ctrl>>
      BY <1>2, <2>1 DEF L!Collect, L!torVars
    <3>2. \A s \in 1 .. N : at[s] = "booted" /\ next[s] \in Daemons
      <4>1. \A s \in 1 .. N : at[s] = "booted"
        BY <2>1 DEF L!Booted
      <4> QED
        BY <1>0, <4>1 DEF L!OwnTypes, Manned
    <3>3. L!OwnTypes'
      BY <1>0, <2>0, <3>1, <3>2 DEF L!OwnTypes, L!Places
    <3>4. ASSUME NEW t \in 1 .. N PROVE SlotInv(t)'
      BY <1>0, <2>0, <3>1, <3>2 DEF SlotInv, Phased, Manned, Restarts, HandedBack
    <3>5. ASSUME NEW d \in Daemons PROVE Belongs(d)'
      BY <1>0, <2>0, <3>1 DEF Belongs
    <3> QED
      BY <3>3, <3>4, <3>5 DEF LocalInv
  <2>2. CASE L!Booted # 1 .. N
    <3>1. /\ phase' = "failed" /\ UNCHANGED slots
          /\ L!StopDaemons({next[s] : s \in L!Booted})
      BY <1>2, <2>2 DEF L!Collect
    <3>2. ASSUME NEW d \in Daemons PROVE proc'[d] # "running"
      <4>1. CASE proc[d] = "running"
        <5>1. dir[d] \in L!Booted /\ d = next[dir[d]]
          BY <1>0, <2>0, <4>1 DEF Belongs, Manned, L!Booted
        <5> QED
          BY <3>1, <5>1 DEF L!StopDaemons
      <4>2. CASE proc[d] # "running"
        BY <3>1, <4>2 DEF L!StopDaemons
      <4> QED
        BY <4>1, <4>2
    <3>3. L!OwnTypes'
      BY <1>0, <2>0, <3>1 DEF L!OwnTypes, L!Places, L!StopDaemons
    <3>4. ASSUME NEW t \in 1 .. N PROVE SlotInv(t)'
      BY <1>0, <2>0, <3>1 DEF SlotInv, Phased, Manned, Restarts, HandedBack
    <3> QED
      BY <3>2, <3>3, <3>4 DEF LocalInv, Belongs
  <2> QED
    BY <2>1, <2>2
<1>3. ASSUME L!Serve PROVE LocalInv'
  <2>1. L!OwnTypes'
    BY <1>0, <1>3 DEF L!Serve, L!slotVars, L!torVars, L!OwnTypes, L!Places
  <2>2. ASSUME NEW t \in 1 .. N PROVE SlotInv(t)'
    BY <1>0, <1>3 DEF L!Serve, L!slotVars, L!torVars, SlotInv, Phased, Manned, Restarts,
       HandedBack
  <2>3. ASSUME NEW d \in Daemons PROVE Belongs(d)'
    BY <1>0, <1>3 DEF L!Serve, L!slotVars, L!torVars, Belongs
  <2> QED
    BY <2>1, <2>2, <2>3 DEF LocalInv
<1>4. ASSUME L!Close PROVE LocalInv'
  <2>0. /\ phase' = "closed" /\ slots' = [s \in 1 .. N |-> NoDaemon]
        /\ UNCHANGED <<at, next, pin, dir, pinned, conf>>
        /\ \A s \in 1 .. N : at[s] = "idle" /\ next[s] = NoDaemon
    BY <1>0, <1>4 DEF L!Close, Manned
  <2>1. L!OwnTypes'
    BY <1>0, <1>4 DEF L!Close, L!StopDaemons, L!OwnTypes, L!Places
  <2>2. ASSUME NEW t \in 1 .. N PROVE SlotInv(t)'
    BY <1>0, <2>0 DEF SlotInv, Phased, Manned, Restarts, HandedBack
  <2>3. ASSUME NEW d \in Daemons PROVE proc'[d] # "running"
    <3>1. CASE proc[d] = "running"
      <4>1. dir[d] \in 1 .. N /\ d = slots[dir[d]]
        BY <1>0, <2>0, <3>1 DEF Belongs
      <4> QED
        BY <1>4, <4>1 DEF L!Close, L!StopDaemons
    <3>2. CASE proc[d] # "running"
      BY <1>4, <3>2 DEF L!Close, L!StopDaemons
    <3> QED
      BY <3>1, <3>2
  <2> QED
    BY <2>1, <2>2, <2>3 DEF LocalInv, Belongs
<1>5. ASSUME NEW s \in 1 .. N, L!BootFails(s) PROVE LocalInv'
  <2>1. L!OwnTypes'
    BY <1>0, <1>5 DEF L!BootFails, L!Step, L!slotVars, L!torVars, L!OwnTypes, L!Places, Manned,
       Phased
  <2>2. ASSUME NEW t \in 1 .. N, t # s PROVE SlotInv(t)'
    <3>1. \A d \in Daemons : d \in {next[t], slots[t]} => d \notin {next[s], slots[s]}
      BY <2>2, Apart
    <3> QED
      BY <1>0, <1>5, <2>2, <3>1, Untouched DEF L!BootFails, L!Step, L!slotVars, L!torVars,
         L!OwnTypes, Manned
  <2>3. SlotInv(s)'
    <3>1. Phased(s)' /\ Restarts(s)' /\ HandedBack(s)'
      BY <1>0, <1>5 DEF L!BootFails, L!Step, L!slotVars, L!torVars, L!OwnTypes, Phased, Manned,
         Restarts, HandedBack
    <3>2. Manned(s)'
      BY <1>0, <1>5 DEF L!BootFails, L!Step, L!slotVars, L!torVars, L!OwnTypes, Phased, Manned
    <3> QED
      BY <3>1, <3>2 DEF SlotInv
  <2>4. ASSUME NEW d \in Daemons PROVE Belongs(d)'
    BY <1>0, <1>5 DEF L!BootFails, L!Step, L!slotVars, L!torVars, L!OwnTypes, Phased, Manned,
       Belongs
  <2> QED
    BY <2>1, <2>2, <2>3, <2>4 DEF LocalInv
<1>6. ASSUME NEW s \in 1 .. N, L!BootWait(s) PROVE LocalInv'
  <2>1. at[s] = "check" /\ L!Bootstrap(s, at[s], "booted", "err")
    BY <1>6 DEF L!BootWait, L!Bootstrap, L!Step
  <2> QED
    BY <1>0, <1>6, <2>1, BootstrapInv DEF L!BootWait, L!OwnTypes
<1>7. ASSUME NEW s \in 1 .. N, L!PinExit(s) PROVE LocalInv'
  <2>a. Phased(s) /\ Manned(s) /\ Restarts(s) /\ HandedBack(s) /\ L!OwnTypes
    BY <1>0
  <2>b. /\ phase = "up" /\ slots[s] \in Daemons
        /\ UNCHANGED <<phase, at, slots, next, pin, proc, dir, ctrl>>
    BY <1>7, <2>a DEF L!PinExit, L!slotVars, L!OwnTypes
  <2>1. L!OwnTypes'
    <3>1. PICK f \in Exits : /\ conf' = [conf EXCEPT ![slots[s]] = f]
                             /\ pinned' \in {pinned, [pinned EXCEPT ![slots[s]] = f]}
      BY <1>7 DEF L!PinExit
    <3>2. conf' \in [Daemons -> Exits \cup {NoExit}]
      BY <2>a, <2>b, <3>1 DEF L!OwnTypes
    <3>3. [pinned EXCEPT ![slots[s]] = f] \in [Daemons -> Exits \cup {NoExit}]
      BY <2>a, <2>b DEF L!OwnTypes
    <3>4. pinned' \in [Daemons -> Exits \cup {NoExit}]
      BY <2>a, <3>1, <3>3 DEF L!OwnTypes
    <3> QED
      BY <2>a, <2>b, <3>2, <3>4 DEF L!OwnTypes
  <2>2. ASSUME NEW t \in 1 .. N PROVE SlotInv(t)'
    BY <1>0, <2>b DEF SlotInv, Phased, Manned, Restarts, HandedBack
  <2>3. ASSUME NEW d \in Daemons PROVE Belongs(d)'
    BY <1>0, <2>b DEF Belongs
  <2> QED
    BY <2>1, <2>2, <2>3 DEF LocalInv
<1>8. ASSUME NEW s \in 1 .. N, L!Reapply(s) PROVE LocalInv'
  <2>a. Phased(s) /\ Manned(s) /\ Restarts(s) /\ HandedBack(s) /\ L!OwnTypes
    BY <1>0
  <2>b. /\ phase = "serving" /\ slots[s] \in Daemons /\ at[s] = "idle" /\ at'[s] \in {"back", "stopOld"}
        /\ UNCHANGED <<phase, slots, next, pin, proc, dir, ctrl, pinned>>
        /\ \A t \in 1 .. N : t # s => at'[t] = at[t]
        /\ \A d \in Daemons : d # slots[s] => conf'[d] = conf[d]
        /\ at'[s] = "back" => pinned[slots[s]] = NoExit \/ conf'[slots[s]] = pinned[slots[s]]
    BY <1>8, <2>a DEF L!Reapply, L!Step, L!slotVars, L!OwnTypes
  <2>1. L!OwnTypes'
    <3>1. at' \in [1 .. N -> L!Places]
      BY <1>8, <2>a DEF L!Reapply, L!Step, L!OwnTypes, L!Places
    <3>2. conf' \in [Daemons -> Exits \cup {NoExit}]
      <4>1. conf' = conf \/ conf' = [conf EXCEPT ![slots[s]] = pinned[slots[s]]]
        BY <1>8 DEF L!Reapply
      <4>2. pinned[slots[s]] \in Exits \cup {NoExit}
        BY <2>a, <2>b DEF L!OwnTypes
      <4> QED
        BY <2>a, <4>1, <4>2 DEF L!OwnTypes
    <3> QED
      BY <2>a, <2>b, <3>1, <3>2 DEF L!OwnTypes
  <2>2. ASSUME NEW t \in 1 .. N, t # s PROVE SlotInv(t)'
    <3>1. \A d \in Daemons : d \in {next[t], slots[t]} => d \notin {next[s], slots[s]}
      BY <2>2, Apart
    <3> QED
      BY <1>0, <2>b, <2>2, <3>1, Untouched DEF L!OwnTypes
  <2>3. SlotInv(s)'
    <3>1. Phased(s)' /\ Restarts(s)' /\ HandedBack(s)'
      BY <2>a, <2>b DEF Phased, Restarts, HandedBack
    <3>2. Manned(s)'
      BY <2>a, <2>b DEF Manned
    <3> QED
      BY <3>1, <3>2 DEF SlotInv
  <2>4. ASSUME NEW d \in Daemons PROVE Belongs(d)'
    BY <1>0, <2>b DEF Belongs
  <2> QED
    BY <2>1, <2>2, <2>3, <2>4 DEF LocalInv
<1>9. ASSUME NEW s \in 1 .. N, L!StopOld(s) PROVE LocalInv'
  <2>a. Phased(s) /\ Manned(s) /\ Restarts(s) /\ HandedBack(s) /\ L!OwnTypes
    BY <1>0
  <2>b. /\ at[s] = "stopOld" /\ phase = "serving" /\ slots[s] \in Daemons
        /\ at' = [at EXCEPT ![s] = "restart"] /\ pin' = [pin EXCEPT ![s] = pinned[slots[s]]]
        /\ at'[s] = "restart" /\ pin'[s] = pinned[slots[s]]
        /\ UNCHANGED <<phase, slots, next, dir, pinned, conf>>
        /\ \A t \in 1 .. N : t # s => at'[t] = at[t] /\ pin'[t] = pin[t]
        /\ proc'[slots[s]] = "dead" /\ \A d \in Daemons : proc'[d] \in {proc[d], "dead"}
    BY <1>9, <2>a DEF L!StopOld, L!StopDaemons, L!Step, L!OwnTypes, Phased
  <2>1. L!OwnTypes'
    <3>1. proc' \in [Daemons -> {"none", "running", "dead"}] /\ ctrl' \in [Daemons -> BOOLEAN]
      BY <1>9, <2>a DEF L!StopOld, L!StopDaemons, L!OwnTypes
    <3> QED
      BY <2>a, <2>b, <3>1 DEF L!OwnTypes, L!Places
  <2>2. ASSUME NEW t \in 1 .. N, t # s PROVE SlotInv(t)'
    <3>1. \A d \in Daemons : d \in {next[t], slots[t]} => d \notin {next[s], slots[s]}
      BY <2>2, Apart
    <3> QED
      BY <1>0, <2>b, <2>2, <3>1, Untouched DEF L!OwnTypes
  <2>3. SlotInv(s)'
    <3>1. Phased(s)' /\ Restarts(s)' /\ HandedBack(s)'
      BY <2>a, <2>b DEF Phased, Restarts, HandedBack
    <3>2. Manned(s)'
      BY <2>a, <2>b DEF Manned
    <3> QED
      BY <3>1, <3>2 DEF SlotInv
  <2>4. ASSUME NEW d \in Daemons PROVE Belongs(d)'
    BY <1>0, <2>b DEF Belongs
  <2> QED
    BY <2>1, <2>2, <2>3, <2>4 DEF LocalInv
<1>10. ASSUME NEW s \in 1 .. N, L!RestartFails(s) PROVE LocalInv'
  <2>a. Phased(s) /\ Manned(s) /\ Restarts(s) /\ HandedBack(s) /\ L!OwnTypes
    BY <1>0
  <2>b. /\ at[s] = "restart" /\ phase = "serving"
        /\ at' = [at EXCEPT ![s] = "idle"] /\ pin' = [pin EXCEPT ![s] = NoExit]
        /\ at'[s] = "idle"
        /\ UNCHANGED <<phase, slots, next, proc, dir, ctrl, pinned, conf>>
        /\ \A t \in 1 .. N : t # s => at'[t] = at[t] /\ pin'[t] = pin[t]
    BY <1>10, <2>a DEF L!RestartFails, L!Step, L!slotVars, L!torVars, L!OwnTypes, Phased
  <2>1. L!OwnTypes'
    BY <2>a, <2>b DEF L!OwnTypes, L!Places
  <2>2. ASSUME NEW t \in 1 .. N, t # s PROVE SlotInv(t)'
    <3>1. \A d \in Daemons : d \in {next[t], slots[t]} => d \notin {next[s], slots[s]}
      BY <2>2, Apart
    <3> QED
      BY <1>0, <2>b, <2>2, <3>1, Untouched DEF L!OwnTypes
  <2>3. SlotInv(s)'
    <3>1. Phased(s)' /\ Restarts(s)' /\ HandedBack(s)'
      BY <2>a, <2>b DEF Phased, Restarts, HandedBack
    <3>2. Manned(s)'
      BY <2>a, <2>b DEF Manned
    <3> QED
      BY <3>1, <3>2 DEF SlotInv
  <2>4. ASSUME NEW d \in Daemons PROVE Belongs(d)'
    BY <1>0, <2>b DEF Belongs
  <2> QED
    BY <2>1, <2>2, <2>3, <2>4 DEF LocalInv
<1>11. ASSUME NEW s \in 1 .. N, L!RestartWait(s) PROVE LocalInv'
  <2>1. at[s] = "recheck" /\ L!Bootstrap(s, at[s], "repin", "idle")
    BY <1>11 DEF L!RestartWait, L!Bootstrap, L!Step
  <2>2. /\ pin' \in [1 .. N -> Exits \cup {NoExit}]
        /\ \A t \in 1 .. N : t # s \/ at'[s] # "idle" => pin'[t] = pin[t]
    BY <1>0, <1>11 DEF L!RestartWait, L!OwnTypes
  <2> QED
    BY <1>11, <2>1, <2>2, BootstrapInv DEF L!RestartWait
<1>12. ASSUME NEW s \in 1 .. N, L!Repin(s) PROVE LocalInv'
  <2>a. Phased(s) /\ Manned(s) /\ Restarts(s) /\ HandedBack(s) /\ L!OwnTypes
    BY <1>0
  <2>b. /\ at[s] = "repin" /\ phase = "serving" /\ slots[s] \in Daemons /\ next[s] \in Daemons
        /\ next[s] # slots[s]
        /\ pinned' = [pinned EXCEPT ![next[s]] = pin[s]]
        /\ next' = [next EXCEPT ![s] = NoDaemon]
        /\ pin' = [pin EXCEPT ![s] = NoExit]
        /\ UNCHANGED <<phase, dir>>
    BY <1>12, <2>a DEF L!Repin, L!Step, L!OwnTypes, Phased, Manned
  <2>c. /\ \A d \in Daemons : proc'[d] \in {proc[d], "dead"}
        /\ \A d \in Daemons : d # next[s] => conf'[d] = conf[d] /\ pinned'[d] = pinned[d]
        /\ \A t \in 1 .. N : t # s => /\ at'[t] = at[t] /\ pin'[t] = pin[t]
                                      /\ next'[t] = next[t] /\ slots'[t] = slots[t]
    BY <1>12, <2>a, <2>b DEF L!Repin, L!StopDaemons, L!Step, L!OwnTypes
  <2>1. L!OwnTypes'
    <3>1. at' \in [1 .. N -> L!Places] /\ slots' \in [1 .. N -> Daemons]
      <4>1. at' \in {[at EXCEPT ![s] = "back"], [at EXCEPT ![s] = "idle"]}
        BY <1>12 DEF L!Repin, L!Step
      <4>2. slots' \in {slots, [slots EXCEPT ![s] = next[s]]}
        BY <1>12 DEF L!Repin
      <4> QED
        BY <2>a, <2>b, <4>1, <4>2 DEF L!OwnTypes, L!Places
    <3>2. proc' \in [Daemons -> {"none", "running", "dead"}] /\ ctrl' \in [Daemons -> BOOLEAN]
      <4>1. UNCHANGED <<proc, ctrl>> \/ L!StopDaemons({next[s]})
        BY <1>12 DEF L!Repin
      <4> QED
        BY <2>a, <4>1 DEF L!StopDaemons, L!OwnTypes
    <3>3. conf' \in [Daemons -> Exits \cup {NoExit}] /\ pinned' \in [Daemons -> Exits \cup {NoExit}]
      <4>1. conf' \in {conf, [conf EXCEPT ![next[s]] = pin[s]]} /\ pin[s] \in Exits \cup {NoExit}
        BY <1>12, <2>a DEF L!Repin, L!OwnTypes
      <4> QED
        BY <2>a, <2>b, <4>1 DEF L!OwnTypes
    <3>4. next' \in [1 .. N -> Daemons \cup {NoDaemon}] /\ pin' \in [1 .. N -> Exits \cup {NoExit}]
      BY <2>a, <2>b DEF L!OwnTypes
    <3> QED
      BY <2>a, <2>b, <3>1, <3>2, <3>3, <3>4 DEF L!OwnTypes
  <2>2. ASSUME NEW t \in 1 .. N, t # s PROVE SlotInv(t)'
    <3>1. \A d \in Daemons : d \in {next[t], slots[t]} => d \notin {next[s], slots[s]}
      BY <2>2, Apart
    <3> QED
      BY <1>0, <2>b, <2>c, <2>2, <3>1, Untouched DEF L!OwnTypes
  <2>d. \/ /\ at'[s] = "back" /\ slots'[s] = next[s] /\ proc'[next[s]] = proc[next[s]]
           /\ conf'[next[s]] = pin[s] /\ proc' = proc
        \/ /\ at'[s] = "idle" /\ slots'[s] = slots[s] /\ proc'[next[s]] = "dead"
    <3>1. CASE /\ L!Step(s, "repin", "back")
               /\ conf' = [conf EXCEPT ![next[s]] = pin[s]]
               /\ slots' = [slots EXCEPT ![s] = next[s]]
               /\ UNCHANGED <<proc, ctrl>>
      BY <2>a, <2>b, <3>1 DEF L!Step, L!OwnTypes
    <3>2. CASE /\ L!Step(s, "repin", "idle")
               /\ L!StopDaemons({next[s]})
               /\ UNCHANGED slots
      BY <2>a, <2>b, <3>2 DEF L!Step, L!StopDaemons, L!OwnTypes
    <3> QED
      BY <1>12, <3>1, <3>2 DEF L!Repin
  <2>e. next'[s] = NoDaemon /\ pinned'[next[s]] = pin[s]
    BY <2>a, <2>b DEF L!OwnTypes
  <2>3. SlotInv(s)'
    <3>1. Phased(s)' /\ Restarts(s)' /\ HandedBack(s)'
      BY <2>b, <2>d, <2>e DEF Phased, Restarts, HandedBack
    <3>2. Manned(s)'
      <4>1. slots'[s] \in {next[s], slots[s]} /\ at'[s] \in {"back", "idle"}
        BY <2>d
      <4>2. \A d \in {next[s], slots[s]} : proc'[d] # "none" /\ dir'[d] = s /\ d # NoDaemon
        <5>1. /\ proc[next[s]] # "none" /\ proc[slots[s]] # "none" /\ dir[next[s]] = s /\ dir[slots[s]] = s
              /\ next[s] # NoDaemon /\ slots[s] # NoDaemon
          BY <2>a, <2>b DEF Manned
        <5>2. proc'[next[s]] # "none" /\ proc'[slots[s]] # "none"
          BY <2>b, <2>c, <5>1
        <5>3. dir' = dir
          BY <2>b
        <5> QED
          BY <5>1, <5>2, <5>3
      <4> QED
        BY <2>b, <2>e, <4>1, <4>2 DEF Manned
    <3> QED
      BY <3>1, <3>2 DEF SlotInv
  <2>4. ASSUME NEW d \in Daemons PROVE Belongs(d)'
    <3>1. CASE proc'[d] = "running"
      <4>1. proc[d] = "running" /\ Belongs(d) /\ dir'[d] = dir[d] /\ proc[slots[s]] # "running"
        BY <1>0, <2>a, <2>b, <2>c, <3>1 DEF Restarts
      <4>2. CASE dir[d] = s
        BY <2>d, <3>1, <4>1, <4>2 DEF Belongs
      <4>3. CASE dir[d] # s
        BY <2>c, <4>1, <4>3 DEF Belongs
      <4> QED
        BY <4>2, <4>3
    <3> QED
      BY <3>1 DEF Belongs
  <2> QED
    BY <2>1, <2>2, <2>3, <2>4 DEF LocalInv
<1>13. ASSUME NEW s \in 1 .. N, L!Handed(s) PROVE LocalInv'
  <2>a. Phased(s) /\ Manned(s) /\ Restarts(s) /\ HandedBack(s) /\ L!OwnTypes
    BY <1>0
  <2>b. /\ at[s] = "back" /\ phase = "serving"
        /\ at' = [at EXCEPT ![s] = "idle"] /\ UNCHANGED pin
        /\ at'[s] = "idle"
        /\ UNCHANGED <<phase, slots, next, proc, dir, ctrl, pinned, conf>>
        /\ \A t \in 1 .. N : t # s => at'[t] = at[t] /\ pin'[t] = pin[t]
    BY <1>13, <2>a DEF L!Handed, L!Step, L!slotVars, L!torVars, L!OwnTypes, Phased
  <2>1. L!OwnTypes'
    BY <2>a, <2>b DEF L!OwnTypes, L!Places
  <2>2. ASSUME NEW t \in 1 .. N, t # s PROVE SlotInv(t)'
    <3>1. \A d \in Daemons : d \in {next[t], slots[t]} => d \notin {next[s], slots[s]}
      BY <2>2, Apart
    <3> QED
      BY <1>0, <2>b, <2>2, <3>1, Untouched DEF L!OwnTypes
  <2>3. SlotInv(s)'
    <3>1. Phased(s)' /\ Restarts(s)' /\ HandedBack(s)'
      BY <2>a, <2>b DEF Phased, Restarts, HandedBack
    <3>2. Manned(s)'
      BY <2>a, <2>b DEF Manned
    <3> QED
      BY <3>1, <3>2 DEF SlotInv
  <2>4. ASSUME NEW d \in Daemons PROVE Belongs(d)'
    BY <1>0, <2>b DEF Belongs
  <2> QED
    BY <2>1, <2>2, <2>3, <2>4 DEF LocalInv
<1>14. ASSUME NEW e \in Daemons, L!TorDies(e) PROVE LocalInv'
  <2>1. L!OwnTypes'
    BY <1>0, <1>14 DEF L!TorDies, L!slotVars, L!OwnTypes, L!Places
  <2>2. ASSUME NEW t \in 1 .. N PROVE SlotInv(t)'
    BY <1>0, <1>14, Untouched DEF L!TorDies, L!slotVars, L!OwnTypes
  <2>3. ASSUME NEW d \in Daemons PROVE Belongs(d)'
    BY <1>0, <1>14 DEF L!TorDies, L!slotVars, L!OwnTypes, Belongs
  <2> QED
    BY <2>1, <2>2, <2>3 DEF LocalInv
<1>15. ASSUME NEW s \in 1 .. N, L!BootLaunch(s) \/ L!RestartLaunch(s) PROVE LocalInv'
  BY <1>15, LaunchInv DEF L!BootLaunch, L!RestartLaunch, L!Launch, L!Step
<1>16. ASSUME UNCHANGED <<phase, at, slots, next, pin, proc, dir, ctrl, pinned, conf>>
       PROVE  LocalInv'
  BY <1>0, <1>16 DEF LocalInv, L!OwnTypes, SlotInv, Phased, Manned, Restarts,
     HandedBack, Belongs
<1>17. ASSUME NEW s \in 1 .. N, L!OtherBoots(s) \/ L!OtherEnds(s) PROVE LocalInv'
  BY <1>16, <1>17 DEF L!OtherBoots, L!OtherEnds, L!slotVars, L!torVars
<1>18. ASSUME L!OwnStep PROVE LocalInv'
  BY <1>2, <1>3, <1>4, <1>5, <1>6, <1>7, <1>8, <1>9, <1>10, <1>11, <1>12, <1>13, <1>14,
     <1>15, <1>18 DEF L!OwnStep
<1> QED
  BY <1>1, <1>16, <1>17, <1>18 DEF L!Next, localVars

\* A controller that has not begun, or is done, has no tor.
LEMMA NoneRuns ==
  ASSUME LocalInv, phase \in {"new", "failed", "closed"}, NEW d \in Daemons
  PROVE  proc[d] # "running"
<1> SUFFICES ASSUME proc[d] = "running" PROVE FALSE
  OBVIOUS
<1>1. PICK s \in 1 .. N : d \in {next[s], slots[s]}
  BY DEF LocalInv, Belongs
<1>2. Phased(s) /\ Manned(s)
  BY DEF LocalInv, SlotInv
<1> QED
  BY <1>1, <1>2, ProvisionersAssumption DEF Phased, Manned

\* The directories of the data directory: as long as one controller at a time had
\* tors, either there are none of others or this one has none.
SharedInv ==
  /\ others \subseteq 1 .. N /\ loverlap \in BOOLEAN
  /\ ~loverlap => others = {} \/ phase \in {"new", "failed", "closed"}

\* Whoever boots a slot has the history look at the others.
LEMMA SharedStep == L!OwnTypes /\ SharedInv /\ [L!Next]_localVars => SharedInv'
<1> SUFFICES ASSUME L!OwnTypes, SharedInv, [L!Next]_localVars PROVE SharedInv'
  OBVIOUS
<1>1. ASSUME L!Provision PROVE SharedInv'
  BY <1>1 DEF SharedInv, L!Provision
<1>2. ASSUME NEW s \in 1 .. N, L!OtherBoots(s) PROVE SharedInv'
  <2>1. CASE phase \in {"booting", "up", "serving"}
    BY <1>2, <2>1 DEF SharedInv, L!OtherBoots
  <2>2. CASE phase \notin {"booting", "up", "serving"}
    BY <1>2, <2>2 DEF SharedInv, L!OtherBoots, L!OwnTypes
  <2> QED
    BY <2>1, <2>2
<1>3. ASSUME NEW s \in 1 .. N, L!OtherEnds(s) PROVE SharedInv'
  BY <1>3 DEF SharedInv, L!OtherEnds
<1>4. ASSUME L!OwnStep, UNCHANGED <<others, loverlap>> PROVE SharedInv'
  <2>1. phase' = phase \/ phase \in {"booting", "up", "serving"}
    BY <1>4 DEF L!OwnStep, L!Collect, L!Serve, L!Close, L!BootLaunch, L!BootFails,
       L!BootWait, L!PinExit, L!Reapply, L!StopOld, L!RestartFails, L!RestartLaunch,
       L!RestartWait, L!Repin, L!Handed, L!TorDies, L!Launch
  <2> QED
    BY <1>4, <2>1 DEF SharedInv
<1>5. ASSUME UNCHANGED localVars PROVE SharedInv'
  BY <1>5 DEF SharedInv, localVars
<1> QED
  BY <1>1, <1>2, <1>3, <1>4, <1>5 DEF L!Next, L!dirVars

-----------------------------------------------------------------------------
(* Mullvad *)

\* A file, on disk or in memory: its devices are registered, no two slots have the
\* same one, and without an account there are none.
Whole(f) ==
  /\ \A s \in 1 .. N : f.device[s] # NoDevice => owner[f.device[s]] # NoAccount
  /\ \A s, t \in 1 .. N : f.device[s] # NoDevice /\ f.device[s] = f.device[t] => s = t
  /\ f.account = NoAccount => \A s \in 1 .. N : f.device[s] = NoDevice

\* What a process has in memory: no device, or what is in the file.
Empty(p) == \A s \in 1 .. N : mem[p].device[s] = NoDevice
Same(p) == \A s \in 1 .. N : mem[p].device[s] = file.device[s]

\* What a command or session has by the time it gets somewhere.
Equipped(p) ==
  /\ mpc[p] = "down" => Empty(p)
  /\ mpc[p] \in {"login", "ensure", "create", "ready", "running"} => mem[p].account # NoAccount
  /\ mpc[p] \in {"ready", "running"} => \A s \in want[p] : mem[p].device[s] # NoDevice

\* The relays of a session are different ones, and marked as used.
Routed(p) ==
  mpc[p] = "running" =>
    /\ \A s \in want[p] : route[p][s] \in used[p]
    /\ \A s, t \in want[p] : route[p][s] = route[p][t] => s = t

\* How the memory of a process that is alone relates to the file.
Synced(p) ==
  /\ \A q \in Procs : mpc[p] # "down" /\ mpc[q] # "down" => p = q
  /\ mpc[p] \in {"login", "open"} => Same(p) \/ Empty(p)
  /\ mpc[p] = "login" /\ ~bad /\ file.account = mem[p].account => Same(p)
  /\ mpc[p] \in {"ensure", "create", "ready", "running"} => file.account = mem[p].account
  /\ mpc[p] \in {"ensure", "ready", "running"} => Same(p)
  /\ mpc[p] = "create" => \A s \in 1 .. N : file.device[s] # NoDevice =>
                            mem[p].device[s] = file.device[s]

\* Device d is in the file, or in the memory of a process.
Held(d) ==
  \E s \in 1 .. N : file.device[s] = d \/ \E p \in Procs : mem[p].device[s] = d

\* Every registered device is known of.
Accounted == \A d \in Devices : owner[d] # NoAccount => d \in stray \/ Held(d)

\* Files are whole and relays are apart in any case; devices are accounted for as
\* long as one process at a time runs.
MullvadInv ==
  /\ M!TypeOK
  /\ Whole(file) /\ \A p \in Procs : Whole(mem[p])
  /\ \A p \in Procs : Equipped(p)
  /\ \A p \in Procs : Routed(p)
  /\ ~moverlap => Accounted /\ \A p \in Procs : Synced(p)

\* Nobody is logged in.
LEMMA MullvadInit == M!Init => MullvadInv
<1> SUFFICES ASSUME M!Init PROVE MullvadInv
  OBVIOUS
<1> USE ProvisionersAssumption
<1>1. M!NoProviderFile \in M!File /\ M!NoProviderFile.account = NoAccount
      /\ \A s \in 1 .. N : M!NoProviderFile.device[s] = NoDevice
  BY DEF M!NoProviderFile, M!Blank, M!File, M!Slots
<1>2. M!TypeOK
  BY <1>1 DEF M!Init, M!TypeOK, M!NoRoute, M!Slots
<1>3. Whole(file) /\ \A p \in Procs : Whole(mem[p])
  BY <1>1 DEF M!Init, Whole
<1>4. \A p \in Procs : Equipped(p) /\ Routed(p) /\ Synced(p)
  BY <1>1 DEF M!Init, Equipped, Empty, Routed, Synced
<1>5. Accounted
  BY DEF M!Init, Accounted
<1> QED
  BY <1>2, <1>3, <1>4, <1>5 DEF MullvadInv

\* The fields of a file.
LEMMA FileParts ==
  M!TypeOK => /\ file.account \in Accounts \cup {NoAccount}
              /\ file.device \in [1 .. N -> Devices \cup {NoDevice}]
              /\ \A p \in Procs : /\ mem[p] \in M!File
                                  /\ mem[p].account \in Accounts \cup {NoAccount}
                                  /\ mem[p].device \in [1 .. N -> Devices \cup {NoDevice}]
  BY DEF M!TypeOK, M!File, M!Slots

\* The file a login starts from when there is none.
LEMMA BlankParts ==
  ASSUME NEW a \in Accounts \cup {NoAccount}
  PROVE  /\ M!Blank(a) \in M!File /\ M!Blank(a).account = a
         /\ \A s \in 1 .. N : M!Blank(a).device[s] = NoDevice
  BY DEF M!Blank, M!File, M!Slots

\* As many relays as slots: no two slots have the same one.
LEMMA OneEach ==
  ASSUME NEW W \in SUBSET (1 .. N), NEW f \in [W -> Relays],
         Cardinality({f[s] : s \in W}) = Cardinality(W)
  PROVE  \A s, t \in W : f[s] = f[t] => s = t
<1> DEFINE R == {f[s] : s \in W}
<1>0. IsFiniteSet(1 .. N)
  <2>1. 1 \in Int /\ N \in Int
    BY ProvisionersAssumption
  <2> QED
    BY <2>1, FS_Interval
<1>1. IsFiniteSet(W)
  BY <1>0, FS_Subset
<1>2. f \in Surjection(W, R)
  BY DEF Surjection
<1> QED
  BY <1>1, <1>2, FS_SurjSameCardinalityImpliesInj DEF Injection, IsInjective

\* Mullvad counts as every module does.
LEMMA SameCount == ASSUME NEW S PROVE M!Cardinality(S) = Cardinality(S)
  BY DEF M!Cardinality, Cardinality

\* A process ends: what it had registered and not saved is written down as stray.
LEMMA GoneInv ==
  ASSUME MullvadInv, NEW p \in Procs, mpc[p] # "down", M!Gone(p),
         UNCHANGED <<file, bad, moverlap>>,
         owner' \in [Devices -> Accounts \cup {NoAccount}],
         \A d \in Devices : owner[d] # NoAccount => owner'[d] # NoAccount,
         stray \subseteq stray', stray' \subseteq Devices,
         \A d \in Devices : owner'[d] # NoAccount => owner[d] # NoAccount \/ d \in stray',
         mpc[p] = "create" => \A s \in 1 .. N :
           \/ mem[p].device[s] \in stray' \cup {NoDevice}
           \/ \E t \in 1 .. N : mem[p].device[s] = file.device[t]
  PROVE  MullvadInv'
<1> USE ProvisionersAssumption
<1>0. /\ M!TypeOK /\ Whole(file) /\ \A q \in Procs : Whole(mem[q]) /\ Equipped(q) /\ Routed(q)
      /\ ~moverlap => Accounted /\ \A q \in Procs : Synced(q)
  BY DEF MullvadInv
<1>a. /\ mpc' = [mpc EXCEPT ![p] = "down"] /\ mpc'[p] = "down"
      /\ mem' = [mem EXCEPT ![p] = M!NoProviderFile] /\ mem'[p] = M!NoProviderFile
      /\ want' = [want EXCEPT ![p] = {}] /\ used' = [used EXCEPT ![p] = {}]
      /\ route' = [route EXCEPT ![p] = M!NoRoute]
  BY <1>0 DEF M!Gone, M!TypeOK
<1>b. /\ M!NoProviderFile \in M!File /\ M!NoProviderFile.account = NoAccount
      /\ \A s \in 1 .. N : M!NoProviderFile.device[s] = NoDevice
  BY BlankParts DEF M!NoProviderFile
<1>c. \A q \in Procs \ {p} : /\ mpc'[q] = mpc[q] /\ mem'[q] = mem[q] /\ want'[q] = want[q]
                            /\ used'[q] = used[q] /\ route'[q] = route[q]
  BY <1>0, <1>a DEF M!TypeOK
<1>1. M!TypeOK'
  BY <1>0, <1>a, <1>b DEF M!TypeOK, M!NoRoute, M!Slots
<1>2. Whole(file)'
  <2>1. \A s \in 1 .. N : file.device[s] # NoDevice =>
          file.device[s] \in Devices /\ owner[file.device[s]] # NoAccount
    BY <1>0, FileParts DEF Whole
  <2> QED
    BY <1>0, <2>1 DEF Whole
<1>3. ASSUME NEW q \in Procs PROVE Whole(mem[q])'
  <2>1. CASE q = p
    BY <1>a, <1>b, <2>1 DEF Whole
  <2>2. CASE q # p
    <3>1. mem'[q] = mem[q] /\ Whole(mem[q]) /\ mem[q].device \in [1 .. N -> Devices \cup {NoDevice}]
      BY <1>0, <1>c, <2>2, FileParts
    <3>2. ASSUME NEW s \in 1 .. N, mem[q].device[s] # NoDevice
          PROVE  owner'[mem[q].device[s]] # NoAccount
      <4>1. mem[q].device[s] \in Devices
        BY <3>1, <3>2
      <4>2. owner[mem[q].device[s]] # NoAccount
        BY <3>1, <3>2, Zenon DEF Whole
      <4> QED
        BY <4>1, <4>2
    <3> QED
      BY <3>1, <3>2, Zenon DEF Whole
  <2> QED
    BY <2>1, <2>2
<1>4. ASSUME NEW q \in Procs PROVE Equipped(q)' /\ Routed(q)'
  BY <1>0, <1>a, <1>b, <1>c DEF Equipped, Empty, Routed
<1>5. ASSUME ~moverlap', NEW q \in Procs PROVE Synced(q)'
  <2>1. Synced(p) /\ Synced(q)
    BY <1>0, <1>5
  <2>2. mpc'[q] = "down"
    BY <1>a, <1>c, <2>1 DEF Synced
  <2> QED
    BY <1>a, <1>c, <2>1, <2>2 DEF Synced
<1>6. ASSUME ~moverlap' PROVE Accounted'
  <2> SUFFICES ASSUME NEW d \in Devices, owner'[d] # NoAccount, d \notin stray' PROVE Held(d)'
    BY DEF Accounted
  <2>1. Held(d) /\ Synced(p)
    BY <1>0, <1>6 DEF Accounted
  <2>2. PICK s \in 1 .. N : file.device[s] = d \/ \E q \in Procs : mem[q].device[s] = d
    BY <2>1 DEF Held
  <2>3. CASE mem[p].device[s] = d
    <3>1. mpc[p] = "create" => \E t \in 1 .. N : file.device[t] = d
      BY <2>3
    <3>2. mpc[p] # "create" => file.device[s] = d
      BY <1>0, <2>1, <2>3 DEF Synced, Same, Empty, M!TypeOK
    <3> QED
      BY <3>1, <3>2 DEF Held
  <2>4. CASE mem[p].device[s] # d
    BY <1>c, <2>2, <2>4 DEF Held
  <2> QED
    BY <2>3, <2>4
<1> QED
  BY <1>1, <1>2, <1>3, <1>4, <1>5, <1>6 DEF MullvadInv

\* A step that changes neither the account nor a file, and that the other processes
\* have no part in.
LEMMA KeepsFiles ==
  ASSUME MullvadInv, M!TypeOK', NEW p \in Procs, UNCHANGED <<owner, file, mem, stray, bad>>,
         moverlap => moverlap',
         \A q \in Procs \ {p} : /\ mpc'[q] = mpc[q] /\ want'[q] = want[q]
                               /\ used'[q] = used[q] /\ route'[q] = route[q],
         Equipped(p)', Routed(p)', ~moverlap' => Synced(p)'
  PROVE  MullvadInv'
<1>0. /\ M!TypeOK /\ Whole(file) /\ \A q \in Procs : Whole(mem[q]) /\ Equipped(q) /\ Routed(q)
      /\ ~moverlap => Accounted /\ \A q \in Procs : Synced(q)
  BY DEF MullvadInv
<1>1. Whole(file)' /\ \A q \in Procs : Whole(mem[q])'
  BY <1>0 DEF Whole
<1>2. \A q \in Procs : Equipped(q)' /\ Routed(q)'
  BY <1>0 DEF Equipped, Empty, Routed
<1>3. ~moverlap' => Accounted'
  BY <1>0 DEF Accounted, Held
<1>4. ASSUME ~moverlap', NEW q \in Procs PROVE Synced(q)'
  BY <1>0, <1>4 DEF Synced, Same, Empty
<1> QED
  BY <1>1, <1>2, <1>3, <1>4 DEF MullvadInv

\* Every step of a command or a session keeps it.
LEMMA MullvadStep == MullvadInv /\ [M!Next]_mullvadVars => MullvadInv'
<1> SUFFICES ASSUME MullvadInv, [M!Next]_mullvadVars PROVE MullvadInv'
  OBVIOUS
<1> USE ProvisionersAssumption
<1>0. /\ M!TypeOK /\ Whole(file) /\ \A q \in Procs : Whole(mem[q]) /\ Equipped(q) /\ Routed(q)
      /\ ~moverlap => Accounted /\ \A q \in Procs : Synced(q)
  BY DEF MullvadInv
<1>f. /\ file.account \in Accounts \cup {NoAccount}
      /\ file.device \in [1 .. N -> Devices \cup {NoDevice}]
      /\ \A p \in Procs : /\ mem[p] \in M!File
                          /\ mem[p].account \in Accounts \cup {NoAccount}
                          /\ mem[p].device \in [1 .. N -> Devices \cup {NoDevice}]
  BY <1>0, FileParts
<1>g. /\ M!NoProviderFile \in M!File /\ M!NoProviderFile.account = NoAccount
      /\ \A s \in 1 .. N : M!NoProviderFile.device[s] = NoDevice
  BY BlankParts DEF M!NoProviderFile
<1>1. ASSUME M!Logout PROVE MullvadInv'
  <2>0. /\ file' = M!NoProviderFile /\ stray' = stray \cup M!DevicesOf(file)
        /\ moverlap' = (moverlap \/ \E q \in Procs : mpc[q] # "down")
        /\ UNCHANGED <<owner, mpc, mem, want, used, route, bad>>
    BY <1>1 DEF M!Logout, M!Begins
  <2>1. M!TypeOK'
    <3>1. M!DevicesOf(file) \subseteq Devices
      BY <1>f DEF M!DevicesOf, M!Slots
    <3>2. moverlap' \in BOOLEAN
      BY <2>0
    <3> QED
      BY <1>0, <1>g, <2>0, <3>1, <3>2 DEF M!TypeOK
  <2>2. Whole(file)' /\ \A q \in Procs : Whole(mem[q])'
    BY <1>0, <1>g, <2>0 DEF Whole
  <2>3. \A q \in Procs : Equipped(q)' /\ Routed(q)'
    BY <1>0, <2>0 DEF Equipped, Empty, Routed
  <2>4. ASSUME ~moverlap' PROVE Accounted'
    <3> SUFFICES ASSUME NEW d \in Devices, owner'[d] # NoAccount, d \notin stray' PROVE Held(d)'
      BY DEF Accounted
    <3>1. Held(d) /\ \A s \in 1 .. N : file.device[s] # d
      BY <1>0, <2>0, <2>4 DEF Accounted, M!DevicesOf, M!Slots
    <3> QED
      BY <2>0, <3>1 DEF Held
  <2>5. ASSUME ~moverlap', NEW q \in Procs PROVE Synced(q)'
    BY <1>0, <2>0, <2>5 DEF Synced
  <2> QED
    BY <2>1, <2>2, <2>3, <2>4, <2>5 DEF MullvadInv
<1>2. ASSUME NEW p \in Procs, NEW n \in 1 .. N, NEW a \in Accounts, M!LoginLoad(p, a, n) PROVE MullvadInv'
  <2>0. /\ mpc[p] = "down" /\ mpc' = [mpc EXCEPT ![p] = "login"]
        /\ want' = [want EXCEPT ![p] = 1 .. n]
        /\ moverlap' = (moverlap \/ \E q \in Procs : mpc[q] # "down")
        /\ UNCHANGED <<owner, file, used, route, stray>>
    BY <1>2 DEF M!LoginLoad, M!Goto, M!Begins
  <2>a. PICK f : /\ mem' = [mem EXCEPT ![p] = f]
                 /\ \/ f = M!Kept(a) /\ bad' = bad
                    \/ f = M!Blank(a) /\ bad' = TRUE
    BY <1>2 DEF M!LoginLoad
  <2>b. /\ f \in M!File /\ f.account = a
        /\ f = file \/ \A s \in 1 .. N : f.device[s] = NoDevice
        /\ ~bad' /\ file.account = a => f = file
    BY <1>0, <2>a, BlankParts DEF M!Kept, M!TypeOK
  <2>c. /\ mpc'[p] = "login" /\ mem'[p] = f
        /\ \A q \in Procs \ {p} : mpc'[q] = mpc[q] /\ mem'[q] = mem[q] /\ want'[q] = want[q]
    BY <1>0, <2>0, <2>a DEF M!TypeOK
  <2>1. M!TypeOK'
    <3>1. mem' \in [Procs -> M!File] /\ bad' \in BOOLEAN
      BY <1>0, <2>a, <2>b DEF M!TypeOK
    <3>2. want' \in [Procs -> SUBSET (1 .. N)]
      BY <1>0, <2>0 DEF M!TypeOK, M!Slots
    <3>3. moverlap' \in BOOLEAN
      BY <2>0
    <3> QED
      BY <1>0, <2>0, <3>1, <3>2, <3>3 DEF M!TypeOK, M!Slots
  <2>2. Whole(file)' /\ \A q \in Procs : Whole(mem[q])'
    <3>1. Whole(file)' /\ Whole(mem[p])'
      BY <1>0, <2>0, <2>b, <2>c DEF Whole
    <3>2. \A q \in Procs \ {p} : Whole(mem[q])'
      BY <1>0, <2>0, <2>c DEF Whole
    <3> QED
      BY <3>1, <3>2
  <2>3. \A q \in Procs : Equipped(q)' /\ Routed(q)'
    BY <1>0, <2>0, <2>b, <2>c DEF Equipped, Empty, Routed
  <2>4. ASSUME ~moverlap' PROVE Accounted'
    <3>1. Accounted /\ Equipped(p)
      BY <1>0, <2>0, <2>4
    <3> QED
      BY <2>0, <2>c, <3>1 DEF Accounted, Held, Equipped, Empty
  <2>5. ASSUME ~moverlap', NEW q \in Procs PROVE Synced(q)'
    <3>1. CASE q = p
      BY <2>0, <2>b, <2>c, <2>5, <3>1 DEF Synced, Same, Empty
    <3>2. CASE q # p
      BY <2>0, <2>c, <2>5, <3>2 DEF Synced
    <3> QED
      BY <3>1, <3>2
  <2> QED
    BY <2>1, <2>2, <2>3, <2>4, <2>5 DEF MullvadInv
<1>3. ASSUME NEW p \in Procs, M!LoginSave(p) PROVE MullvadInv'
  <2>0. mpc[p] = "login" /\ UNCHANGED <<owner, bad, moverlap>>
    BY <1>3 DEF M!LoginSave
  <2>1. CASE /\ mpc' = [mpc EXCEPT ![p] = "open"] /\ file' = mem[p]
             /\ stray' = stray \cup (M!DevicesOf(file) \ M!DevicesOf(mem[p]))
             /\ UNCHANGED <<mem, want, used, route>>
    <3>a. mpc'[p] = "open" /\ \A q \in Procs \ {p} : mpc'[q] = mpc[q]
      BY <1>0, <2>1 DEF M!TypeOK
    <3>1. M!TypeOK'
      <4>1. M!DevicesOf(file) \subseteq Devices
        BY <1>f DEF M!DevicesOf, M!Slots
      <4> QED
        BY <1>0, <1>f, <2>0, <2>1, <4>1 DEF M!TypeOK
    <3>2. Whole(file)' /\ \A q \in Procs : Whole(mem[q])'
      BY <1>0, <2>0, <2>1 DEF Whole
    <3>3. \A q \in Procs : Equipped(q)' /\ Routed(q)'
      BY <1>0, <2>0, <2>1, <3>a DEF Equipped, Empty, Routed
    <3>4. ASSUME ~moverlap' PROVE Accounted'
      <4> SUFFICES ASSUME NEW d \in Devices, owner'[d] # NoAccount, d \notin stray' PROVE Held(d)'
        BY DEF Accounted
      <4>1. Held(d)
        BY <1>0, <2>0, <2>1, <3>4 DEF Accounted
      <4>2. CASE \E q \in Procs : \E s \in 1 .. N : mem[q].device[s] = d
        BY <2>1, <4>2 DEF Held
      <4>3. CASE \E s \in 1 .. N : file.device[s] = d
        <5>1. d \in M!DevicesOf(mem[p])
          BY <2>1, <4>3 DEF M!DevicesOf, M!Slots
        <5> QED
          BY <2>1, <5>1 DEF Held, M!DevicesOf, M!Slots
      <4> QED
        BY <4>1, <4>2, <4>3 DEF Held
    <3>5. ASSUME ~moverlap', NEW q \in Procs PROVE Synced(q)'
      <4>1. Synced(p) /\ Synced(q)
        BY <1>0, <2>0, <3>5
      <4> QED
        BY <2>0, <2>1, <3>a, <4>1 DEF Synced, Same
    <3> QED
      BY <3>1, <3>2, <3>3, <3>4, <3>5 DEF MullvadInv
  <2>2. CASE M!Gone(p) /\ UNCHANGED <<file, stray>>
    BY <1>0, <2>0, <2>2, GoneInv DEF M!TypeOK
  <2> QED
    BY <1>3, <2>1, <2>2 DEF M!LoginSave, M!Goto
<1>4. ASSUME NEW p \in Procs, NEW n \in 1 .. N, M!Session(p, n) PROVE MullvadInv'
  <2>0. /\ mpc[p] = "down" /\ mpc' = [mpc EXCEPT ![p] = "open"]
        /\ want' = [want EXCEPT ![p] = 1 .. n]
        /\ moverlap' = (moverlap \/ \E q \in Procs : mpc[q] # "down")
        /\ UNCHANGED <<owner, file, mem, used, route, stray, bad>>
    BY <1>4 DEF M!Session, M!Goto, M!Begins
  <2>a. /\ mpc'[p] = "open" /\ \A q \in Procs \ {p} : mpc'[q] = mpc[q] /\ want'[q] = want[q]
    BY <1>0, <2>0 DEF M!TypeOK
  <2>1. M!TypeOK'
    <3>1. want' \in [Procs -> SUBSET (1 .. N)]
      BY <1>0, <2>0 DEF M!TypeOK, M!Slots
    <3>2. moverlap' \in BOOLEAN
      BY <2>0
    <3> QED
      BY <1>0, <2>0, <3>1, <3>2 DEF M!TypeOK, M!Slots
  <2>2. Equipped(p)' /\ Routed(p)'
    BY <2>a DEF Equipped, Routed
  <2>3. ASSUME ~moverlap' PROVE Synced(p)'
    <3>1. Empty(p) /\ \A q \in Procs : mpc'[q] # "down" => q = p
      BY <1>0, <2>0, <2>a, <2>3 DEF Equipped
    <3> QED
      BY <2>0, <2>a, <3>1 DEF Synced, Empty
  <2> QED
    BY <2>0, <2>1, <2>2, <2>3, <2>a, KeepsFiles
<1>5. ASSUME NEW p \in Procs, M!Open(p) PROVE MullvadInv'
  <2>0. mpc[p] = "open" /\ UNCHANGED <<owner, file, stray, bad, moverlap>>
    BY <1>5 DEF M!Open
  <2>1. CASE /\ mpc' = [mpc EXCEPT ![p] = "ensure"] /\ file # M!NoProviderFile
             /\ mem' = [mem EXCEPT ![p] = file]
             /\ UNCHANGED <<want, used, route>>
    <3>a. /\ mpc'[p] = "ensure" /\ mem'[p] = file
          /\ \A q \in Procs \ {p} : mpc'[q] = mpc[q] /\ mem'[q] = mem[q]
      BY <1>0, <2>1 DEF M!TypeOK
    <3>b. file.account # NoAccount
      <4> SUFFICES ASSUME file.account = NoAccount PROVE FALSE
        OBVIOUS
      <4>1. \A s \in 1 .. N : file.device[s] = NoDevice
        BY <1>0 DEF Whole
      <4>2. file.device = [s \in 1 .. N |-> NoDevice]
        BY <1>f, <4>1
      <4>3. file = [account |-> file.account, device |-> file.device]
        BY <1>0 DEF M!TypeOK, M!File
      <4> QED
        BY <2>1, <4>2, <4>3 DEF M!NoProviderFile, M!Blank, M!Slots
    <3>1. M!TypeOK'
      BY <1>0, <2>0, <2>1 DEF M!TypeOK
    <3>2. Whole(file)' /\ \A q \in Procs : Whole(mem[q])'
      BY <1>0, <2>0, <3>a DEF Whole
    <3>3. \A q \in Procs : Equipped(q)' /\ Routed(q)'
      BY <1>0, <2>1, <3>a, <3>b DEF Equipped, Empty, Routed
    <3>4. ASSUME ~moverlap' PROVE Accounted'
      <4>1. Accounted /\ Synced(p)
        BY <1>0, <2>0, <3>4
      <4> QED
        BY <2>0, <3>a, <4>1 DEF Accounted, Held, Synced, Same, Empty
    <3>5. ASSUME ~moverlap', NEW q \in Procs PROVE Synced(q)'
      <4>1. Synced(p) /\ Synced(q)
        BY <1>0, <2>0, <3>5
      <4> QED
        BY <2>0, <2>1, <3>a, <4>1 DEF Synced, Same
    <3> QED
      BY <3>1, <3>2, <3>3, <3>4, <3>5 DEF MullvadInv
  <2>2. CASE M!Gone(p)
    BY <1>0, <2>0, <2>2, GoneInv DEF M!TypeOK
  <2> QED
    BY <1>5, <2>1, <2>2 DEF M!Open, M!Goto
<1>6. ASSUME NEW p \in Procs, M!Token(p) PROVE MullvadInv'
  <2>0. mpc[p] = "ensure" /\ UNCHANGED <<owner, file, stray, bad, moverlap>>
    BY <1>6 DEF M!Token, M!Goto
  <2>1. CASE mpc' = [mpc EXCEPT ![p] = "create"] /\ UNCHANGED <<mem, want, used, route>>
    <3>a. mpc'[p] = "create" /\ \A q \in Procs \ {p} : mpc'[q] = mpc[q]
      BY <1>0, <2>1 DEF M!TypeOK
    <3>1. M!TypeOK'
      BY <1>0, <2>0, <2>1 DEF M!TypeOK
    <3>2. Equipped(p)' /\ Routed(p)'
      BY <1>0, <2>0, <2>1, <3>a DEF Equipped, Routed
    <3>3. ASSUME ~moverlap' PROVE Synced(p)'
      <4>1. Synced(p)
        BY <1>0, <2>0, <3>3
      <4> QED
        BY <2>0, <2>1, <3>a, <4>1 DEF Synced, Same
    <3> QED
      BY <2>0, <2>1, <3>1, <3>2, <3>3, <3>a, KeepsFiles
  <2>2. CASE M!Gone(p)
    BY <1>0, <2>0, <2>2, GoneInv DEF M!TypeOK
  <2> QED
    BY <1>6, <2>1, <2>2 DEF M!Token, M!Goto
<1>7. ASSUME NEW p \in Procs, M!NothingMissing(p) PROVE MullvadInv'
  <2>0. /\ mpc[p] = "ensure" /\ mpc' = [mpc EXCEPT ![p] = "ready"]
        /\ UNCHANGED <<owner, file, mem, want, used, route, stray, bad, moverlap>>
        /\ \A s \in want[p] : mem[p].device[s] # NoDevice
    BY <1>7 DEF M!NothingMissing, M!Missing, M!Goto
  <2>a. mpc'[p] = "ready" /\ \A q \in Procs \ {p} : mpc'[q] = mpc[q]
    BY <1>0, <2>0 DEF M!TypeOK
  <2>1. M!TypeOK'
    BY <1>0, <2>0 DEF M!TypeOK
  <2>2. Equipped(p)' /\ Routed(p)'
    BY <1>0, <2>0, <2>a DEF Equipped, Routed
  <2>3. ASSUME ~moverlap' PROVE Synced(p)'
    <3>1. Synced(p)
      BY <1>0, <2>0, <2>3
    <3> QED
      BY <2>0, <2>a, <3>1 DEF Synced, Same
  <2> QED
    BY <2>0, <2>1, <2>2, <2>3, <2>a, KeepsFiles
<1>8. ASSUME NEW p \in Procs, M!CreateDevice(p) PROVE MullvadInv'
  <2>0. PICK s \in M!Missing(p) :
          \/ M!Gone(p) /\ stray' = stray \cup M!Unsaved(p) /\ UNCHANGED owner
          \/ \E d \in Devices :
               /\ owner[d] = NoAccount
               /\ owner' = [owner EXCEPT ![d] = mem[p].account]
               /\ \/ /\ mem' = [mem EXCEPT ![p].device[s] = d]
                     /\ UNCHANGED <<mpc, want, used, route, stray>>
                  \/ M!Gone(p) /\ stray' = stray \cup {d} \cup M!Unsaved(p)
    BY <1>8, Zenon DEF M!CreateDevice
  <2>a. /\ mpc[p] = "create" /\ UNCHANGED <<file, bad, moverlap>>
        /\ s \in 1 .. N /\ mem[p].device[s] = NoDevice /\ mem[p].account \in Accounts
    BY <1>0, <1>f, <1>8 DEF M!CreateDevice, M!Missing, M!TypeOK, M!Slots, Equipped
  <2>b. /\ M!Unsaved(p) \subseteq Devices
        /\ \A t \in 1 .. N : \/ mem[p].device[t] \in M!Unsaved(p) \cup {NoDevice}
                             \/ \E u \in 1 .. N : mem[p].device[t] = file.device[u]
    BY <1>f DEF M!Unsaved, M!DevicesOf, M!Slots
  <2>1. CASE M!Gone(p) /\ stray' = stray \cup M!Unsaved(p) /\ UNCHANGED owner
    BY <1>0, <2>1, <2>a, <2>b, GoneInv DEF M!TypeOK
  <2>2. ASSUME NEW d \in Devices, owner[d] = NoAccount,
               owner' = [owner EXCEPT ![d] = mem[p].account],
               M!Gone(p), stray' = stray \cup {d} \cup M!Unsaved(p)
        PROVE  MullvadInv'
    <3>1. /\ owner' \in [Devices -> Accounts \cup {NoAccount}]
          /\ owner'[d] = mem[p].account /\ \A e \in Devices \ {d} : owner'[e] = owner[e]
      BY <1>0, <2>2, <2>a DEF M!TypeOK
    <3>2. stray \subseteq stray' /\ stray' \subseteq Devices
      BY <1>0, <2>2, <2>b DEF M!TypeOK
    <3> QED
      BY <2>2, <2>a, <2>b, <3>1, <3>2, GoneInv
  <2>3. ASSUME NEW d \in Devices, owner[d] = NoAccount,
               owner' = [owner EXCEPT ![d] = mem[p].account],
               mem' = [mem EXCEPT ![p].device[s] = d],
               UNCHANGED <<mpc, want, used, route, stray>>
        PROVE  MullvadInv'
    <3>1. /\ owner' \in [Devices -> Accounts \cup {NoAccount}] /\ owner'[d] # NoAccount
          /\ \A e \in Devices : owner[e] # NoAccount => e # d /\ owner'[e] = owner[e]
      BY <1>0, <2>3, <2>a DEF M!TypeOK
    <3>2. mem[p] = [account |-> mem[p].account, device |-> mem[p].device]
      BY <1>f DEF M!File
    <3>3. /\ mem'[p] = [account |-> mem[p].account, device |-> [mem[p].device EXCEPT ![s] = d]]
          /\ \A q \in Procs \ {p} : mem'[q] = mem[q]
      BY <1>0, <2>3, <3>2 DEF M!TypeOK
    <3>4. /\ mem'[p].account = mem[p].account /\ mem'[p].device[s] = d
          /\ \A t \in (1 .. N) \ {s} : mem'[p].device[t] = mem[p].device[t]
          /\ mem'[p] \in M!File
      BY <1>f, <2>a, <3>3 DEF M!File, M!Slots
    <3>5. M!TypeOK'
      <4>1. mem' = [mem EXCEPT ![p] = mem'[p]]
        BY <1>0, <2>3 DEF M!TypeOK
      <4>2. mem' \in [Procs -> M!File]
        BY <1>0, <3>4, <4>1 DEF M!TypeOK
      <4> QED
        BY <1>0, <2>3, <2>a, <3>1, <4>2 DEF M!TypeOK
    <3>6. Whole(file)'
      <4>1. \A t \in 1 .. N : file.device[t] # NoDevice =>
              file.device[t] \in Devices /\ owner[file.device[t]] # NoAccount
        BY <1>0, <1>f DEF Whole
      <4> QED
        BY <1>0, <2>a, <3>1, <4>1 DEF Whole
    <3>7. ASSUME NEW q \in Procs, q # p PROVE Whole(mem[q])'
      <4>1. \A t \in 1 .. N : mem[q].device[t] # NoDevice =>
              mem[q].device[t] \in Devices /\ owner[mem[q].device[t]] # NoAccount
        BY <1>0, <1>f DEF Whole
      <4>2. mem'[q] = mem[q] /\ Whole(mem[q])
        BY <1>0, <3>3, <3>7
      <4> QED
        BY <3>1, <4>1, <4>2 DEF Whole
    <3>8. Whole(mem[p])'
      <4>1. \A t \in 1 .. N : mem[p].device[t] # NoDevice =>
              mem[p].device[t] \in Devices /\ owner[mem[p].device[t]] # NoAccount
        BY <1>0, <1>f DEF Whole
      <4>2. \A t \in 1 .. N : mem[p].device[t] # d
        BY <2>3, <4>1
      <4>3. Whole(mem[p])
        BY <1>0
      <4>4. \A t \in 1 .. N : mem'[p].device[t] # NoDevice => owner'[mem'[p].device[t]] # NoAccount
        BY <3>1, <3>4, <4>1
      <4>5. \A t, u \in 1 .. N : mem'[p].device[t] # NoDevice /\ mem'[p].device[t] = mem'[p].device[u] => t = u
        BY <3>4, <4>2, <4>3 DEF Whole
      <4> QED
        BY <2>a, <3>4, <4>4, <4>5 DEF Whole
    <3>9. \A q \in Procs : Equipped(q)' /\ Routed(q)'
      <4>1. Equipped(p)' /\ Routed(p)'
        BY <2>3, <2>a, <3>4 DEF Equipped, Routed
      <4>2. \A q \in Procs \ {p} : Equipped(q)' /\ Routed(q)'
        BY <1>0, <2>3, <3>3 DEF Equipped, Empty, Routed
      <4> QED
        BY <4>1, <4>2
    <3>10. ASSUME ~moverlap' PROVE Accounted'
      <4> SUFFICES ASSUME NEW e \in Devices, owner'[e] # NoAccount, e \notin stray' PROVE Held(e)'
        BY DEF Accounted
      <4>1. CASE e = d
        BY <2>a, <3>4, <4>1 DEF Held
      <4>2. CASE e # d
        <5>1. owner[e] # NoAccount
          BY <1>0, <2>3, <4>2 DEF M!TypeOK
        <5>2. PICK t \in 1 .. N : file.device[t] = e \/ \E q \in Procs : mem[q].device[t] = e
          BY <1>0, <2>3, <2>a, <3>10, <5>1 DEF Accounted, Held
        <5>3. CASE mem[p].device[t] = e
          <6>1. t # s
            BY <2>a, <5>3
          <6> QED
            BY <3>4, <5>3, <6>1 DEF Held
        <5>4. CASE mem[p].device[t] # e
          BY <2>a, <3>3, <5>2, <5>4 DEF Held
        <5> QED
          BY <5>3, <5>4
      <4> QED
        BY <4>1, <4>2
    <3>11. ASSUME ~moverlap', NEW q \in Procs PROVE Synced(q)'
      <4>1. Synced(p) /\ Synced(q)
        BY <1>0, <2>a, <3>11
      <4>2. CASE q = p
        BY <2>3, <2>a, <3>4, <4>1, <4>2 DEF Synced
      <4>3. CASE q # p
        BY <2>3, <2>a, <3>3, <4>1, <4>3 DEF Synced
      <4> QED
        BY <4>2, <4>3
    <3> QED
      BY <3>5, <3>6, <3>7, <3>8, <3>9, <3>10, <3>11 DEF MullvadInv
  <2> QED
    BY <2>0, <2>1, <2>2, <2>3
<1>9. ASSUME NEW p \in Procs, M!SaveDevices(p) PROVE MullvadInv'
  <2>0. /\ mpc[p] = "create" /\ UNCHANGED <<owner, bad, moverlap>>
        /\ \A s \in want[p] : mem[p].device[s] # NoDevice
    BY <1>9 DEF M!SaveDevices, M!Missing
  <2>1. CASE /\ mpc' = [mpc EXCEPT ![p] = "ready"] /\ file' = mem[p]
             /\ UNCHANGED <<mem, want, used, route, stray>>
    <3>a. mpc'[p] = "ready" /\ \A q \in Procs \ {p} : mpc'[q] = mpc[q]
      BY <1>0, <2>1 DEF M!TypeOK
    <3>1. M!TypeOK'
      BY <1>0, <2>0, <2>1 DEF M!TypeOK
    <3>2. Whole(file)' /\ \A q \in Procs : Whole(mem[q])'
      BY <1>0, <2>0, <2>1 DEF Whole
    <3>3. \A q \in Procs : Equipped(q)' /\ Routed(q)'
      BY <1>0, <2>0, <2>1, <3>a DEF Equipped, Empty, Routed
    <3>4. ASSUME ~moverlap' PROVE Accounted'
      <4> SUFFICES ASSUME NEW d \in Devices, owner'[d] # NoAccount, d \notin stray' PROVE Held(d)'
        BY DEF Accounted
      <4>1. Held(d) /\ Synced(p) /\ d # NoDevice
        BY <1>0, <2>0, <2>1, <3>4 DEF Accounted
      <4> QED
        BY <2>0, <2>1, <4>1 DEF Held, Synced
    <3>5. ASSUME ~moverlap', NEW q \in Procs PROVE Synced(q)'
      <4>1. Synced(p) /\ Synced(q)
        BY <1>0, <2>0, <3>5
      <4> QED
        BY <2>0, <2>1, <3>a, <4>1 DEF Synced, Same
    <3> QED
      BY <3>1, <3>2, <3>3, <3>4, <3>5 DEF MullvadInv
  <2>2. CASE M!Gone(p) /\ stray' = stray \cup M!Unsaved(p) /\ UNCHANGED file
    <3>1. /\ M!Unsaved(p) \subseteq Devices
          /\ \A t \in 1 .. N : \/ mem[p].device[t] \in M!Unsaved(p) \cup {NoDevice}
                               \/ \E u \in 1 .. N : mem[p].device[t] = file.device[u]
      BY <1>f DEF M!Unsaved, M!DevicesOf, M!Slots
    <3> QED
      BY <1>0, <2>0, <2>2, <3>1, GoneInv DEF M!TypeOK
  <2> QED
    BY <1>9, <2>1, <2>2 DEF M!SaveDevices, M!Goto
<1>10. ASSUME NEW p \in Procs, M!Provision(p) PROVE MullvadInv'
  <2>0. /\ mpc[p] = "ready" /\ mpc' = [mpc EXCEPT ![p] = "running"]
        /\ UNCHANGED <<owner, file, mem, want, stray, bad, moverlap>>
    BY <1>10 DEF M!Provision, M!Goto
  <2>1. PICK f \in [want[p] -> Relays] :
          /\ M!Cardinality({f[s] : s \in want[p]}) = M!Cardinality(want[p])
          /\ used' = [used EXCEPT ![p] = @ \cup {f[s] : s \in want[p]}]
          /\ route' = [route EXCEPT ![p] = [s \in 1 .. N |-> IF s \in want[p] THEN f[s] ELSE NoRelay]]
    BY <1>10 DEF M!Provision, M!Picked, M!Slots
  <2>2. /\ mpc'[p] = "running" /\ want[p] \subseteq 1 .. N
        /\ used'[p] = used[p] \cup {f[s] : s \in want[p]}
        /\ \A s \in want[p] : route'[p][s] = f[s]
        /\ \A q \in Procs \ {p} : mpc'[q] = mpc[q] /\ used'[q] = used[q] /\ route'[q] = route[q]
    BY <1>0, <2>0, <2>1 DEF M!TypeOK, M!Slots
  <2>3. \A s, t \in want[p] : f[s] = f[t] => s = t
    <3>1. Cardinality({f[s] : s \in want[p]}) = Cardinality(want[p])
      BY <2>1, SameCount
    <3> QED
      BY <2>2, <3>1, OneEach
  <2>4. M!TypeOK'
    <3>1. used' \in [Procs -> SUBSET Relays]
      BY <1>0, <2>1 DEF M!TypeOK
    <3>2. [s \in 1 .. N |-> IF s \in want[p] THEN f[s] ELSE NoRelay] \in [1 .. N -> Relays \cup {NoRelay}]
      OBVIOUS
    <3>3. route' \in [Procs -> [1 .. N -> Relays \cup {NoRelay}]]
      BY <1>0, <2>1, <3>2 DEF M!TypeOK, M!Slots
    <3> QED
      BY <1>0, <2>0, <3>1, <3>3 DEF M!TypeOK, M!Slots
  <2>5. Equipped(p)'
    BY <1>0, <2>0, <2>2 DEF Equipped
  <2>6. Routed(p)'
    BY <2>0, <2>2, <2>3 DEF Routed
  <2>7. ASSUME ~moverlap' PROVE Synced(p)'
    <3>1. Synced(p)
      BY <1>0, <2>0, <2>7
    <3> QED
      BY <2>0, <2>2, <3>1 DEF Synced, Same
  <2> QED
    BY <2>0, <2>2, <2>4, <2>5, <2>6, <2>7, KeepsFiles
<1>11. ASSUME NEW p \in Procs, NEW s \in 1 .. N, M!Reestablish(p, s) PROVE MullvadInv'
  <2>0. /\ mpc[p] = "running" /\ s \in want[p]
        /\ UNCHANGED <<owner, file, mpc, mem, want, stray, bad, moverlap>>
    BY <1>11 DEF M!Reestablish
  <2>1. PICK r \in Relays :
          /\ M!Picked(p, {r}, 1)
          /\ used' = [used EXCEPT ![p] = @ \cup {route[p][s], r}]
          /\ route' = [route EXCEPT ![p][s] = r]
    BY <1>11 DEF M!Reestablish
  <2>2. /\ r \notin used[p] /\ used'[p] = used[p] \cup {route[p][s], r}
        /\ route'[p][s] = r /\ \A t \in (1 .. N) \ {s} : route'[p][t] = route[p][t]
        /\ \A q \in Procs \ {p} : used'[q] = used[q] /\ route'[q] = route[q]
    BY <1>0, <2>1 DEF M!Picked, M!TypeOK, M!Slots
  <2>3. Routed(p) /\ want[p] \subseteq 1 .. N
    BY <1>0 DEF M!TypeOK, M!Slots
  <2>4. M!TypeOK'
    <3>1. used' \in [Procs -> SUBSET Relays]
      <4>1. route[p][s] \in Relays
        BY <1>0, <2>0, <2>3 DEF Routed, M!TypeOK
      <4> QED
        BY <1>0, <2>1, <4>1 DEF M!TypeOK
    <3>2. [route[p] EXCEPT ![s] = r] \in [1 .. N -> Relays \cup {NoRelay}]
      BY <1>0 DEF M!TypeOK, M!Slots
    <3>3. route' \in [Procs -> [1 .. N -> Relays \cup {NoRelay}]]
      BY <1>0, <2>1, <3>2 DEF M!TypeOK, M!Slots
    <3> QED
      BY <1>0, <2>0, <3>1, <3>3 DEF M!TypeOK, M!Slots
  <2>5. Equipped(p)' /\ (~moverlap' => Synced(p)')
    BY <1>0, <2>0 DEF Equipped, Empty, Synced, Same
  <2>6. Routed(p)'
    BY <2>0, <2>2, <2>3 DEF Routed
  <2> QED
    BY <2>0, <2>2, <2>4, <2>5, <2>6, KeepsFiles
<1>12. ASSUME NEW p \in Procs, M!Stop(p) PROVE MullvadInv'
  <2>0. /\ mpc[p] # "down" /\ M!Gone(p) /\ UNCHANGED <<owner, file, bad, moverlap>>
        /\ stray' = IF mpc[p] = "create" THEN stray \cup M!Unsaved(p) ELSE stray
    BY <1>12 DEF M!Stop
  <2>1. /\ M!Unsaved(p) \subseteq Devices
        /\ \A t \in 1 .. N : \/ mem[p].device[t] \in M!Unsaved(p) \cup {NoDevice}
                             \/ \E u \in 1 .. N : mem[p].device[t] = file.device[u]
    BY <1>f DEF M!Unsaved, M!DevicesOf, M!Slots
  <2> QED
    BY <1>0, <2>0, <2>1, GoneInv DEF M!TypeOK
<1>13. ASSUME UNCHANGED mullvadVars PROVE MullvadInv'
  BY <1>0, <1>13 DEF MullvadInv, mullvadVars, M!TypeOK, Whole, Equipped, Empty, Routed,
     Synced, Same,
                     Accounted, Held
<1> QED
  BY <1>1, <1>2, <1>3, <1>4, <1>5, <1>6, <1>7, <1>8, <1>9, <1>10, <1>11, <1>12, <1>13
     DEF M!Next, M!Slots

\* Device d is slot s's, in the file or in the memory of a process.
InSlot(d, s) == file.device[s] = d \/ \E p \in Procs : mem[p].device[s] = d

\* A device is registered for one slot, and every process that has it has it there,
\* however many of them read and write the file.
Placed == \A d \in Devices : \A s, t \in 1 .. N : InSlot(d, s) /\ InSlot(d, t) => s = t

\* Files are copied whole, between disk and memory, or begun anew.
LEMMA Carried ==
  ASSUME NEW d \in Devices, NEW s \in 1 .. N, InSlot(d, s)',
         \/ file' = file
         \/ file'.device[s] = NoDevice
         \/ \E p \in Procs : file' = mem[p],
         \A q \in Procs : \/ mem'[q] = mem[q]
                          \/ mem'[q] = file
                          \/ mem'[q].device[s] = NoDevice
  PROVE  InSlot(d, s)
<1>1. d # NoDevice
  BY ProvisionersAssumption
<1>2. CASE file'.device[s] = d
  BY <1>1, <1>2 DEF InSlot
<1>3. CASE \E q \in Procs : mem'[q].device[s] = d
  BY <1>1, <1>3 DEF InSlot
<1> QED
  BY <1>2, <1>3 DEF InSlot

\* Only CreateDevice brings a device into a slot, and it brings one nobody has.
LEMMA PlacedStep == MullvadInv /\ Placed /\ [M!Next]_mullvadVars => Placed'
<1> SUFFICES ASSUME MullvadInv, Placed, [M!Next]_mullvadVars PROVE Placed'
  OBVIOUS
<1> USE ProvisionersAssumption
<1>0. M!TypeOK /\ Whole(file) /\ \A q \in Procs : Whole(mem[q])
  BY DEF MullvadInv
<1>f. /\ file.device \in [1 .. N -> Devices \cup {NoDevice}]
      /\ \A q \in Procs : mem[q].device \in [1 .. N -> Devices \cup {NoDevice}]
  BY <1>0, FileParts
<1>g. \A s \in 1 .. N : M!NoProviderFile.device[s] = NoDevice
  BY BlankParts DEF M!NoProviderFile
<1>k. ASSUME \A d \in Devices : \A s \in 1 .. N : InSlot(d, s)' => InSlot(d, s)
      PROVE  Placed'
  BY <1>k DEF Placed
<1>m. ASSUME NEW p \in Procs, M!Gone(p), file' = file PROVE Placed'
  <2>1. \A q \in Procs : mem'[q] = mem[q] \/ mem'[q] = M!NoProviderFile
    BY <1>0, <1>m DEF M!Gone, M!TypeOK
  <2> QED
    BY <1>g, <1>k, <1>m, <2>1, Carried
<1>1. ASSUME M!Logout PROVE Placed'
  <2>1. file' = M!NoProviderFile /\ mem' = mem
    BY <1>1 DEF M!Logout
  <2> QED
    BY <1>g, <1>k, <2>1, Carried
<1>2. ASSUME NEW p \in Procs, NEW n \in 1 .. N, NEW a \in Accounts, M!LoginLoad(p, a, n)
      PROVE  Placed'
  <2>1. /\ file' = file
        /\ mem' \in {[mem EXCEPT ![p] = file], [mem EXCEPT ![p] = M!Blank(a)]}
    BY <1>2 DEF M!LoginLoad, M!Kept
  <2>2. \A q \in Procs : mem'[q] = mem[q] \/ mem'[q] = file \/ mem'[q] = M!Blank(a)
    BY <1>0, <2>1 DEF M!TypeOK
  <2>3. \A s \in 1 .. N : M!Blank(a).device[s] = NoDevice
    BY BlankParts
  <2> QED
    BY <1>k, <2>1, <2>2, <2>3, Carried
<1>3. ASSUME NEW p \in Procs, M!LoginSave(p) \/ M!SaveDevices(p) PROVE Placed'
  <2>1. CASE file' = mem[p] /\ mem' = mem
    BY <1>k, <2>1, Carried
  <2>2. CASE M!Gone(p) /\ file' = file
    BY <1>m, <2>2
  <2> QED
    BY <1>3, <2>1, <2>2 DEF M!LoginSave, M!SaveDevices
<1>4. ASSUME NEW p \in Procs, M!Open(p) PROVE Placed'
  <2>1. CASE mem' = [mem EXCEPT ![p] = file] /\ file' = file
    <3>1. \A q \in Procs : mem'[q] = mem[q] \/ mem'[q] = file
      BY <1>0, <2>1 DEF M!TypeOK
    <3> QED
      BY <1>k, <2>1, <3>1, Carried
  <2>2. CASE M!Gone(p) /\ file' = file
    BY <1>m, <2>2
  <2> QED
    BY <1>4, <2>1, <2>2 DEF M!Open
<1>5. ASSUME NEW p \in Procs, M!Token(p) \/ M!Stop(p) PROVE Placed'
  <2>1. CASE mem' = mem /\ file' = file
    BY <1>k, <2>1, Carried
  <2>2. CASE M!Gone(p) /\ file' = file
    BY <1>m, <2>2
  <2> QED
    BY <1>5, <2>1, <2>2 DEF M!Token, M!Stop
<1>6. ASSUME NEW p \in Procs, \/ M!NothingMissing(p) \/ M!Provision(p)
                             \/ \E n \in 1 .. N : M!Session(p, n) \/ M!Reestablish(p, n)
      PROVE  Placed'
  <2>1. mem' = mem /\ file' = file
    BY <1>6 DEF M!NothingMissing, M!Provision, M!Session, M!Reestablish
  <2> QED
    BY <1>k, <2>1, Carried
<1>7. ASSUME NEW p \in Procs, M!CreateDevice(p) PROVE Placed'
  <2>0. PICK s \in M!Missing(p) :
          \/ M!Gone(p)
          \/ \E d \in Devices : /\ owner[d] = NoAccount
                               /\ mem' = [mem EXCEPT ![p].device[s] = d]
    BY <1>7, Zenon DEF M!CreateDevice
  <2>a. file' = file /\ s \in 1 .. N
    BY <1>0, <1>7 DEF M!CreateDevice, M!Missing, M!TypeOK, M!Slots
  <2>1. ASSUME NEW d \in Devices, owner[d] = NoAccount, mem' = [mem EXCEPT ![p].device[s] = d]
        PROVE  Placed'
    <3>1. \A t \in 1 .. N : ~InSlot(d, t)
      BY <1>0, <2>1 DEF InSlot, Whole
    <3>2. mem[p] = [account |-> mem[p].account, device |-> mem[p].device]
      BY <1>0 DEF M!TypeOK, M!File
    <3>3. /\ mem'[p] = [account |-> mem[p].account, device |-> [mem[p].device EXCEPT ![s] = d]]
          /\ \A q \in Procs \ {p} : mem'[q] = mem[q]
      BY <1>0, <2>1, <3>2 DEF M!TypeOK
    <3>4. /\ mem'[p].device[s] = d
          /\ \A t \in (1 .. N) \ {s} : mem'[p].device[t] = mem[p].device[t]
      BY <1>f, <2>a, <3>3
    <3>5. ASSUME NEW e \in Devices, NEW t \in 1 .. N, InSlot(e, t)'
          PROVE  InSlot(e, t) \/ (e = d /\ t = s)
      BY <2>a, <3>3, <3>4, <3>5 DEF InSlot
    <3> QED
      BY <3>1, <3>5 DEF Placed
  <2> QED
    BY <1>m, <2>0, <2>1, <2>a
<1>8. ASSUME UNCHANGED mullvadVars PROVE Placed'
  BY <1>8 DEF Placed, InSlot, mullvadVars
<1> QED
  BY <1>1, <1>2, <1>3, <1>4, <1>5, <1>6, <1>7, <1>8 DEF M!Next, M!Slots

-----------------------------------------------------------------------------
(* What the four promise *)

\* Nothing is shared between two kinds, so the invariants of the four add up.
IInv == DecodoInv /\ LocalInv /\ SharedInv /\ MullvadInv /\ Placed /\ InstallInv

\* A step is one of the chosen kind, and the others stutter.
LEMMA OneKindSteps ==
  [Next]_vars => /\ [D!Next]_decodoVars /\ [L!Next]_localVars
                 /\ [M!Next]_mullvadVars /\ [I!Next]_installVars
<1> SUFFICES ASSUME [Next]_vars
             PROVE  /\ [D!Next]_decodoVars /\ [L!Next]_localVars
                    /\ [M!Next]_mullvadVars /\ [I!Next]_installVars
  OBVIOUS
<1>1. CASE Decodo
  BY <1>1, Zenon DEF Decodo
<1>2. CASE Local
  BY <1>2, Zenon DEF Local
<1>3. CASE Mullvad
  BY <1>3, Zenon DEF Mullvad
<1>4. CASE Install
  BY <1>4, Zenon DEF Install
<1>5. CASE UNCHANGED vars
  BY <1>5, Zenon DEF vars
<1> QED
  BY <1>1, <1>2, <1>3, <1>4, <1>5 DEF Next

\* The invariant holds in every state of every run.
THEOREM Invariance == Spec => []IInv
<1>1. Init => IInv
  <2>1. L!Init => SharedInv
    BY DEF L!Init, SharedInv
  <2>2. M!Init => Placed
    <3>1. \A s \in 1 .. N : M!NoProviderFile.device[s] = NoDevice
      BY BlankParts DEF M!NoProviderFile
    <3> QED
      BY <3>1, ProvisionersAssumption DEF M!Init, Placed, InSlot
  <2> QED
    BY <2>1, <2>2, DecodoInit, LocalInit, MullvadInit, InstallInit DEF Init, IInv
<1>2. IInv /\ [Next]_vars => IInv'
  BY OneKindSteps, DecodoStep, LocalStep, SharedStep, MullvadStep, PlacedStep, InstallStep
     DEF IInv, LocalInv
<1> QED
  BY <1>1, <1>2, PTL DEF Spec

\* The types of the four provisioners' states.
THEOREM TypeCorrect == Spec => [](D!TypeOK /\ L!TypeOK /\ M!TypeOK /\ I!TypeOK)
<1>1. IInv => D!TypeOK /\ L!TypeOK /\ M!TypeOK /\ I!TypeOK
  BY DEF IInv, DecodoInv, LocalInv, SharedInv, MullvadInv, InstallInv, L!TypeOK
<1> QED
  BY <1>1, Invariance, PTL

\* manager.go:14-15: for any number of identities, controllers, sessions, daemons,
\* devices and relays, no two identities of a session share a network path; nor do
\* identities of two sessions, as long as one controller at a time uses the data
\* directory; and if two did, what they share is the same slot's, but for relays.
THEOREM PathsStaySeparate == Spec => []PathsAreSeparate
<1>1. ASSUME IInv PROVE D!SlotsHaveOwnSessions
  <2> SUFFICES ASSUME NEW p \in Procs, NEW q \in Procs, NEW s \in 1 .. N, NEW t \in 1 .. N,
                      using[p][s] # 0, using[p][s] = using[q][t]
               PROVE  s = t /\ (p = q \/ doverlap)
    BY DEF D!SlotsHaveOwnSessions
  <2>0. /\ D!TypeOK /\ SessionsOwned
        /\ Staged(p) /\ Staged(q) /\ (~doverlap => FileIsUsed(p))
    BY <1>1 DEF IInv, DecodoInv
  <2>1. using[p][s] \in 1 .. MaxSession
    <3>1. using[p][s] \in 0 .. MaxSession
      BY <2>0 DEF D!TypeOK, D!Sessions
    <3> QED
      BY <3>1, ProvisionersAssumption
  <2>2. UsedBy(using[p][s], s) /\ UsedBy(using[p][s], t)
    BY DEF UsedBy
  <2>3. s = t
    BY <2>0, <2>1, <2>2 DEF SessionsOwned
  <2>4. dpc[p] # "down" /\ dpc[q] # "down"
    BY <2>0 DEF Staged
  <2> QED
    BY <2>0, <2>3, <2>4 DEF FileIsUsed
<1>2. ASSUME IInv PROVE L!DirectoryHasOneOwner
  <2> SUFFICES ASSUME NEW d \in Daemons, proc[d] = "running"
               PROVE  /\ \A e \in Daemons : (proc[e] = "running" /\ dir[d] = dir[e]) => d = e
                      /\ dir[d] \in others => loverlap
    BY DEF L!DirectoryHasOneOwner
  <2>1. ASSUME NEW e \in Daemons, proc[e] = "running", dir[d] = dir[e], d # e PROVE FALSE
    <3>1. PICK s \in 1 .. N : s = dir[d] /\ {d, e} \subseteq {next[s], slots[s]}
      BY <1>2, <2>1 DEF IInv, LocalInv, Belongs
    <3>2. Phased(s) /\ Manned(s) /\ Restarts(s)
      BY <1>2 DEF IInv, LocalInv, SlotInv
    <3>3. next[s] # NoDaemon /\ slots[s] # NoDaemon /\ proc[slots[s]] = "running"
      BY <2>1, <3>1, ProvisionersAssumption
    <3> QED
      BY <3>2, <3>3 DEF Phased, Manned, Restarts
  <2>2. ASSUME dir[d] \in others, ~loverlap PROVE FALSE
    BY <1>2, <2>2, NoneRuns DEF IInv, SharedInv
  <2> QED
    BY <2>1, <2>2
<1>3. ASSUME IInv PROVE M!PathsAreSeparate
  <2> SUFFICES ASSUME NEW p \in Procs, NEW q \in Procs, mpc[p] = "running", mpc[q] = "running",
                      NEW s \in want[p], NEW t \in want[q]
               PROVE  /\ route[p][s] = route[q][t] => (p = q /\ s = t) \/ (p # q /\ moverlap)
                      /\ mem[p].device[s] = mem[q].device[t] => s = t /\ (p = q \/ moverlap)
    BY DEF M!PathsAreSeparate
  <2>1. /\ s \in 1 .. N /\ t \in 1 .. N /\ M!TypeOK
        /\ Equipped(p) /\ Routed(p) /\ (~moverlap => Synced(p)) /\ Placed
    BY <1>3 DEF IInv, MullvadInv, M!TypeOK, M!Slots
  <2>2. ~moverlap => p = q
    BY <2>1 DEF Synced
  <2>3. route[p][s] = route[q][t] => (p = q /\ s = t) \/ (p # q /\ moverlap)
    BY <2>1, <2>2 DEF Routed
  <2>4. ASSUME mem[p].device[s] = mem[q].device[t] PROVE s = t
    <3>1. mem[p].device[s] \in Devices
      BY <2>1, FileParts DEF Equipped
    <3> QED
      BY <2>1, <2>4, <3>1 DEF Placed, InSlot
  <2> QED
    BY <2>2, <2>3, <2>4
<1>4. IInv => PathsAreSeparate
  BY <1>1, <1>2, <1>3 DEF PathsAreSeparate
<1> QED
  BY <1>4, Invariance, PTL

\* A failed or closed local provisioner has left no tor running.
THEOREM NoTorIsLeft == Spec => []NoOrphans
<1>1. IInv => NoOrphans
  BY NoneRuns DEF IInv, NoOrphans, L!NoOrphans
<1> QED
  BY <1>1, Invariance, PTL

\* One process at a time loses no device of the account.
THEOREM NoDeviceIsLost == Spec => []DevicesAreAccountedFor
<1>1. ASSUME IInv PROVE DevicesAreAccountedFor
  <2> SUFFICES ASSUME ~moverlap, NEW d \in Devices, owner[d] # NoAccount, d \notin stray,
                      d \notin M!DevicesOf(file)
               PROVE  \E p \in Procs : d \in M!DevicesOf(mem[p])
    BY DEF DevicesAreAccountedFor, M!DevicesAreAccountedFor
  <2>1. Held(d) /\ d # NoDevice
    BY <1>1, ProvisionersAssumption DEF IInv, MullvadInv, Accounted
  <2> QED
    BY <2>1 DEF Held, M!DevicesOf, M!Slots
<1> QED
  BY <1>1, Invariance, PTL

\* A start runs the whole pinned build, for any number of starts and any archive.
THEOREM BuildsAreWhole == Spec => []OnlyWholeBuildsRun
<1>1. IInv => OnlyWholeBuildsRun
  BY DEF IInv, InstallInv, Extracts, AllFiles, OnlyWholeBuildsRun, I!OnlyWholeBuildsRun
<1> QED
  BY <1>1, Invariance, PTL

\* manager.go:19-20 for Decodo: a running identity keeps its session.
THEOREM SessionsAreKept == Spec => SessionIsKept
<1>1. ASSUME IInv, [Next]_vars
      PROVE  [~doverlap' => \A p \in Procs : \A s \in 1 .. N :
                (using[p][s] # 0 /\ using'[p][s] \notin {0, using[p][s]})
                  => (dpc[p] = "save" /\ s \in target[p])]_(D!vars)
  <2> SUFFICES ASSUME D!Next, ~doverlap', NEW q \in Procs, NEW t \in 1 .. N, using[q][t] # 0,
                      using'[q][t] \notin {0, using[q][t]}
               PROVE  dpc[q] = "save" /\ t \in target[q]
    BY <1>1, OneKindSteps DEF D!vars, decodoVars
  <2>0. D!TypeOK /\ Staged(q) /\ (~doverlap => FileIsUsed(q))
    BY <1>1 DEF IInv, DecodoInv
  <2>1. ASSUME NEW p \in Procs, D!Provision(p) \/ D!Ensure(p) PROVE FALSE
    BY <2>1 DEF D!Provision, D!Ensure
  <2>2. ASSUME NEW p \in Procs, D!ProvisionSaves(p) PROVE FALSE
    BY <2>0, <2>2 DEF D!ProvisionSaves, D!Goto, D!TypeOK, Staged
  <2>3. ASSUME NEW p \in Procs, D!ReplaceSaves(p) PROVE dpc[q] = "save" /\ t \in target[q]
    <3>1. dpc[p] = "save" /\ using' # using
      BY <2>3 DEF D!ReplaceSaves, D!Goto
    <3>2. using' = [using EXCEPT ![p] =
             [s \in 1 .. N |-> IF s \in target[p] THEN sessions[p][s] ELSE using[p][s]]]
      BY <2>3, <3>1 DEF D!ReplaceSaves
    <3>3. q = p /\ using'[q][t] = IF t \in target[p] THEN sessions[p][t] ELSE using[p][t]
      BY <2>0, <3>2 DEF D!TypeOK
    <3> QED
      BY <3>1, <3>3
  <2>4. ASSUME NEW p \in Procs, D!Stop(p) PROVE FALSE
    BY <2>0, <2>4 DEF D!Stop, D!None, D!TypeOK
  <2>5. ASSUME NEW p \in Procs, NEW s \in 1 .. N, D!ReplaceSession(p, s) PROVE FALSE
    BY <2>5 DEF D!ReplaceSession
  <2>6. ASSUME NEW p \in Procs, NEW s \in 1 .. N, D!Reestablish(p, s) PROVE FALSE
    BY <2>0, <2>6 DEF D!Reestablish, D!Loaded, D!TypeOK, FileIsUsed
  <2>7. ASSUME NEW x \in 1 .. MaxSession, D!SessionExpires(x) PROVE FALSE
    BY <2>7 DEF D!SessionExpires
  <2> QED
    BY <2>1, <2>2, <2>3, <2>4, <2>5, <2>6, <2>7 DEF D!Next
<1> QED
  BY <1>1, Invariance, PTL DEF Spec, SessionIsKept, D!SessionIsKept

\* local.go:21-24: the pin of a slot survives whatever happens to its daemons.
THEOREM PinsAreKept == Spec => PinSurvivesRestarts
<1>1. ASSUME IInv, IInv', [Next]_vars
      PROVE  [phase = "serving" /\ phase' = "serving"
                => \A s \in 1 .. N :
                     LET was == pinned[slots[s]] IN
                     /\ pinned'[slots'[s]] = was
                     /\ (at'[s] = "back" /\ was # NoExit) => conf'[slots'[s]] = was]_(L!vars)
  <2> SUFFICES ASSUME L!Next, phase = "serving", phase' = "serving", NEW t \in 1 .. N
               PROVE  pinned'[slots'[t]] = pinned[slots[t]]
    BY <1>1, OneKindSteps DEF L!vars, L!slotVars, L!torVars, L!dirVars, localVars, IInv, LocalInv,
       SlotInv, HandedBack
  <2>0. /\ L!OwnTypes /\ slots[t] \in Daemons
        /\ \A s \in 1 .. N : Phased(s) /\ Manned(s) /\ Restarts(s) /\ slots[s] \in Daemons
    BY <1>1 DEF IInv, LocalInv, SlotInv, L!OwnTypes
  <2>1. ASSUME NEW s \in 1 .. N, L!Repin(s) PROVE pinned'[slots'[t]] = pinned[slots[t]]
    <3>1. /\ at[s] = "repin" /\ next[s] \in Daemons /\ pinned' = [pinned EXCEPT ![next[s]] = pin[s]]
          /\ slots' \in {slots, [slots EXCEPT ![s] = next[s]]}
      BY <2>0, <2>1 DEF L!Repin, L!Step, L!OwnTypes, Manned
    <3>2. next[s] # slots[s] /\ pin[s] = pinned[slots[s]] /\ dir[next[s]] = s
      BY <2>0, <3>1, ProvisionersAssumption DEF Manned, Restarts
    <3>3. dir[slots[t]] = t
      BY <2>0, ProvisionersAssumption DEF Manned
    <3>4. CASE t = s
      BY <2>0, <3>1, <3>2, <3>4 DEF L!OwnTypes
    <3>5. CASE t # s
      BY <2>0, <3>1, <3>2, <3>3, <3>5 DEF L!OwnTypes
    <3> QED
      BY <3>4, <3>5
  <2>2. ASSUME L!Provision \/ L!Collect \/ L!Serve \/ L!Close PROVE FALSE
    BY <2>2 DEF L!Provision, L!Collect, L!Serve, L!Close
  <2>3. ASSUME NEW s \in 1 .. N, L!PinExit(s) PROVE FALSE
    BY <2>3 DEF L!PinExit
  <2>4. ASSUME NEW s \in 1 .. N, \/ L!BootLaunch(s) \/ L!BootFails(s) \/ L!BootWait(s)
                                 \/ L!Reapply(s) \/ L!StopOld(s) \/ L!RestartFails(s)
                                 \/ L!RestartLaunch(s) \/ L!RestartWait(s) \/ L!Handed(s)
        PROVE  UNCHANGED <<slots, pinned>>
    BY <2>4 DEF L!BootLaunch, L!BootFails, L!BootWait, L!Reapply, L!StopOld, L!RestartFails,
       L!RestartLaunch,
                L!RestartWait, L!Handed, L!Launch, L!slotVars, L!torVars
  <2>5. ASSUME NEW d \in Daemons, L!TorDies(d) PROVE UNCHANGED <<slots, pinned>>
    BY <2>5 DEF L!TorDies, L!slotVars
  <2>6. ASSUME NEW s \in 1 .. N, L!OtherBoots(s) \/ L!OtherEnds(s) PROVE UNCHANGED <<slots, pinned>>
    BY <2>6 DEF L!OtherBoots, L!OtherEnds, L!slotVars, L!torVars
  <2> QED
    BY <2>1, <2>2, <2>3, <2>4, <2>5, <2>6 DEF L!Next, L!OwnStep
<1> QED
  BY <1>1, Invariance, PTL DEF Spec, PinSurvivesRestarts, L!PinSurvivesRestarts

\* Login's "Existing devices are kept".
THEOREM DevicesAreKept == Spec => ExistingDevicesAreKept
<1>1. ASSUME IInv, [Next]_vars
      PROVE  [(~moverlap' /\ ~bad /\ file'.account = file.account) =>
                \A s \in M!Slots : file.device[s] # NoDevice =>
                  file'.device[s] = file.device[s]]_(M!vars)
  <2> SUFFICES ASSUME M!Next, ~moverlap', ~bad, file'.account = file.account, NEW s \in 1 .. N,
                      file.device[s] # NoDevice, file' # file
               PROVE  file'.device[s] = file.device[s]
    BY <1>1, OneKindSteps DEF M!vars, mullvadVars, M!Slots
  <2>0. M!TypeOK /\ Whole(file) /\ \A p \in Procs : ~moverlap => Synced(p)
    BY <1>1 DEF IInv, MullvadInv
  <2>1. ASSUME M!Logout PROVE FALSE
    BY <2>0, <2>1 DEF M!Logout, M!NoProviderFile, M!Blank, Whole
  <2>2. ASSUME NEW p \in Procs, M!LoginSave(p) PROVE file'.device[s] = file.device[s]
    BY <2>0, <2>2 DEF M!LoginSave, Synced, Same
  <2>3. ASSUME NEW p \in Procs, M!SaveDevices(p) PROVE file'.device[s] = file.device[s]
    BY <2>0, <2>3 DEF M!SaveDevices, Synced, Same
  <2>4. ASSUME NEW p \in Procs, \/ M!Open(p) \/ M!Token(p) \/ M!NothingMissing(p) \/ M!CreateDevice(p)
                                \/ M!Provision(p) \/ M!Stop(p)
        PROVE  FALSE
    BY <2>4 DEF M!Open, M!Token, M!NothingMissing, M!CreateDevice, M!Provision, M!Stop
  <2>5. ASSUME NEW p \in Procs, NEW n \in 1 .. N, \/ M!Session(p, n) \/ M!Reestablish(p, n)
                                                  \/ \E a \in Accounts : M!LoginLoad(p, a, n)
        PROVE  FALSE
    BY <2>5 DEF M!Session, M!Reestablish, M!LoginLoad
  <2> QED
    BY <2>1, <2>2, <2>3, <2>4, <2>5 DEF M!Next, M!Slots
<1> QED
  BY <1>1, Invariance, PTL DEF Spec, ExistingDevicesAreKept, M!ExistingDevicesAreKept
=============================================================================
