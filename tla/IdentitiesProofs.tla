--------------------------- MODULE IdentitiesProofs ---------------------------
(***************************************************************************)
(* Proofs about the identity sets on disk for any number of starts, sets   *)
(* and identities.                                                         *)
(*                                                                         *)
(* None of the properties is inductive.  CurrentExists needs to know what  *)
(* current.tmp holds between its three steps (Published).  For exclusion,  *)
(* Locks follows the lock file through Lock: who created it, and that a    *)
(* run which is about to remove it has no holder to take it from; it holds *)
(* only where no two runs are in Lock together, because Remove takes       *)
(* whatever is at the path.  Unmet says what a run finds that is alone in  *)
(* the set from one end of Lock to the other, and Owners that the pid it   *)
(* reads is of a run that still uses the set or is gone.  Ensured relates  *)
(* what a run has in memory to the files, as far as it has got.            *)
(***************************************************************************)
EXTENDS Identities, TLAPS

Opening(r) == at[r] \in {"idle", "stat", "mkdir", "tmp"} \cup Publishing
Created(r) == at[r] \in {"tmp"} \cup Publishing \cup Locking \cup Holding

Placed ==
  \A r \in Runs :
    /\ at[r] = "mkdir" => set[r] \in Sets
    /\ Created(r) => set[r] \in dirs
    /\ Opening(r) => attempt[r] = 0
    /\ at[r] \in Locking => attempt[r] \in {0, 1}
    /\ Opening(r) \/ at[r] \in Locking => i[r] = 1

Published ==
  ~crossed =>
    /\ current \in dirs \cup {NoSet}
    /\ \A p, q \in Runs : at[p] \in Publishing /\ at[q] \in Publishing => p = q
    /\ \A r \in Runs : at[r] = "write" => fd[r] = "tmp"
    /\ \A r \in Runs : at[r] = "rename" => tmp = set[r]

Locks ==
  \A s \in Sets \ raced :
    /\ \A p, q \in InLock(s) : p = q
    /\ \A h \in Holders(s) : file[s] = h /\ h \in written
    /\ \A r \in InLock(s) :
         /\ at[r] = "created" => file[s] = r
         /\ at[r] = "check" => \A h \in Holders(s) : pid[r] = h
         /\ at[r] = "remove" => Holders(s) = {}

Owns(q, s) ==
  q \in Runs /\ set[q] = s /\ at[q] \in Holding \cup {"created", "failed", "over"}

Owners ==
  /\ \A s \in Sets : file[s] # NoRun => Owns(file[s], s)
  /\ \A r \in Runs : at[r] = "check" /\ pid[r] # NoRun => Owns(pid[r], set[r])

Unmet ==
  \A r \in Runs \ met :
    /\ at[r] # "refused"
    /\ at[r] \in Locking =>
         /\ InLock(set[r]) \subseteq {r} /\ Holders(set[r]) = {}
         /\ at[r] = "read" => file[set[r]] # NoRun
         /\ attempt[r] = 1 =>
              /\ at[r] \in {"try", "created"}
              /\ at[r] = "try" => file[set[r]] = NoRun

Ensured ==
  \A r \in Runs : at[r] \in Holding /\ set[r] \notin raced =>
    /\ \A k \in Ids : k < i[r] \/ at[r] = "ready" => got[r][k] = json[set[r]][k]
    /\ at[r] = "create" => json[set[r]][i[r]] = NoEnv

IInv ==
  /\ TypeOK
  /\ Placed
  /\ Published
  /\ Locks
  /\ Owners
  /\ Unmet
  /\ Ensured

-----------------------------------------------------------------------------
\* Before the first start the inductive invariant holds.
LEMMA InitInv == Init => IInv
  <1> SUFFICES ASSUME Init PROVE IInv
    OBVIOUS
  <1> USE IdentitiesAssumption DEF Init, Sets, Ids, NoSet, Empty, Publishing,
        Locking, Holding
  <1>1. TypeOK
    <2>1. at \in [Runs -> Places] /\ i \in [Runs -> Ids]
          /\ current \in Names /\ tmp \in Names
      BY DEF Places, Names
    <2>2. got \in [Runs -> [Ids -> Envs \cup {NoEnv}]]
      OBVIOUS
    <2>3. json \in [Sets -> [Ids -> Envs \cup {NoEnv, Partial}]]
      OBVIOUS
    <2>4. file \in [Sets -> Runs \cup {NoRun}] /\ attempt \in [Runs -> 0 .. 2]
      OBVIOUS
    <2> QED
      BY <2>1, <2>2, <2>3, <2>4 DEF TypeOK
  <1>2. Placed /\ Published
    BY DEF Placed, Published, Opening, Created
  <1>3. Locks /\ Owners
    BY DEF Locks, Owners, InLock, Holders
  <1>4. Unmet /\ Ensured
    BY DEF Unmet, Ensured
  <1> QED
    BY <1>1, <1>2, <1>3, <1>4 DEF IInv

\* Every step of Open, Lock and Ensure, and a kill anywhere, keeps it.
LEMMA StepInv == IInv /\ [Next]_vars => IInv'
  <1> SUFFICES ASSUME IInv, [Next]_vars PROVE IInv'
    OBVIOUS
  <1> USE IdentitiesAssumption
      DEF IInv, TypeOK, Placed, Published, Locks, Owners, Unmet, Ensured, Owns,
          Opening, Created, InLock, Holders, Publishing, Locking, Holding,
          Places, Names, Sets, Ids, NoSet, Empty
  <1>1. ASSUME NEW r \in Runs, OpenFresh(r) PROVE IInv'
    <2>0. /\ at[r] = "idle" /\ at' = [at EXCEPT ![r] = "stat"]
          /\ UNCHANGED <<set, dirs, current, tmp, fd, crossed, file, written,
                         attempt, pid, raced, met, json, i, got>>
      BY <1>1 DEF OpenFresh, openVars, lockVars, ensureVars, Go
    <2> QED
      BY <2>0
  <1>2. ASSUME NEW r \in Runs, OpenCurrent(r) PROVE IInv'
    <2>1. CASE current \in dirs
      <3>0. /\ at[r] = "idle" /\ at' = [at EXCEPT ![r] = "try"]
            /\ Enter(r, current)
            /\ UNCHANGED <<dirs, current, tmp, fd, crossed, file, written,
                           attempt, pid, json, i, got>>
        BY <1>2, <2>1 DEF OpenCurrent, openVars, ensureVars, Go
      <3>1. TypeOK'
        BY <2>1, <3>0 DEF Enter
      <3>2. Placed'
        BY <2>1, <3>0 DEF Enter
      <3>3. Published'
        BY <2>1, <3>0 DEF Enter
      <3>4. Locks'
        BY <2>1, <3>0 DEF Enter
      <3>5. Owners'
        BY <2>1, <3>0 DEF Enter
      <3>6. Unmet'
        BY <2>1, <3>0 DEF Enter
      <3>7. Ensured'
        BY <2>1, <3>0 DEF Enter
      <3> QED
        BY <3>1, <3>2, <3>3, <3>4, <3>5, <3>6, <3>7
    <2>2. CASE current \notin dirs
      <3>0. /\ at[r] = "idle" /\ at' = [at EXCEPT ![r] = "failed"]
            /\ UNCHANGED <<set, dirs, current, tmp, fd, crossed, file, written,
                           attempt, pid, raced, met, json, i, got>>
        BY <1>2, <2>2 DEF OpenCurrent, openVars, ensureVars, Go
      <3> QED
        BY <2>2, <3>0
    <2> QED
      BY <1>2, <2>1, <2>2
  <1>3. ASSUME NEW r \in Runs, StatDir(r) PROVE IInv'
    <2>0. /\ at[r] = "stat" /\ at' = [at EXCEPT ![r] = "mkdir"]
          /\ \E s \in Sets : set' = [set EXCEPT ![r] = s]
          /\ UNCHANGED <<dirs, current, tmp, fd, crossed, file, written,
                         attempt, pid, raced, met, json, i, got>>
      BY <1>3 DEF StatDir, openVars, lockVars, ensureVars, Go
    <2> QED
      BY <2>0
  <1>4. ASSUME NEW r \in Runs, MakeDir(r) PROVE IInv'
    <2>0. set[r] \in Sets
      BY <1>4 DEF MakeDir, Go
    <2>1. CASE set[r] \notin dirs
      <3>0. /\ at[r] = "mkdir" /\ at' = [at EXCEPT ![r] = "tmp"]
            /\ dirs' = dirs \cup {set[r]}
            /\ UNCHANGED <<set, current, tmp, fd, crossed, file, written,
                           attempt, pid, raced, met, json, i, got>>
        BY <1>4, <2>0, <2>1 DEF MakeDir, lockVars, ensureVars, Go
      <3>1. TypeOK'
        <4> HIDE DEF Published, Locks, Owners, Unmet, Ensured, Sets
        <4>1. at' \in [Runs -> Places]
          BY <3>0
        <4>2. dirs' \subseteq Sets
          BY <2>0, <3>0
        <4> QED
          BY <3>0, <4>1, <4>2
      <3>2. Placed'
        BY <2>0, <2>1, <3>0
      <3>3. Published'
        BY <2>0, <2>1, <3>0
      <3>4. Locks'
        BY <2>0, <2>1, <3>0
      <3>5. Owners'
        BY <2>0, <2>1, <3>0
      <3>6. Unmet'
        BY <2>0, <2>1, <3>0
      <3>7. Ensured'
        BY <2>0, <2>1, <3>0
      <3> QED
        BY <3>1, <3>2, <3>3, <3>4, <3>5, <3>6, <3>7
    <2>2. CASE set[r] \in dirs
      <3>0. /\ at[r] = "mkdir" /\ at' = [at EXCEPT ![r] = "failed"]
            /\ UNCHANGED <<set, dirs, current, tmp, fd, crossed, file, written,
                           attempt, pid, raced, met, json, i, got>>
        BY <1>4, <2>0, <2>2 DEF MakeDir, lockVars, ensureVars, Go
      <3> QED
        BY <2>0, <2>2, <3>0
    <2> QED
      BY <1>4, <2>0, <2>1, <2>2
  <1>5. ASSUME NEW r \in Runs, OpenTmp(r) PROVE IInv'
    <2>0. /\ set[r] \in Sets
          /\ at[r] = "tmp" /\ at' = [at EXCEPT ![r] = "write"]
          /\ tmp' = Empty /\ fd' = [fd EXCEPT ![r] = "tmp"]
          /\ crossed' = (crossed \/ \E q \in Runs : at[q] \in Publishing)
          /\ UNCHANGED <<set, dirs, current, file, written, attempt, pid,
                         raced, met, json, i, got>>
      BY <1>5 DEF OpenTmp, lockVars, ensureVars, Go
    <2>1. TypeOK'
      BY <2>0
    <2>2. Placed'
      BY <2>0
    <2>3. Published'
      <3>1. CASE \E q \in Runs : at[q] \in Publishing
        BY <2>0, <3>1
      <3>2. CASE ~\E q \in Runs : at[q] \in Publishing
        BY <2>0, <3>2
      <3> QED
        BY <3>1, <3>2
    <2>4. Locks'
      BY <2>0
    <2>5. Owners'
      BY <2>0
    <2>6. Unmet'
      BY <2>0
    <2>7. Ensured'
      BY <2>0
    <2> QED
      BY <2>1, <2>2, <2>3, <2>4, <2>5, <2>6, <2>7
  <1>6. ASSUME NEW r \in Runs, WriteTmp(r) PROVE IInv'
    <2>0. /\ set[r] \in Sets
          /\ at[r] = "write" /\ at' = [at EXCEPT ![r] = "rename"]
          /\ tmp' = IF fd[r] = "tmp" THEN set[r] ELSE tmp
          /\ current' = IF fd[r] = "current" THEN set[r] ELSE current
          /\ UNCHANGED <<set, dirs, fd, crossed, file, written, attempt, pid,
                         raced, met, json, i, got>>
      BY <1>6 DEF WriteTmp, lockVars, ensureVars, Go
    <2> QED
      BY <2>0
  <1>7. ASSUME NEW r \in Runs, Rename(r) PROVE IInv'
    <2>0. set[r] \in Sets
      BY <1>7 DEF Rename, Go
    <2>1. CASE tmp # NoSet
      <3>0. /\ at[r] = "rename" /\ at' = [at EXCEPT ![r] = "try"]
            /\ Enter(r, set[r])
            /\ current' = tmp /\ tmp' = NoSet
            /\ fd' = [q \in Runs |-> IF fd[q] = "tmp" THEN "current" ELSE "none"]
            /\ UNCHANGED <<dirs, crossed, file, written, attempt, pid, json, i,
                           got>>
        BY <1>7, <2>0, <2>1 DEF Rename, ensureVars, Go
      <3>1. TypeOK'
        <4> HIDE DEF Published, Locks, Owners, Unmet, Ensured, Sets
        <4>1. at' \in [Runs -> Places]
          BY <3>0
        <4>2. raced' \subseteq Sets /\ met' \subseteq Runs
              /\ set' \in [Runs -> Sets \cup {NoSet}]
          BY <2>0, <3>0 DEF Enter
        <4> QED
          BY <3>0, <4>1, <4>2
      <3>2. Placed'
        BY <2>0, <2>1, <3>0 DEF Enter
      <3>3. Published'
        BY <2>0, <2>1, <3>0 DEF Enter
      <3>4. Locks'
        BY <2>0, <2>1, <3>0 DEF Enter
      <3>5. Owners'
        BY <2>0, <2>1, <3>0 DEF Enter
      <3>6. Unmet'
        BY <2>0, <2>1, <3>0 DEF Enter
      <3>7. Ensured'
        BY <2>0, <2>1, <3>0 DEF Enter
      <3> QED
        BY <3>1, <3>2, <3>3, <3>4, <3>5, <3>6, <3>7
    <2>2. CASE tmp = NoSet
      <3>0. /\ at[r] = "rename" /\ at' = [at EXCEPT ![r] = "failed"]
            /\ UNCHANGED <<set, dirs, current, tmp, fd, crossed, file, written,
                           attempt, pid, raced, met, json, i, got>>
        BY <1>7, <2>0, <2>2 DEF Rename, ensureVars, Go
      <3> QED
        BY <2>0, <2>2, <3>0
    <2> QED
      BY <1>7, <2>0, <2>1, <2>2
  <1>8. ASSUME NEW r \in Runs, TryCreate(r) PROVE IInv'
    <2>0. set[r] \in Sets
      BY <1>8 DEF TryCreate, Go
    <2>1. CASE file[set[r]] = NoRun
      <3>0. /\ at[r] = "try" /\ at' = [at EXCEPT ![r] = "created"]
            /\ file' = [file EXCEPT ![set[r]] = r]
            /\ UNCHANGED <<set, dirs, current, tmp, fd, crossed, written,
                           attempt, pid, raced, met, json, i, got>>
        BY <1>8, <2>0, <2>1 DEF TryCreate, openVars, ensureVars, Go
      <3> QED
        BY <2>0, <2>1, <3>0
    <2>2. CASE file[set[r]] # NoRun
      <3>0. /\ at[r] = "try" /\ at' = [at EXCEPT ![r] = "read"]
            /\ UNCHANGED <<set, dirs, current, tmp, fd, crossed, file, written,
                           attempt, pid, raced, met, json, i, got>>
        BY <1>8, <2>0, <2>2 DEF TryCreate, openVars, ensureVars, Go
      <3> QED
        BY <2>0, <2>2, <3>0
    <2> QED
      BY <1>8, <2>0, <2>1, <2>2
  <1>9. ASSUME NEW r \in Runs, WritePid(r) PROVE IInv'
    <2>0. /\ set[r] \in Sets
          /\ at[r] = "created" /\ at' = [at EXCEPT ![r] = "load"]
          /\ written' = written \cup {r}
          /\ UNCHANGED <<set, dirs, current, tmp, fd, crossed, file, attempt,
                         pid, raced, met, json, i, got>>
      BY <1>9 DEF WritePid, openVars, ensureVars, Go
    <2> QED
      BY <2>0
  <1>10. ASSUME NEW r \in Runs, ReadPid(r) PROVE IInv'
    <2>0. set[r] \in Sets
      BY <1>10 DEF ReadPid, Go
    <2>1. CASE file[set[r]] = NoRun
      <3>0. /\ at[r] = "read" /\ at' = [at EXCEPT ![r] = "refused"]
            /\ UNCHANGED <<set, dirs, current, tmp, fd, crossed, file, written,
                           attempt, pid, raced, met, json, i, got>>
        BY <1>10, <2>0, <2>1 DEF ReadPid, openVars, ensureVars, Go
      <3> QED
        BY <2>0, <2>1, <3>0
    <2>2. CASE file[set[r]] # NoRun
      <3>0. /\ at[r] = "read" /\ at' = [at EXCEPT ![r] = "check"]
            /\ pid' = [pid EXCEPT ![r] = IF file[set[r]] \in written THEN file[set[r]] ELSE NoRun]
            /\ UNCHANGED <<set, dirs, current, tmp, fd, crossed, file, written,
                           attempt, raced, met, json, i, got>>
        BY <1>10, <2>0, <2>2 DEF ReadPid, openVars, ensureVars, Go
      <3> QED
        BY <2>0, <2>2, <3>0
    <2> QED
      BY <1>10, <2>0, <2>1, <2>2
  <1>11. ASSUME NEW r \in Runs, CheckAlive(r) PROVE IInv'
    <2>0. set[r] \in Sets
      BY <1>11 DEF CheckAlive, Go
    <2>1. CASE pid[r] # NoRun /\ Alive(pid[r])
      <3>0. /\ at[r] = "check" /\ at' = [at EXCEPT ![r] = "refused"]
            /\ UNCHANGED <<set, dirs, current, tmp, fd, crossed, file, written,
                           attempt, pid, raced, met, json, i, got>>
        BY <1>11, <2>0, <2>1 DEF CheckAlive, openVars, lockVars, ensureVars, Go
      <3> QED
        BY <2>0, <2>1, <3>0 DEF Alive
    <2>2. CASE ~(pid[r] # NoRun /\ Alive(pid[r]))
      <3>0. /\ at[r] = "check" /\ at' = [at EXCEPT ![r] = "remove"]
            /\ UNCHANGED <<set, dirs, current, tmp, fd, crossed, file, written,
                           attempt, pid, raced, met, json, i, got>>
        BY <1>11, <2>0, <2>2 DEF CheckAlive, openVars, lockVars, ensureVars, Go
      <3> QED
        BY <2>0, <2>2, <3>0 DEF Alive
    <2> QED
      BY <1>11, <2>0, <2>1, <2>2
  <1>12. ASSUME NEW r \in Runs, Remove(r) PROVE IInv'
    <2>0. set[r] \in Sets
      BY <1>12 DEF Remove, Go
    <2>1. CASE attempt[r] < 1
      <3>0. /\ at[r] = "remove" /\ at' = [at EXCEPT ![r] = "try"]
            /\ file' = [file EXCEPT ![set[r]] = NoRun]
            /\ attempt' = [attempt EXCEPT ![r] = @ + 1]
            /\ UNCHANGED <<set, dirs, current, tmp, fd, crossed, written, pid,
                           raced, met, json, i, got>>
        BY <1>12, <2>0, <2>1 DEF Remove, openVars, ensureVars, Go
      <3>1. TypeOK'
        <4> HIDE DEF Published, Locks, Owners, Unmet, Ensured, Sets, Placed
        <4>1. at' \in [Runs -> Places]
          BY <3>0
        <4>2. file' \in [Sets -> Runs \cup {NoRun}]
          BY <2>0, <3>0
        <4>3. attempt' \in [Runs -> 0 .. 2]
          <5>1. attempt \in [Runs -> 0 .. 2]
            OBVIOUS
          <5> HIDE DEF IInv
          <5>2. attempt[r] + 1 \in 0 .. 2
            BY <2>1, <5>1
          <5> QED
            BY <3>0, <5>1, <5>2
        <4> QED
          BY <3>0, <4>1, <4>2, <4>3
      <3>2. Placed'
        BY <2>0, <2>1, <3>0
      <3>3. Published'
        BY <2>0, <2>1, <3>0
      <3>4. Locks'
        BY <2>0, <2>1, <3>0
      <3>5. Owners'
        BY <2>0, <2>1, <3>0
      <3>6. Unmet'
        BY <2>0, <2>1, <3>0
      <3>7. Ensured'
        BY <2>0, <2>1, <3>0
      <3> QED
        BY <3>1, <3>2, <3>3, <3>4, <3>5, <3>6, <3>7
    <2>2. CASE ~(attempt[r] < 1)
      <3>0. /\ at[r] = "remove" /\ at' = [at EXCEPT ![r] = "refused"]
            /\ file' = [file EXCEPT ![set[r]] = NoRun]
            /\ attempt' = [attempt EXCEPT ![r] = @ + 1]
            /\ UNCHANGED <<set, dirs, current, tmp, fd, crossed, written, pid,
                           raced, met, json, i, got>>
        BY <1>12, <2>0, <2>2 DEF Remove, openVars, ensureVars, Go
      <3>1. TypeOK'
        BY <2>0, <2>2, <3>0
      <3>2. Placed'
        BY <2>0, <2>2, <3>0
      <3>3. Published'
        BY <2>0, <2>2, <3>0
      <3>4. Locks'
        BY <2>0, <2>2, <3>0
      <3>5. Owners'
        BY <2>0, <2>2, <3>0
      <3>6. Unmet'
        BY <2>0, <2>2, <3>0
      <3>7. Ensured'
        BY <2>0, <2>2, <3>0
      <3> QED
        BY <3>1, <3>2, <3>3, <3>4, <3>5, <3>6, <3>7
    <2> QED
      BY <1>12, <2>0, <2>1, <2>2
  <1>13. ASSUME NEW r \in Runs, Load(r) PROVE IInv'
    <2>0. set[r] \in Sets /\ i[r] \in Ids
      BY <1>13 DEF Load, Go
    <2>1. CASE json[set[r]][i[r]] \in Envs /\ i[r] = N
      <3>0. /\ at[r] = "load" /\ at' = [at EXCEPT ![r] = "ready"]
            /\ got' = [got EXCEPT ![r][i[r]] = json[set[r]][i[r]]]
            /\ UNCHANGED <<set, dirs, current, tmp, fd, crossed, file, written,
                           attempt, pid, raced, met, json, i>>
        BY <1>13, <2>0, <2>1 DEF Load, openVars, lockVars, Unlock, Go, Got
      <3> QED
        BY <2>0, <2>1, <3>0
    <2>2. CASE json[set[r]][i[r]] \in Envs /\ i[r] # N
      <3>0. /\ at[r] = "load" /\ at' = [at EXCEPT ![r] = "load"]
            /\ got' = [got EXCEPT ![r][i[r]] = json[set[r]][i[r]]]
            /\ i' = [i EXCEPT ![r] = @ + 1]
            /\ UNCHANGED <<set, dirs, current, tmp, fd, crossed, file, written,
                           attempt, pid, raced, met, json>>
        BY <1>13, <2>0, <2>2 DEF Load, openVars, lockVars, Unlock, Go, Got
      <3> QED
        BY <2>0, <2>2, <3>0
    <2>3. CASE json[set[r]][i[r]] = NoEnv
      <3>0. /\ at[r] = "load" /\ at' = [at EXCEPT ![r] = "create"]
            /\ UNCHANGED <<set, dirs, current, tmp, fd, crossed, file, written,
                           attempt, pid, raced, met, json, i, got>>
        BY <1>13, <2>0, <2>3 DEF Load, openVars, lockVars, Unlock, Go, Got
      <3> QED
        BY <2>0, <2>3, <3>0
    <2>4. CASE json[set[r]][i[r]] = Partial
      <3>0. /\ at[r] = "load" /\ at' = [at EXCEPT ![r] = "failed"]
            /\ file' = [file EXCEPT ![set[r]] = NoRun]
            /\ UNCHANGED <<set, dirs, current, tmp, fd, crossed, written,
                           attempt, pid, raced, met, json, i, got>>
        BY <1>13, <2>0, <2>4 DEF Load, openVars, lockVars, Unlock, Go, Got
      <3> QED
        BY <2>0, <2>4, <3>0
    <2>5. json[set[r]][i[r]] \in Envs \cup {NoEnv, Partial}
      BY <1>13 DEF Load
    <2> QED
      BY <2>1, <2>2, <2>3, <2>4, <2>5
  <1>14. ASSUME NEW r \in Runs, Create(r) PROVE IInv'
    <2>0. set[r] \in Sets /\ i[r] \in Ids
      BY <1>14 DEF Create, Go
    <2>1. CASE i[r] = N
      <3>0. /\ at[r] = "create" /\ at' = [at EXCEPT ![r] = "ready"]
            /\ \E e \in Envs : json' = [json EXCEPT ![set[r]][i[r]] = e]
                  /\ got' = [got EXCEPT ![r][i[r]] = e]
            /\ UNCHANGED <<set, dirs, current, tmp, fd, crossed, file, written,
                           attempt, pid, raced, met, i>>
        BY <1>14, <2>0, <2>1 DEF Create, openVars, lockVars, Go, Got
      <3> QED
        BY <2>0, <2>1, <3>0
    <2>2. CASE i[r] # N
      <3>0. /\ at[r] = "create" /\ at' = [at EXCEPT ![r] = "load"]
            /\ \E e \in Envs : json' = [json EXCEPT ![set[r]][i[r]] = e]
                  /\ got' = [got EXCEPT ![r][i[r]] = e]
            /\ i' = [i EXCEPT ![r] = @ + 1]
            /\ UNCHANGED <<set, dirs, current, tmp, fd, crossed, file, written,
                           attempt, pid, raced, met>>
        BY <1>14, <2>0, <2>2 DEF Create, openVars, lockVars, Go, Got
      <3>1. TypeOK'
        BY <2>0, <2>2, <3>0
      <3>2. Placed'
        BY <2>0, <2>2, <3>0
      <3>3. Published'
        BY <2>0, <2>2, <3>0
      <3>4. Locks'
        BY <2>0, <2>2, <3>0
      <3>5. Owners'
        BY <2>0, <2>2, <3>0
      <3>6. Unmet'
        BY <2>0, <2>2, <3>0
      <3>7. Ensured'
        BY <2>0, <2>2, <3>0
      <3> QED
        BY <3>1, <3>2, <3>3, <3>4, <3>5, <3>6, <3>7
    <2> QED
      BY <1>14, <2>0, <2>1, <2>2
  <1>15. ASSUME NEW r \in Runs, Ends(r) PROVE IInv'
    <2>0. /\ set[r] \in Sets
          /\ at[r] = "ready" /\ at' = [at EXCEPT ![r] = "over"]
          /\ file' = [file EXCEPT ![set[r]] = NoRun]
          /\ UNCHANGED <<set, dirs, current, tmp, fd, crossed, written,
                         attempt, pid, raced, met, json, i, got>>
      BY <1>15 DEF Ends, openVars, ensureVars, Unlock, Go
    <2> QED
      BY <2>0
  <1>16. ASSUME NEW r \in Runs, Killed(r) PROVE IInv'
    <2>1. CASE UNCHANGED json
      <3>0. /\ Alive(r) /\ at' = [at EXCEPT ![r] = "over"]
            /\ UNCHANGED <<set, dirs, current, tmp, fd, crossed, file, written,
                           attempt, pid, raced, met, json, i, got>>
        BY <1>16, <2>1 DEF Killed, openVars, lockVars
      <3> QED
        BY <2>1, <3>0 DEF Alive
    <2>2. CASE ~UNCHANGED json
      <3>0. /\ at[r] = "create" /\ at' = [at EXCEPT ![r] = "over"]
            /\ set[r] \in Sets /\ i[r] \in Ids
            /\ json' = [json EXCEPT ![set[r]][i[r]] = Partial]
            /\ UNCHANGED <<set, dirs, current, tmp, fd, crossed, file, written,
                           attempt, pid, raced, met, i, got>>
        BY <1>16, <2>2 DEF Killed, openVars, lockVars
      <3> QED
        BY <2>2, <3>0 DEF Alive
    <2> QED
      BY <1>16, <2>1, <2>2
  <1>17. CASE UNCHANGED vars
    BY <1>17 DEF vars, openVars, lockVars, ensureVars
  <1> HIDE DEF IInv, TypeOK, Placed, Published, Locks, Owners, Unmet, Ensured,
        Owns,
          Opening, Created, InLock, Holders, Publishing, Locking, Holding,
          Places, Names, Sets, Ids, NoSet, Empty
  <1> QED
    BY <1>1, <1>2, <1>3, <1>4, <1>5, <1>6, <1>7, <1>8, <1>9, <1>10, <1>11,
       <1>12, <1>13, <1>14, <1>15, <1>16, <1>17
    DEF Next

\* The inductive invariant holds in every reachable state.
THEOREM Invariance == Spec => []IInv
  BY InitInv, StepInv, PTL DEF Spec

\* The files under identities/ and the locals of Open, Lock and Ensure keep
\* their types.
THEOREM TypeCorrect == Spec => []TypeOK
  <1>1. IInv => TypeOK
    BY DEF IInv
  <1> QED
    BY <1>1, Invariance, PTL

-----------------------------------------------------------------------------
\* identity.go:63-108: for any number of starts, killed anywhere, the file
\* current names a directory that is there, unless two starts published together.
THEOREM CurrentIsUsable == Spec => []CurrentExists
  <1>1. IInv => CurrentExists
    BY DEF IInv, Published, CurrentExists
  <1> QED
    BY <1>1, Invariance, PTL

\* identity.go:141-142, "two controllers never open the same profiles", for any
\* number of starts that find any lock file, when no two are in Lock together.
THEOREM OneController == Spec => []SequentialExclusion
  <1>1. IInv => SequentialExclusion
    BY DEF IInv, Locks, SequentialExclusion
  <1> QED
    BY <1>1, Invariance, PTL

\* identity.go:142, "A stale lock from a dead process is reclaimed": Lock refuses
\* only a start that met another one in the set.
THEOREM StaleLocksDoNotStop == Spec => []StaleLockReclaimed
  <1>1. IInv => StaleLockReclaimed
    BY DEF IInv, Unmet, StaleLockReclaimed
  <1> QED
    BY <1>1, Invariance, PTL

-----------------------------------------------------------------------------
\* Only loadOrCreate writes an identity.json, or a kill in the middle of that
\* write: of the set the run holds, and of the identity it is at.
LEMMA WhoWritesJson ==
  ASSUME IInv, Next, NEW s \in Sets, NEW k \in Ids, json'[s][k] # json[s][k]
  PROVE  \E r \in Runs : at[r] = "create" /\ set[r] = s /\ i[r] = k
  <1>1. PICK r \in Runs : Create(r) \/ (Killed(r) /\ ~UNCHANGED json)
    BY DEF Next, OpenFresh, OpenCurrent, StatDir, MakeDir, OpenTmp, WriteTmp,
           Rename, TryCreate, WritePid, ReadPid, CheckAlive, Remove, Load, Ends,
           ensureVars
  <1>2. /\ at[r] = "create"
        /\ \E e \in Envs \cup {Partial} : json' = [json EXCEPT ![set[r]][i[r]] = e]
    BY <1>1 DEF Create, Killed
  <1>3. json \in [Sets -> [Ids -> Envs \cup {NoEnv, Partial}]]
    BY DEF IInv, TypeOK
  <1>4. set[r] = s /\ i[r] = k
    BY <1>2, <1>3
  <1> QED
    BY <1>2, <1>4

\* identity.go:181-182, "Existing identities are never modified", and a session
\* has in hand what its set has on disk: for any number of starts, sets and
\* identities, as long as the lock kept its promise.
THEOREM Permanence == Spec => IdentitiesArePermanent
  <1> DEFINE Kept == \A s \in Sets \ raced, k \in Ids :
                       json[s][k] \in Envs => json'[s][k] = json[s][k]
             Same == \A r \in Runs : (at'[r] = "ready" /\ set'[r] \notin raced')
                       => got'[r] = json'[set'[r]]
  <1>1. ASSUME IInv, Next PROVE Kept
    <2> SUFFICES ASSUME NEW s \in Sets \ raced, NEW k \in Ids,
                        json[s][k] \in Envs, json'[s][k] # json[s][k]
                 PROVE  FALSE
      OBVIOUS
    <2>1. PICK r \in Runs : at[r] = "create" /\ set[r] = s /\ i[r] = k
      BY <1>1, WhoWritesJson
    <2>2. json[s][k] = NoEnv
      BY <1>1, <2>1 DEF IInv, Ensured, Holding
    <2> QED
      BY <2>2, IdentitiesAssumption
  <1>2. ASSUME IInv' PROVE Same
    <2> SUFFICES ASSUME NEW r \in Runs, at'[r] = "ready", set'[r] \notin raced'
                 PROVE  got'[r] = json'[set'[r]]
      OBVIOUS
    <2>1. set'[r] \in Sets
      BY <1>2 DEF IInv, TypeOK, Placed, Created, Holding
    <2>2. got'[r] \in [Ids -> Envs \cup {NoEnv}]
      BY <1>2 DEF IInv, TypeOK
    <2>3. json'[set'[r]] \in [Ids -> Envs \cup {NoEnv, Partial}]
      BY <1>2, <2>1 DEF IInv, TypeOK
    <2>4. \A k \in Ids : got'[r][k] = json'[set'[r]][k]
      BY <1>2 DEF IInv, Ensured, Holding
    <2> QED
      BY <2>2, <2>3, <2>4
  <1>3. IInv /\ IInv' /\ [Next]_vars => [Kept /\ Same]_vars
    BY <1>1, <1>2
  <1> QED
    BY <1>3, Invariance, PTL DEF Spec, IdentitiesArePermanent
=============================================================================
