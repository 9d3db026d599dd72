----------------------------- MODULE Identities ------------------------------
(***************************************************************************)
(* The identity sets on disk and their locks: identity.Manager.Open,       *)
(* Set.Lock, Set.Ensure and Set.Unlock (controller/identity/identity.go),  *)
(* which every start of tab-router runs before anything else.              *)
(*                                                                         *)
(* Starts may overlap, may be killed between any two file operations and   *)
(* in the middle of a write, and see whatever earlier ones left.  A lock   *)
(* is a file, created exclusively, to which its owner's pid is written     *)
(* afterwards.  A start is a process with a pid of its own (pids are not   *)
(* reused).                                                                *)
(***************************************************************************)
EXTENDS Naturals

CONSTANTS
  Runs,      \* starts of the program
  MaxSets,   \* set directories that can be made (a bound)
  N,         \* identities asked for
  Envs,      \* environments the configuration may give
  NoRun,     \* no lock file, or no pid in it
  NoEnv,     \* no identity.json
  Partial    \* an identity.json cut short by a crash

ASSUME IdentitiesAssumption ==
  /\ MaxSets \in Nat \ {0} /\ N \in Nat \ {0}
  /\ NoRun \notin Runs
  /\ NoEnv \notin Envs /\ Partial \notin Envs /\ NoEnv # Partial

Sets == 1 .. MaxSets
Ids == 1 .. N
NoSet == 0            \* no such file
Empty == MaxSets + 1  \* a file without a name in it
Names == Sets \cup {NoSet, Empty}

VARIABLES
  at,       \* where each run is
  set,      \* the set a run opened, or is making
  fd,       \* what the file that a run opened as current.tmp is called now
  attempt,  \* Lock's loop counter
  pid,      \* the pid Lock read
  i,        \* the identity Ensure is at
  got,      \* the environments Ensure has so far
  dirs,     \* set directories that exist
  current,  \* the file identities/current: the set it names
  tmp,      \* the file identities/current.tmp
  json,     \* identity.json of each identity of each set
  file,     \* the run whose lock file is in a set, or NoRun
  written,  \* runs that wrote their pid to the file they created
  crossed,  \* history: two runs were writing current at the same time
  raced,    \* history: sets of which two runs were in Lock at the same time
  met       \* history: runs that were in Lock while another run used the set

openVars == <<dirs, current, tmp, fd, crossed>>
lockVars == <<file, written, attempt, pid, raced, met>>
ensureVars == <<json, i, got>>
vars == <<at, set, openVars, lockVars, ensureVars>>

Publishing == {"write", "rename"}
Locking == {"try", "created", "read", "check", "remove"}
Holding == {"load", "create", "ready"}
Places == {"idle", "stat", "mkdir", "tmp", "refused", "failed", "over"}
            \cup Publishing \cup Locking \cup Holding

Alive(r) == at[r] \notin {"idle", "refused", "failed", "over"}
InLock(s) == {r \in Runs : set[r] = s /\ at[r] \in Locking}
Holders(s) == {r \in Runs : set[r] = s /\ at[r] \in Holding}

Init ==
  /\ at = [r \in Runs |-> "idle"]
  /\ set = [r \in Runs |-> NoSet]
  /\ fd = [r \in Runs |-> "none"]
  /\ attempt = [r \in Runs |-> 0]
  /\ pid = [r \in Runs |-> NoRun]
  /\ i = [r \in Runs |-> 1]
  /\ got = [r \in Runs |-> [k \in Ids |-> NoEnv]]
  /\ dirs = {}
  /\ current = NoSet
  /\ tmp = NoSet
  /\ json = [s \in Sets |-> [k \in Ids |-> NoEnv]]
  /\ file = [s \in Sets |-> NoRun]
  /\ written = {}
  /\ crossed = FALSE
  /\ raced = {}
  /\ met = {}

Go(r, from, to) == at[r] = from /\ at' = [at EXCEPT ![r] = to]

\* The run enters Lock of set s.
Enter(r, s) ==
  /\ set' = [set EXCEPT ![r] = s]
  /\ raced' = IF InLock(s) # {} THEN raced \cup {s} ELSE raced
  /\ met' = met \cup InLock(s)
                \cup IF InLock(s) \cup Holders(s) # {} THEN {r} ELSE {}

-----------------------------------------------------------------------------
(* Manager.Open *)

\* --fresh, or no current set yet: CreateFresh.
OpenFresh(r) ==
  /\ Go(r, "idle", "stat")
  /\ UNCHANGED <<set, openVars, lockVars, ensureVars>>

\* Current: the name in the file is that of a directory, or the run fails.
OpenCurrent(r) ==
  /\ current # NoSet
  /\ IF current \in dirs
       THEN Go(r, "idle", "try") /\ Enter(r, current)
       ELSE Go(r, "idle", "failed") /\ UNCHANGED <<set, raced, met>>
  /\ UNCHANGED <<openVars, file, written, attempt, pid, ensureVars>>

\* The first name that is free ...
StatDir(r) ==
  \E s \in Sets \ dirs :
    /\ \A u \in Sets : u < s => u \in dirs
    /\ Go(r, "stat", "mkdir")
    /\ set' = [set EXCEPT ![r] = s]
    /\ UNCHANGED <<openVars, lockVars, ensureVars>>

\* ... is made, unless another run was faster ...
MakeDir(r) ==
  /\ IF set[r] \notin dirs
       THEN Go(r, "mkdir", "tmp") /\ dirs' = dirs \cup {set[r]}
       ELSE Go(r, "mkdir", "failed") /\ UNCHANGED dirs
  /\ UNCHANGED <<set, current, tmp, fd, crossed, lockVars, ensureVars>>

\* Mutant of OpenTmp: current itself is truncated and written.
OpenTmpInPlace(r) ==
  /\ Go(r, "tmp", "write")
  /\ current' = Empty
  /\ tmp' = Empty
  /\ fd' = [fd EXCEPT ![r] = "current"]
  /\ UNCHANGED <<set, dirs, crossed, lockVars, ensureVars>>

\* ... current.tmp is created, or truncated ...
OpenTmp(r) ==
  /\ Go(r, "tmp", "write")
  /\ tmp' = Empty
  /\ fd' = [fd EXCEPT ![r] = "tmp"]
  /\ crossed' = (crossed \/ \E q \in Runs : at[q] \in Publishing)
  /\ UNCHANGED <<set, dirs, current, lockVars, ensureVars>>

\* ... the name is written to the open file, whatever that is called by now ...
WriteTmp(r) ==
  /\ Go(r, "write", "rename")
  /\ tmp' = IF fd[r] = "tmp" THEN set[r] ELSE tmp
  /\ current' = IF fd[r] = "current" THEN set[r] ELSE current
  /\ UNCHANGED <<set, dirs, fd, crossed, lockVars, ensureVars>>

\* ... and current.tmp renamed over current: it may be gone, or another run's.
Rename(r) ==
  /\ IF tmp # NoSet
       THEN /\ Go(r, "rename", "try")
            /\ Enter(r, set[r])
            /\ current' = tmp
            /\ tmp' = NoSet
            /\ fd' = [q \in Runs |-> IF fd[q] = "tmp" THEN "current" ELSE "none"]
       ELSE /\ Go(r, "rename", "failed")
            /\ UNCHANGED <<set, raced, met, current, tmp, fd>>
  /\ UNCHANGED <<dirs, crossed, file, written, attempt, pid, ensureVars>>

-----------------------------------------------------------------------------
(* Set.Lock; "refused": it returned an error and the program exits *)

\* OpenFile with O_EXCL.
TryCreate(r) ==
  /\ at[r] = "try"
  /\ IF file[set[r]] = NoRun
       THEN Go(r, "try", "created") /\ file' = [file EXCEPT ![set[r]] = r]
       ELSE Go(r, "try", "read") /\ UNCHANGED file
  /\ UNCHANGED <<set, openVars, written, attempt, pid, raced, met, ensureVars>>

\* The pid goes to the file this run created, wherever that is by now.
WritePid(r) ==
  /\ Go(r, "created", "load")
  /\ written' = written \cup {r}
  /\ UNCHANGED <<set, openVars, file, attempt, pid, raced, met, ensureVars>>

\* A file that is gone is an error; an empty one reads as pid 0.
ReadPid(r) ==
  /\ at[r] = "read"
  /\ LET owner == file[set[r]] IN
     IF owner = NoRun
       THEN Go(r, "read", "refused") /\ UNCHANGED pid
       ELSE /\ Go(r, "read", "check")
            /\ pid' = [pid EXCEPT ![r] = IF owner \in written THEN owner ELSE NoRun]
  /\ UNCHANGED <<set, openVars, file, written, attempt, raced, met, ensureVars>>

\* Mutant of CheckAlive: every lock file is taken for stale.
CheckNothing(r) ==
  /\ Go(r, "check", "remove")
  /\ UNCHANGED <<set, openVars, lockVars, ensureVars>>

\* A living owner is an error.
CheckAlive(r) ==
  /\ Go(r, "check", IF pid[r] # NoRun /\ Alive(pid[r]) THEN "refused" ELSE "remove")
  /\ UNCHANGED <<set, openVars, lockVars, ensureVars>>

\* Mutant of Remove: no second attempt.
RemoveOnce(r) ==
  /\ Go(r, "remove", "refused")
  /\ file' = [file EXCEPT ![set[r]] = NoRun]
  /\ attempt' = [attempt EXCEPT ![r] = @ + 1]
  /\ UNCHANGED <<set, openVars, written, pid, raced, met, ensureVars>>

\* os.Remove, whatever is at the path now; a second attempt follows.
Remove(r) ==
  /\ Go(r, "remove", IF attempt[r] < 1 THEN "try" ELSE "refused")
  /\ file' = [file EXCEPT ![set[r]] = NoRun]
  /\ attempt' = [attempt EXCEPT ![r] = @ + 1]
  /\ UNCHANGED <<set, openVars, written, pid, raced, met, ensureVars>>

\* Unlock removes the path too.
Unlock(r) ==
  /\ file' = [file EXCEPT ![set[r]] = NoRun]
  /\ UNCHANGED <<written, attempt, pid, raced, met>>

-----------------------------------------------------------------------------
(* Set.Ensure *)

\* Identity i[r] is there; on to the next, or the set is ready.
Got(r, e, from) ==
  /\ got' = [got EXCEPT ![r][i[r]] = e]
  /\ IF i[r] = N THEN Go(r, from, "ready") /\ UNCHANGED i
                 ELSE Go(r, from, "load") /\ i' = [i EXCEPT ![r] = @ + 1]

\* Mutant of Load: an identity is made new from the configuration.
LoadNothing(r) ==
  /\ Go(r, "load", "create")
  /\ UNCHANGED <<set, openVars, lockVars, ensureVars>>

\* load: a file that is no identity.json makes Ensure, and so the start, fail.
Load(r) ==
  /\ at[r] = "load"
  /\ LET e == json[set[r]][i[r]] IN
     \/ e \in Envs /\ Got(r, e, "load") /\ UNCHANGED lockVars
     \/ e = NoEnv /\ Go(r, "load", "create") /\ UNCHANGED <<i, got, lockVars>>
     \/ e = Partial /\ Go(r, "load", "failed") /\ Unlock(r) /\ UNCHANGED <<i, got>>
  /\ UNCHANGED <<set, openVars, json>>

\* Mutant of Create: what is returned is not what was written.
CreateOther(r) ==
  /\ at[r] = "create"
  /\ \E e, f \in Envs :
       /\ json' = [json EXCEPT ![set[r]][i[r]] = e]
       /\ Got(r, f, "create")
  /\ UNCHANGED <<set, openVars, lockVars>>

\* The rest of loadOrCreate: the directories and identity.json.
Create(r) ==
  /\ at[r] = "create"
  /\ \E e \in Envs :
       /\ json' = [json EXCEPT ![set[r]][i[r]] = e]
       /\ Got(r, e, "create")
  /\ UNCHANGED <<set, openVars, lockVars>>

-----------------------------------------------------------------------------
\* The session is shut down.
Ends(r) ==
  /\ Go(r, "ready", "over")
  /\ Unlock(r)
  /\ UNCHANGED <<set, openVars, ensureVars>>

\* The run is killed, possibly while identity.json is being written.
Killed(r) ==
  /\ Alive(r)
  /\ at' = [at EXCEPT ![r] = "over"]
  /\ \/ UNCHANGED json
     \/ at[r] = "create" /\ json' = [json EXCEPT ![set[r]][i[r]] = Partial]
  /\ UNCHANGED <<set, openVars, lockVars, i, got>>

Next ==
  \E r \in Runs :
    \/ OpenFresh(r) \/ OpenCurrent(r)
    \/ StatDir(r) \/ MakeDir(r) \/ OpenTmp(r) \/ WriteTmp(r) \/ Rename(r)
    \/ TryCreate(r) \/ WritePid(r) \/ ReadPid(r) \/ CheckAlive(r) \/ Remove(r)
    \/ Load(r) \/ Create(r) \/ Ends(r) \/ Killed(r)

Spec == Init /\ [][Next]_vars

-----------------------------------------------------------------------------
(* Properties *)

\* Types of a run's locals and of the files.
TypeOK ==
  /\ at \in [Runs -> Places]
  /\ set \in [Runs -> Sets \cup {NoSet}]
  /\ fd \in [Runs -> {"none", "tmp", "current"}]
  /\ attempt \in [Runs -> 0 .. 2]
  /\ pid \in [Runs -> Runs \cup {NoRun}]
  /\ i \in [Runs -> Ids]
  /\ got \in [Runs -> [Ids -> Envs \cup {NoEnv}]]
  /\ dirs \subseteq Sets
  /\ current \in Names /\ tmp \in Names
  /\ json \in [Sets -> [Ids -> Envs \cup {NoEnv, Partial}]]
  /\ file \in [Sets -> Runs \cup {NoRun}]
  /\ written \subseteq Runs
  /\ crossed \in BOOLEAN /\ raced \subseteq Sets /\ met \subseteq Runs

\* identity.go:63-108: wherever starts were killed, the file current is missing
\* or names a set that exists, so no later start is stopped by "current is
\* corrupt" or "is missing", unless two starts were writing it together (they
\* share current.tmp, which one may rename when the other has truncated it).
CurrentExists == ~crossed => current \in dirs \cup {NoSet}

\* identity.go:141-142, "two controllers never open the same profiles": as long
\* as no two runs were inside Lock of the set together, at most one holds it
\* and the lock file is the holder's, crashes and stale files included.  (Two
\* that find the same stale lock together can both get it.)
SequentialExclusion ==
  \A s \in Sets \ raced : \A p, q \in Holders(s) : p = q /\ file[s] = p

\* identity.go:142, "A stale lock from a dead process is reclaimed": Lock fails
\* only when another run was using the set meanwhile, whatever file a crash
\* left (none, an empty one or a dead owner's).
StaleLockReclaimed == \A r \in Runs : at[r] = "refused" => r \in met

\* identity.go:181-182, "Existing identities are never modified": an identity
\* keeps its environment over all later starts and configurations, and a session
\* runs with the environments its set has on disk, so the next session of the
\* set shows the same device (as long as the lock kept its promise).
IdentitiesArePermanent ==
  [][/\ \A s \in Sets \ raced, k \in Ids :
          json[s][k] \in Envs => json'[s][k] = json[s][k]
     /\ \A r \in Runs : (at'[r] = "ready" /\ set'[r] \notin raced')
          => got'[r] = json'[set'[r]]]_vars
=============================================================================
