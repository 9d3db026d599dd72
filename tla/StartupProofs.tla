---------------------------- MODULE StartupProofs ----------------------------
(***************************************************************************)
(* Proofs about the startup for any number of identities and addresses.    *)
(*                                                                         *)
(* Both properties are about the last phase only, so the invariant says of *)
(* every phase what the ones before it have achieved: which gates are open *)
(* and which browsers can run (Opened, Closed), what the addresses are     *)
(* known to be as long as no check has failed (Addresses, Apart), and who  *)
(* can have a failed check in its results (Clean).                         *)
(***************************************************************************)
EXTENDS Startup, WellFoundedInduction, TLAPS

Early == {"start", "locked", "provision", "routes", "separate"}
Checked == {"V3", "V456", "V7", "V3again", "V8", "url", "ready"}
Up == {"V2", "V3", "V456", "V3again", "V8", "url", "ready"}

Locked ==
  /\ phase \in {"start", "ended"} => ~lock
  /\ phase \in {"routes", "separate", "launch", "V7"} \cup Up => subjects = Ids

Opened ==
  \A i \in Ids :
    /\ phase \in Early \/ i \notin subjects => ~gate[i] /\ browser[i] = "none"
    /\ phase = "launch" => /\ at[i] \in {"started", "ok"} => gate[i]
                           /\ at[i] = "ok" => browser[i] # "none"
    /\ phase = "V7" => /\ browser[i] # "none"
                       /\ at[i] # "closed" => gate[i]
    /\ phase \in Up => gate[i] /\ browser[i] # "none"

Closed ==
  \A i \in Ids :
    /\ phase = "closing" => /\ at[i] \in {"todo", "closed", "ok"}
                            /\ at[i] # "todo" => ~gate[i]
                            /\ at[i] = "ok" => browser[i] # "alive"
    /\ phase \in {"releasing", "ended"} => ~gate[i] /\ browser[i] # "alive"

\* The address is the browser's and the route's, and not the host's.
Pinned(i) ==
  /\ browserIP[i] \in IPs
  /\ routeIP[i] = browserIP[i]
  /\ ~OnHost(browserIP[i])

Addresses ==
  /\ phase \in {"url", "ready"} => passed
  /\ passed => \A i \in Ids :
       /\ phase = "V2" /\ at[i] = "ok" => Pinned(i)
       /\ phase \in Checked => Pinned(i)
       /\ phase = "V2" => at[i] \in {"todo", "ok"}

Apart ==
  passed /\ phase \in {"V8", "url", "ready"} =>
    \A i, j \in Ids : i # j => browserIP[i] # browserIP[j]

Clean ==
  ~canReplace =>
    /\ phase # "separate"
    /\ \A i \in Ids : badCheck[i] =>
         \/ phase \in {"routes", "url"} /\ at[i] = "err"
         \/ phase \in {"V2", "V3", "V456", "V7", "V3again", "V8"} /\ ~passed
         \/ phase \in {"closing", "releasing", "ended"}

IInv ==
  /\ TypeOK
  /\ Locked
  /\ Opened
  /\ Closed
  /\ Addresses
  /\ Apart
  /\ Clean

-----------------------------------------------------------------------------
\* A set of naturals that is not empty has a least element.
LEMMA Least ==
  ASSUME NEW T, T \subseteq Nat, T # {}
  PROVE  \E x \in T : \A y \in T : x <= y
  <1>1. IsWellFoundedOn(OpToRel(<, Nat), Nat)
    BY NatLessThanWellFounded
  <1>2. \E x \in T : \A y \in T : ~ (<<y, x>> \in OpToRel(<, Nat))
    BY <1>1, WFMin, Zenon
  <1>3. PICK x \in T : \A y \in T : ~ (<<y, x>> \in OpToRel(<, Nat))
    BY <1>2
  <1>4. ASSUME NEW y \in T PROVE x <= y
    <2>1. <<y, x>> \in Nat \X Nat /\ <<y, x>>[1] = y /\ <<y, x>>[2] = x
      OBVIOUS
    <2>2. ~(<<y, x>>[1] < <<y, x>>[2])
      BY <1>3, <2>1 DEF OpToRel
    <2>3. ~(y < x)
      BY <2>1, <2>2
    <2> QED
      BY <2>3
  <1> QED
    BY <1>4

\* sharedExit (session.go) finds an identity when two share an address.
LEMMA SharedExitExists ==
  ASSUME Sharing # {} PROVE SharedExit \in Sharing
  <1>1. Sharing \subseteq Nat
    BY StartupAssumption DEF Sharing, Ids
  <1> QED
    BY <1>1, Least DEF SharedExit

\* A session that has not begun satisfies the inductive invariant.
LEMMA InitInv == Init => IInv
  <1> SUFFICES ASSUME Init PROVE IInv
    OBVIOUS
  <1> USE StartupAssumption DEF Init
  <1>1. TypeOK
    BY DEF TypeOK, Phases, Places
  <1>2. Locked /\ Opened /\ Closed
    BY DEF Locked, Opened, Closed, Up
  <1>3. Addresses /\ Apart /\ Clean
    BY DEF Addresses, Apart, Clean, Checked
  <1> QED
    BY <1>1, <1>2, <1>3 DEF IInv

\* Every step of the main goroutine, the goroutines of the identities and the
\* browsers keeps it.
LEMMA StepInv == IInv /\ [Next]_vars => IInv'
  <1> SUFFICES ASSUME IInv, [Next]_vars PROVE IInv'
    OBVIOUS
  <1> USE StartupAssumption
      DEF IInv, TypeOK, Locked, Opened, Closed, Addresses, Apart, Clean, Pinned,
          OnHost, Early, Checked, Up, Phases, Places, Ids
  <1>1. CASE TakeLock
    <2>1. CASE phase' = "locked"
      <3>0. /\ phase = "start"
            /\ phase' = "locked" /\ at' = [i \in Ids |-> "todo"]
            /\ lock' = TRUE
            /\ UNCHANGED <<canReplace, silent, subjects, gate, browser,
                           routeIP, browserIP, badCheck, passed, replaced,
                           hostKnown>>
        BY <1>1, <2>1 DEF TakeLock, Enter, netVars
      <3> QED
        BY <2>1, <3>0
    <2>2. CASE phase' # "locked"
      <3>0. /\ phase = "start"
            /\ phase' = "ended" /\ at' = [i \in Ids |-> "todo"]
            /\ UNCHANGED <<canReplace, silent, lock, subjects, gate, browser,
                           routeIP, browserIP, badCheck, passed, replaced,
                           hostKnown>>
        BY <1>1, <2>2 DEF TakeLock, Enter, netVars
      <3> QED
        BY <2>2, <3>0
    <2> QED
      BY <1>1, <2>1, <2>2 DEF TakeLock, Enter, netVars
  <1>2. CASE Prepare
    <2>1. CASE phase' = "provision"
      <3>0. /\ phase = "locked"
            /\ phase' = "provision" /\ at' = [i \in Ids |-> "todo"]
            /\ UNCHANGED <<canReplace, silent, lock, subjects, gate, browser,
                           routeIP, browserIP, badCheck, passed, replaced,
                           hostKnown>>
        BY <1>2, <2>1 DEF Prepare, Enter, netVars
      <3> QED
        BY <2>1, <3>0
    <2>2. CASE phase' # "provision"
      <3>0. /\ phase = "locked"
            /\ phase' = "ended" /\ at' = [i \in Ids |-> "todo"]
            /\ lock' = FALSE
            /\ UNCHANGED <<canReplace, silent, subjects, gate, browser,
                           routeIP, browserIP, badCheck, passed, replaced,
                           hostKnown>>
        BY <1>2, <2>2 DEF Prepare, Enter, netVars
      <3> QED
        BY <2>2, <3>0
    <2> QED
      BY <1>2, <2>1, <2>2 DEF Prepare, Enter, netVars
  <1>3. CASE Provision
    <2>1. CASE phase' = "closing"
      <3>0. /\ phase = "provision"
            /\ phase' = "closing" /\ at' = [i \in Ids |-> "todo"]
            /\ subjects' \subseteq Ids
            /\ UNCHANGED <<canReplace, silent, lock, gate, browser, routeIP,
                           browserIP, badCheck, passed, replaced, hostKnown>>
        BY <1>3, <2>1 DEF Provision, Enter, netVars
      <3> QED
        BY <2>1, <3>0
    <2>2. CASE phase' # "closing"
      <3>0. /\ phase = "provision"
            /\ phase' = "routes" /\ at' = [i \in Ids |-> "todo"]
            /\ subjects' = Ids /\ hostKnown' \in BOOLEAN
            /\ UNCHANGED <<canReplace, silent, lock, gate, browser, routeIP,
                           browserIP, badCheck, passed, replaced>>
        BY <1>3, <2>2 DEF Provision, Enter, netVars
      <3> QED
        BY <2>2, <3>0
    <2> QED
      BY <1>3, <2>1, <2>2 DEF Provision, Enter, netVars
  <1>4. ASSUME NEW i \in Ids, StartRoute(i) PROVE IInv'
    <2>0. /\ phase = "routes"
          /\ at[i] = "todo" /\ \E q \in {"started",
                "err"} : at' = [at EXCEPT ![i] = q]
          /\ UNCHANGED <<canReplace, silent, phase, lock, subjects, gate,
                         browser, routeIP, browserIP, badCheck, passed,
                         replaced, hostKnown>>
      BY <1>4 DEF StartRoute, Step, netVars
    <2> QED
      BY <2>0
  <1>5. ASSUME NEW i \in Ids, V1(i) PROVE IInv'
    <2>1. CASE (\E ip \in IPs : routeIP' = [routeIP EXCEPT ![i] = ip])
          /\ Step(i, at[i], "ok") /\ UNCHANGED badCheck
      <3>0. /\ phase = "routes"
            /\ at[i] \in {"started", "retry"} /\ at' = [at EXCEPT ![i] = "ok"]
            /\ \E ip \in IPs : routeIP' = [routeIP EXCEPT ![i] = ip]
            /\ UNCHANGED <<canReplace, silent, phase, lock, subjects, gate,
                           browser, browserIP, badCheck, passed, replaced,
                           hostKnown>>
        BY <1>5, <2>1 DEF V1, Step, netVars
      <3>1. TypeOK'
        BY <2>1, <3>0
      <3>2. Locked'
        BY <2>1, <3>0
      <3>3. Opened'
        BY <2>1, <3>0
      <3>4. Closed'
        BY <2>1, <3>0
      <3>5. Addresses'
        BY <2>1, <3>0
      <3>6. Apart'
        BY <2>1, <3>0
      <3>7. Clean'
        BY <2>1, <3>0
      <3> QED
        BY <3>1, <3>2, <3>3, <3>4, <3>5, <3>6, <3>7
    <2>2. CASE /\ badCheck' = [badCheck EXCEPT ![i] = TRUE] /\ UNCHANGED routeIP
               /\ Step(i, at[i], "err") \/ (canReplace /\ Step(i, "started",
                     "retry"))
      <3>0. /\ phase = "routes"
            /\ at' = [at EXCEPT ![i] = "err"] \/ (canReplace
                  /\ at' = [at EXCEPT ![i] = "retry"])
            /\ badCheck' = [badCheck EXCEPT ![i] = TRUE]
            /\ UNCHANGED <<canReplace, silent, phase, lock, subjects, gate,
                           browser, routeIP, browserIP, passed, replaced,
                           hostKnown>>
        BY <1>5, <2>2 DEF V1, Step, netVars
      <3> QED
        BY <2>2, <3>0
    <2> QED
      BY <1>5, <2>1, <2>2 DEF V1, Step, netVars
  <1>6. CASE RoutesUp
    <2>1. CASE SomeErr
      <3>0. /\ phase = "routes"
            /\ phase' = "closing" /\ at' = [i \in Ids |-> "todo"]
            /\ UNCHANGED <<canReplace, silent, lock, subjects, gate, browser,
                           routeIP, browserIP, badCheck, passed, replaced,
                           hostKnown>>
        BY <1>6, <2>1 DEF RoutesUp, Enter, netVars, AllDone, SomeErr
      <3> QED
        BY <2>1, <3>0
    <2>2. CASE ~SomeErr /\ canReplace
      <3>0. /\ phase = "routes"
            /\ phase' = "separate" /\ at' = [i \in Ids |-> "todo"]
            /\ UNCHANGED <<canReplace, silent, lock, subjects, gate, browser,
                           routeIP, browserIP, badCheck, passed, replaced,
                           hostKnown>>
        BY <1>6, <2>2 DEF RoutesUp, Enter, netVars, AllDone, SomeErr
      <3> QED
        BY <2>2, <3>0
    <2>3. CASE ~SomeErr /\ ~canReplace
      <3>0. /\ phase = "routes"
            /\ phase' = "launch" /\ at' = [i \in Ids |-> "todo"]
            /\ \A i \in Ids : at[i] = "ok"
            /\ UNCHANGED <<canReplace, silent, lock, subjects, gate, browser,
                           routeIP, browserIP, badCheck, passed, replaced,
                           hostKnown>>
        BY <1>6, <2>3 DEF RoutesUp, Enter, netVars, AllDone, SomeErr
      <3> QED
        BY <2>3, <3>0
    <2> QED
      BY <1>6, <2>1, <2>2, <2>3 DEF RoutesUp, Enter, netVars, AllDone, SomeErr
  <1>7. CASE Separated
    <2>0. /\ phase = "separate"
          /\ phase' = "launch" /\ at' = [i \in Ids |-> "todo"]
          /\ UNCHANGED <<canReplace, silent, lock, subjects, gate, browser,
                         routeIP, browserIP, badCheck, passed, replaced,
                         hostKnown>>
      BY <1>7 DEF Separated, Enter, netVars
    <2> QED
      BY <2>0
  <1>8. CASE Separate
    <2>0. /\ phase = "separate"
          /\ SharedExit \in Ids
      BY <1>8, SharedExitExists DEF Sharing, Separate, Enter, netVars
    <2>1. CASE UNCHANGED <<phase, at,
                           badCheck>>
                           /\ (\E ip \in IPs : routeIP' = [routeIP EXCEPT ![SharedExit] = ip])
             /\ replaced' = replaced \cup {SharedExit}
      <3>0. /\ UNCHANGED <<canReplace, silent, phase, at, lock, subjects, gate,
                           browser, browserIP, badCheck, passed, hostKnown>>
        BY <1>8, <2>0, <2>1 DEF Separate, Enter, netVars
      <3> QED
        BY <2>0, <2>1, <3>0
    <2>2. CASE Enter("closing") /\ UNCHANGED routeIP
      <3>0. /\ phase' = "closing" /\ at' = [i \in Ids |-> "todo"]
            /\ badCheck' \in {badCheck, [badCheck EXCEPT ![SharedExit] = TRUE]}
            /\ replaced' \in {replaced, replaced \cup {SharedExit}}
            /\ UNCHANGED <<canReplace, silent, lock, subjects, gate, browser,
                           routeIP, browserIP, passed, hostKnown>>
        BY <1>8, <2>0, <2>2 DEF Separate, Enter, netVars
      <3> QED
        BY <2>0, <2>2, <3>0
    <2> QED
      BY <1>8, <2>0, <2>1, <2>2 DEF Separate, Enter, netVars
  <1>9. ASSUME NEW i \in Ids, OpenGate(i) PROVE IInv'
    <2>0. /\ phase = "launch"
          /\ at[i] = "todo" /\ at' = [at EXCEPT ![i] = "started"]
          /\ gate' = [gate EXCEPT ![i] = TRUE]
          /\ UNCHANGED <<canReplace, silent, phase, lock, subjects, browser,
                         routeIP, browserIP, badCheck, passed, replaced,
                         hostKnown>>
      BY <1>9 DEF OpenGate, Step, netVars
    <2> QED
      BY <2>0
  <1>10. ASSUME NEW i \in Ids, Launch(i) PROVE IInv'
    <2>1. CASE Step(i, "started",
          "err") /\ gate' = [gate EXCEPT ![i] = FALSE] /\ UNCHANGED browser
      <3>0. /\ phase = "launch"
            /\ at[i] = "started" /\ at' = [at EXCEPT ![i] = "err"]
            /\ gate' = [gate EXCEPT ![i] = FALSE]
            /\ UNCHANGED <<canReplace, silent, phase, lock, subjects, browser,
                           routeIP, browserIP, badCheck, passed, replaced,
                           hostKnown>>
        BY <1>10, <2>1 DEF Launch, Step, netVars
      <3> QED
        BY <2>1, <3>0
    <2>2. CASE browser' = [browser EXCEPT ![i] = "alive"] /\ UNCHANGED gate
      <3>0. /\ phase = "launch"
            /\ at[i] = "started" /\ \E q \in {"ok",
                  "err"} : at' = [at EXCEPT ![i] = q]
            /\ browser' = [browser EXCEPT ![i] = "alive"]
            /\ UNCHANGED <<canReplace, silent, phase, lock, subjects, gate,
                           routeIP, browserIP, badCheck, passed, replaced,
                           hostKnown>>
        BY <1>10, <2>2 DEF Launch, Step, netVars
      <3> QED
        BY <2>2, <3>0
    <2> QED
      BY <1>10, <2>1, <2>2 DEF Launch, Step, netVars
  <1>11. CASE Launched
    <2>1. CASE SomeErr
      <3>0. /\ phase = "launch"
            /\ phase' = "closing" /\ at' = [i \in Ids |-> "todo"]
            /\ UNCHANGED <<canReplace, silent, lock, subjects, gate, browser,
                           routeIP, browserIP, badCheck, passed, replaced,
                           hostKnown>>
        BY <1>11, <2>1 DEF Launched, Enter, netVars, AllDone, SomeErr
      <3> QED
        BY <2>1, <3>0
    <2>2. CASE ~SomeErr
      <3>0. /\ phase = "launch"
            /\ phase' = "V2" /\ at' = [i \in Ids |-> "todo"]
            /\ \A i \in Ids : at[i] = "ok"
            /\ UNCHANGED <<canReplace, silent, lock, subjects, gate, browser,
                           routeIP, browserIP, badCheck, passed, replaced,
                           hostKnown>>
        BY <1>11, <2>2 DEF Launched, Enter, netVars, AllDone, SomeErr
      <3> QED
        BY <2>2, <3>0
    <2> QED
      BY <1>11, <2>1, <2>2 DEF Launched, Enter, netVars, AllDone, SomeErr
  <1>12. ASSUME NEW i \in Ids, BrowserDies(i) PROVE IInv'
    <2>0. /\ browser[i] = "alive" /\ browser' = [browser EXCEPT ![i] = "dead"]
          /\ UNCHANGED <<canReplace, silent, phase, at, lock, subjects, gate,
                         routeIP, browserIP, badCheck, passed, replaced,
                         hostKnown>>
      BY <1>12 DEF BrowserDies, netVars
    <2> QED
      BY <2>0
  <1>13. ASSUME NEW i \in Ids, V2(i) PROVE IInv'
    <2>1. CASE \E ip \in IPs : OnHost(ip)
          /\ browserIP' = [browserIP EXCEPT ![i] = ip] /\ Fails(i)
          /\ UNCHANGED routeIP
      <3>0. /\ phase = "V2"
            /\ at[i] = "todo" /\ at' = [at EXCEPT ![i] = "ok"]
            /\ \E ip \in IPs : browserIP' = [browserIP EXCEPT ![i] = ip]
            /\ badCheck' = [badCheck EXCEPT ![i] = TRUE] /\ passed' = FALSE
            /\ UNCHANGED <<canReplace, silent, phase, lock, subjects, gate,
                           browser, routeIP, replaced, hostKnown>>
        BY <1>13, <2>1 DEF V2, Step, Fails
      <3>1. TypeOK'
        <4>1. browserIP' \in [Ids -> IPs \cup {NoIP}]
          BY <3>0
        <4> QED
          BY <3>0, <4>1
      <3>2. Locked'
        BY <2>1, <3>0
      <3>3. Opened'
        BY <2>1, <3>0
      <3>4. Closed'
        BY <2>1, <3>0
      <3>5. Addresses'
        BY <2>1, <3>0
      <3>6. Apart'
        BY <2>1, <3>0
      <3>7. Clean'
        BY <2>1, <3>0
      <3> QED
        BY <3>1, <3>2, <3>3, <3>4, <3>5, <3>6, <3>7
    <2>2. CASE \E ip \in IPs : ~OnHost(ip)
          /\ browserIP' = [browserIP EXCEPT ![i] = ip]
                                /\ routeIP' = [routeIP EXCEPT ![i] = ip]
                                /\ UNCHANGED <<badCheck, passed>>
      <3>0. /\ phase = "V2"
            /\ at[i] = "todo" /\ at' = [at EXCEPT ![i] = "ok"]
            /\ UNCHANGED <<canReplace, silent, phase, lock, subjects, gate,
                           browser, badCheck, passed, replaced, hostKnown>>
        BY <1>13, <2>2 DEF V2, Step, Fails
      <3> QED
        BY <2>2, <3>0
    <2>3. CASE Fails(i) /\ UNCHANGED <<browserIP, routeIP>>
      <3>0. /\ phase = "V2"
            /\ at[i] = "todo" /\ at' = [at EXCEPT ![i] = "ok"]
            /\ badCheck' = [badCheck EXCEPT ![i] = TRUE] /\ passed' = FALSE
            /\ UNCHANGED <<canReplace, silent, phase, lock, subjects, gate,
                           browser, routeIP, browserIP, replaced, hostKnown>>
        BY <1>13, <2>3 DEF V2, Step, Fails
      <3> QED
        BY <2>3, <3>0
    <2> QED
      BY <1>13, <2>1, <2>2, <2>3 DEF V2, Step, Fails
  <1>14. CASE V3("V3", "V456")
    <2>1. CASE AreSeparate
      <3>0. /\ phase = "V3"
            /\ phase' = "V456" /\ at' = [i \in Ids |-> "todo"]
            /\ UNCHANGED <<canReplace, silent, lock, subjects, gate, browser,
                           routeIP, browserIP, badCheck, passed, replaced,
                           hostKnown>>
        BY <1>14, <2>1 DEF V3, Enter
      <3> QED
        BY <2>1, <3>0 DEF AreSeparate
    <2>2. CASE ~AreSeparate
      <3>0. /\ phase = "V3"
            /\ phase' = "V456" /\ at' = [i \in Ids |-> "todo"]
            /\ badCheck' = [i \in Ids |-> TRUE] /\ passed' = FALSE
            /\ UNCHANGED <<canReplace, silent, lock, subjects, gate, browser,
                           routeIP, browserIP, replaced, hostKnown>>
        BY <1>14, <2>2 DEF V3, Enter
      <3> QED
        BY <2>2, <3>0 DEF AreSeparate
    <2> QED
      BY <1>14, <2>1, <2>2 DEF V3, Enter
  <1>15. CASE V3("V3again", "V8")
    <2>1. CASE AreSeparate
      <3>0. /\ phase = "V3again"
            /\ phase' = "V8" /\ at' = [i \in Ids |-> "todo"]
            /\ UNCHANGED <<canReplace, silent, lock, subjects, gate, browser,
                           routeIP, browserIP, badCheck, passed, replaced,
                           hostKnown>>
        BY <1>15, <2>1 DEF V3, Enter
      <3> QED
        BY <2>1, <3>0 DEF AreSeparate
    <2>2. CASE ~AreSeparate
      <3>0. /\ phase = "V3again"
            /\ phase' = "V8" /\ at' = [i \in Ids |-> "todo"]
            /\ badCheck' = [i \in Ids |-> TRUE] /\ passed' = FALSE
            /\ UNCHANGED <<canReplace, silent, lock, subjects, gate, browser,
                           routeIP, browserIP, replaced, hostKnown>>
        BY <1>15, <2>2 DEF V3, Enter
      <3> QED
        BY <2>2, <3>0 DEF AreSeparate
    <2> QED
      BY <1>15, <2>1, <2>2 DEF V3, Enter
  <1>16. CASE V456
    <2>1. CASE passed' = FALSE
      <3>0. /\ phase = "V456"
            /\ phase' = "V7" /\ at' = [i \in Ids |-> "todo"]
            /\ badCheck' \in [Ids -> BOOLEAN]
            /\ UNCHANGED <<canReplace, silent, lock, subjects, gate, browser,
                           routeIP, browserIP, replaced, hostKnown>>
        BY <1>16, <2>1 DEF V456, Enter, Fails
      <3> QED
        BY <2>1, <3>0
    <2>2. CASE passed' # FALSE
      <3>0. /\ phase = "V456"
            /\ phase' = "V7" /\ at' = [i \in Ids |-> "todo"]
            /\ UNCHANGED <<canReplace, silent, lock, subjects, gate, browser,
                           routeIP, browserIP, badCheck, passed, replaced,
                           hostKnown>>
        BY <1>16, <2>2 DEF V456, Enter, Fails
      <3> QED
        BY <2>2, <3>0
    <2> QED
      BY <1>16, <2>1, <2>2 DEF V456, Enter, Fails
  <1>17. ASSUME NEW i \in Ids, V7Close(i) PROVE IInv'
    <2>0. /\ phase = "V7"
          /\ at[i] = "todo" /\ at' = [at EXCEPT ![i] = "closed"]
          /\ gate' = [gate EXCEPT ![i] = FALSE]
          /\ UNCHANGED <<canReplace, silent, phase, lock, subjects, browser,
                         routeIP, browserIP, badCheck, passed, replaced,
                         hostKnown>>
      BY <1>17 DEF V7Close, Step, netVars
    <2> QED
      BY <2>0
  <1>18. ASSUME NEW i \in Ids, V7Open(i) PROVE IInv'
    <2>1. CASE \E ip \in IPs : ~OnHost(ip)
          /\ browserIP' = [browserIP EXCEPT ![i] = ip]
                                /\ routeIP' = [routeIP EXCEPT ![i] = ip]
                                /\ UNCHANGED <<badCheck, passed>>
      <3>0. /\ phase = "V7"
            /\ at[i] = "closed" /\ at' = [at EXCEPT ![i] = "ok"]
            /\ gate' = [gate EXCEPT ![i] = TRUE]
            /\ UNCHANGED <<canReplace, silent, phase, lock, subjects, browser,
                           badCheck, passed, replaced, hostKnown>>
        BY <1>18, <2>1 DEF V7Open, Step, Fails
      <3> QED
        BY <2>1, <3>0
    <2>2. CASE Fails(i) /\ UNCHANGED <<browserIP, routeIP>>
      <3>0. /\ phase = "V7"
            /\ at[i] = "closed" /\ at' = [at EXCEPT ![i] = "ok"]
            /\ gate' = [gate EXCEPT ![i] = TRUE]
            /\ badCheck' = [badCheck EXCEPT ![i] = TRUE] /\ passed' = FALSE
            /\ UNCHANGED <<canReplace, silent, phase, lock, subjects, browser,
                           routeIP, browserIP, replaced, hostKnown>>
        BY <1>18, <2>2 DEF V7Open, Step, Fails
      <3> QED
        BY <2>2, <3>0
    <2> QED
      BY <1>18, <2>1, <2>2 DEF V7Open, Step, Fails
  <1>19. CASE PhaseEnds("V2", "V3")
    <2>0. /\ phase = "V2"
          /\ phase' = "V3" /\ at' = [i \in Ids |-> "todo"]
          /\ \A i \in Ids : at[i] \in {"ok", "err"}
          /\ UNCHANGED <<canReplace, silent, lock, subjects, gate, browser,
                         routeIP, browserIP, badCheck, passed, replaced,
                         hostKnown>>
      BY <1>19 DEF PhaseEnds, Enter, netVars, AllDone
    <2> QED
      BY <2>0
  <1>20. CASE PhaseEnds("V7", "V3again")
    <2>0. /\ phase = "V7"
          /\ phase' = "V3again" /\ at' = [i \in Ids |-> "todo"]
          /\ \A i \in Ids : at[i] \in {"ok", "err"}
          /\ UNCHANGED <<canReplace, silent, lock, subjects, gate, browser,
                         routeIP, browserIP, badCheck, passed, replaced,
                         hostKnown>>
      BY <1>20 DEF PhaseEnds, Enter, netVars, AllDone
    <2> QED
      BY <2>0
  <1>21. CASE PhaseEnds("closing", "releasing")
    <2>0. /\ phase = "closing"
          /\ phase' = "releasing" /\ at' = [i \in Ids |-> "todo"]
          /\ \A i \in Ids : at[i] \in {"ok", "err"}
          /\ UNCHANGED <<canReplace, silent, lock, subjects, gate, browser,
                         routeIP, browserIP, badCheck, passed, replaced,
                         hostKnown>>
      BY <1>21 DEF PhaseEnds, Enter, netVars, AllDone
    <2> QED
      BY <2>0
  <1>22. CASE Verdict
    <2>1. CASE phase' = "url"
      <3>0. /\ phase = "V8"
            /\ phase' = "url" /\ at' = [i \in Ids |-> "todo"]
            /\ passed
            /\ UNCHANGED <<canReplace, silent, lock, subjects, gate, browser,
                           routeIP, browserIP, badCheck, passed, replaced,
                           hostKnown>>
        BY <1>22, <2>1 DEF Verdict, Enter, Fails
      <3> QED
        BY <2>1, <3>0
    <2>2. CASE phase' # "url"
      <3>0. /\ phase = "V8"
            /\ phase' = "closing" /\ at' = [i \in Ids |-> "todo"]
            /\ UNCHANGED <<canReplace, silent, lock, subjects, gate, browser,
                           routeIP, browserIP, replaced, hostKnown>>
        BY <1>22, <2>2 DEF Verdict, Enter, Fails
      <3>1. \/ UNCHANGED <<badCheck, passed>>
            \/ \E i \in Ids : badCheck' = [badCheck EXCEPT ![i] = TRUE] /\ ~passed'
        BY <1>22 DEF Verdict, Fails
      <3>2. badCheck' \in [Ids -> BOOLEAN] /\ passed' \in BOOLEAN
        BY <1>22, <3>1 DEF Verdict, Fails
      <3> QED
        BY <3>0, <3>2
    <2> QED
      BY <1>22, <2>1, <2>2 DEF Verdict, Enter, Fails
  <1>23. ASSUME NEW i \in Ids, V9(i) PROVE IInv'
    <2>1. CASE UNCHANGED badCheck
      <3>0. /\ phase = "url"
            /\ at[i] = "todo" /\ \E q \in {"ok",
                  "err"} : at' = [at EXCEPT ![i] = q]
            /\ UNCHANGED <<canReplace, silent, phase, lock, subjects, gate,
                           browser, routeIP, browserIP, badCheck, passed,
                           replaced, hostKnown>>
        BY <1>23, <2>1 DEF V9, Step
      <3> QED
        BY <2>1, <3>0
    <2>2. CASE ~UNCHANGED badCheck
      <3>0. /\ phase = "url"
            /\ at[i] = "todo" /\ at' = [at EXCEPT ![i] = "err"]
            /\ badCheck' = [badCheck EXCEPT ![i] = TRUE]
            /\ UNCHANGED <<canReplace, silent, phase, lock, subjects, gate,
                           browser, routeIP, browserIP, passed, replaced,
                           hostKnown>>
        BY <1>23, <2>2 DEF V9, Step
      <3> QED
        BY <2>2, <3>0
    <2> QED
      BY <1>23, <2>1, <2>2 DEF V9, Step
  <1>24. CASE StartupURL
    <2>1. CASE phase' = "ready"
      <3>0. /\ phase = "url"
            /\ phase' = "ready" /\ at' = [i \in Ids |-> "todo"]
            /\ \A i \in Ids : at[i] # "err"
            /\ UNCHANGED <<canReplace, silent, lock, subjects, gate, browser,
                           routeIP, browserIP, badCheck, passed, replaced,
                           hostKnown>>
        BY <1>24, <2>1 DEF StartupURL, Enter, netVars, AllDone, SomeErr
      <3> QED
        BY <2>1, <3>0
    <2>2. CASE phase' # "ready"
      <3>0. /\ phase = "url"
            /\ phase' = "closing" /\ at' = [i \in Ids |-> "todo"]
            /\ UNCHANGED <<canReplace, silent, lock, subjects, gate, browser,
                           routeIP, browserIP, badCheck, passed, replaced,
                           hostKnown>>
        BY <1>24, <2>2 DEF StartupURL, Enter, netVars, AllDone, SomeErr
      <3> QED
        BY <2>2, <3>0
    <2> QED
      BY <1>24, <2>1, <2>2 DEF StartupURL, Enter, netVars, AllDone, SomeErr
  <1>25. CASE Shutdown
    <2>0. /\ phase = "ready"
          /\ phase' = "closing" /\ at' = [i \in Ids |-> "todo"]
          /\ browser' \in [Ids -> {"none", "alive", "dead"}]
          /\ \A i \in Ids : browser[i] # "alive" => browser'[i] = browser[i]
          /\ UNCHANGED <<canReplace, silent, lock, subjects, gate, routeIP,
                         browserIP, badCheck, passed, replaced, hostKnown>>
      BY <1>25 DEF Shutdown, Enter, netVars
    <2> QED
      BY <2>0
  <1>26. ASSUME NEW i \in Ids, AbortGate(i) PROVE IInv'
    <2>0. /\ phase = "closing"
          /\ at[i] = "todo" /\ at' = [at EXCEPT ![i] = "closed"]
          /\ gate' = [gate EXCEPT ![i] = FALSE]
          /\ UNCHANGED <<canReplace, silent, phase, lock, subjects, browser,
                         routeIP, browserIP, badCheck, passed, replaced,
                         hostKnown>>
      BY <1>26 DEF AbortGate, Step, netVars
    <2> QED
      BY <2>0
  <1>27. ASSUME NEW i \in Ids, Kill(i) PROVE IInv'
    <2>0. /\ phase = "closing"
          /\ at[i] = "closed" /\ at' = [at EXCEPT ![i] = "ok"]
          /\ browser'[i] # "alive"
          /\ \A j \in Ids : j # i => browser'[j] = browser[j]
          /\ i \notin subjects => browser'[i] = "none"
          /\ browser' \in [Ids -> {"none", "alive", "dead"}]
          /\ UNCHANGED <<canReplace, silent, phase, lock, subjects, gate,
                         routeIP, browserIP, badCheck, passed, replaced,
                         hostKnown>>
      BY <1>27 DEF Kill, Step, netVars
    <2> QED
      BY <2>0
  <1>28. CASE Release
    <2>0. /\ phase = "releasing"
          /\ phase' = "ended" /\ at' = [i \in Ids |-> "todo"]
          /\ gate' = [i \in Ids |-> FALSE]
          /\ lock' = FALSE
          /\ UNCHANGED <<canReplace, silent, subjects, browser, routeIP,
                         browserIP, badCheck, passed, replaced, hostKnown>>
      BY <1>28 DEF Release, Enter, netVars
    <2> QED
      BY <2>0
  <1>29. ASSUME NEW i \in Ids, FarEndStalls(i) \/ FarEndEnds(i) PROVE IInv'
    <2>0. /\ silent' \in SUBSET Ids
          /\ UNCHANGED <<canReplace, phase, at, lock, subjects, gate, browser,
                         routeIP, browserIP, badCheck, passed, replaced,
                         hostKnown>>
      BY <1>29 DEF FarEndStalls, FarEndEnds, netVars
    <2> QED
      BY <2>0
  <1>30. CASE UNCHANGED vars
    BY <1>30 DEF vars, netVars
  <1> HIDE DEF IInv, TypeOK, Locked, Opened, Closed, Addresses, Apart, Clean,
        Pinned,
          OnHost, Early, Checked, Up, Phases, Places, Ids
  <1> QED
    BY <1>1, <1>2, <1>3, <1>4, <1>5, <1>6, <1>7, <1>8, <1>9, <1>10, <1>11,
       <1>12, <1>13, <1>14, <1>15, <1>16, <1>17, <1>18, <1>19, <1>20, <1>21,
       <1>22, <1>23, <1>24, <1>25, <1>26, <1>27, <1>28, <1>29,
       <1>30
    DEF Next

\* The inductive invariant holds in every reachable state of the startup.
THEOREM Invariance == Spec => []IInv
  BY InitInv, StepInv, PTL DEF Spec

\* The session, its subjects and their results keep their types.
THEOREM TypeCorrect == Spec => []TypeOK
  <1>1. IInv => TypeOK
    BY DEF IInv
  <1> QED
    BY <1>1, Invariance, PTL

-----------------------------------------------------------------------------
\* session.go:72-74: for any number of identities, a session that reports READY
\* has every gate open and every browser on an address of its own, the one its
\* route is held to from then on, and not the host's if that is known.
THEOREM ReadyMeansVerified == Spec => []ReadyIsVerified
  <1>1. IInv => ReadyIsVerified
    <2> SUFFICES ASSUME IInv, phase = "ready" PROVE ReadyIsVerified
      BY DEF ReadyIsVerified
    <2>1. passed
      BY DEF IInv, Addresses
    <2>2. ASSUME NEW i \in Ids
          PROVE  /\ gate[i] /\ browser[i] # "none"
                 /\ routeIP[i] = browserIP[i] /\ browserIP[i] # NoIP
                 /\ hostKnown => browserIP[i] # Host
      BY <2>1, StartupAssumption
      DEF IInv, Opened, Up, Addresses, Checked, Pinned, OnHost
    <2>3. ASSUME NEW i \in Ids, ~canReplace PROVE Verified(i)
      BY <2>3 DEF IInv, Clean, Verified
    <2>4. \A i, j \in Ids : i # j => browserIP[i] # browserIP[j]
      BY <2>1 DEF IInv, Apart
    <2> QED
      BY <2>2, <2>3, <2>4 DEF ReadyIsVerified
  <1> QED
    BY <1>1, Invariance, PTL

\* ENGINEERING_PLAN.md:267, "No Chromium process may survive a failed start":
\* for any number of identities and wherever the start failed, or was stopped,
\* no browser runs, no gate is open and the set is unlocked.
THEOREM TeardownIsComplete == Spec => []NothingSurvives
  <1>1. IInv => NothingSurvives
    BY DEF IInv, Locked, Closed, NothingSurvives
  <1> QED
    BY <1>1, Invariance, PTL
=============================================================================
