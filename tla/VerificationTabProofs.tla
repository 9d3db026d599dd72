------------------------ MODULE VerificationTabProofs ------------------------
(***************************************************************************)
(* Proofs about the verification tab, for any number of attempts,          *)
(* identities and calls and any length of the gates' logs.                 *)
(*                                                                         *)
(* Navigation: a return of navigateOnce speaks of the past of a document,  *)
(* and Chromium goes on.  The invariant says of every event in the         *)
(* subscription that it is true when it is read (Truthful), of the URL so  *)
(* far that it is of a document heard of (Located), and of a settled       *)
(* attempt that nothing else can be heard of.  That rests on the documents *)
(* being started in order (Ordered): once an attempt's own document is     *)
(* started there is none left to start that would abort it.                *)
(*                                                                         *)
(* Diagnostics: LogInv relates V7's cursor to the log, and the CONNECTs    *)
(* under way to what V7 has done to the gate, and holds of calls at the    *)
(* same time too; CallInv says which identities a call holds and    *)
(* which it has cleaned, as long as calls come one after another.          *)
(***************************************************************************)
EXTENDS VerificationTab, Sequences, TLAPS

(* Navigation: the inductive invariant *)

Docs == Nav!Docs

\* States a document is in once the session has heard of it by a response or by
\* a commit; the ones of them that are no error page, and that were not aborted
\* either; the ones that are committed, and whose load event has come.
Heard == {"responded", "committed", "loaded", "aborted", "error page", "error loaded"}
Good == {"responded", "committed", "loaded", "aborted"}
Alive == {"responded", "committed", "loaded"}
Shown == {"committed", "loaded", "error page", "error loaded"}
Ended == {"loaded", "error loaded"}

Events == [kind : {"response", "failed", "canceled", "navigated", "load"},
           doc : Docs]

\* Documents are started in order, and none before it was asked for.
Ordered ==
  \A d, e \in Docs : doc[d] = "none" /\ d < e => doc[e] = "none"

Asked == \A d \in Docs : d > n => doc[d] = "none"

\* The tab shows a document that was committed; a settled attempt's own, once that
\* is committed.
Showing ==
  /\ doc[shown] \in Shown
  /\ settled /\ doc[n] \in Shown => shown = n

\* A settled attempt began when all earlier documents were final.
Settled == settled => \A d \in Docs : d < n => doc[d] \in Nav!FinalStates

\* Where navigateOnce is, and what it has by then.
Stage ==
  /\ at \in {"calling", "waiting"} => result = "none"
  /\ at = "waiting" \/ result \in {"ok", "blocked"} => doc[n] # "none"
  /\ at = "retry" => attempt < MaxAttempts

\* What an event that was not read says is true, and in a settled attempt it is
\* about the attempt's document.
Truthful(e) ==
  /\ e.kind \in {"response", "navigated"} => doc[e.doc] \in Heard
  /\ e.kind = "response" /\ e.doc = n => doc[n] \in Alive
  /\ e.kind = "load" => doc[e.doc] \in Ended
  /\ e.kind = "failed" => framed \/ doc[e.doc] \in Nav!ErrorStates
  /\ settled => e.doc = n

Queued == \A i \in 1 .. Len(queue) : Truthful(queue[i])

\* The URL that navigateOnce has so far.
Located ==
  at \in {"calling", "waiting"} =>
    /\ final \in Docs => doc[final] \in Heard
    /\ settled => final \in {Nav!NoURL, n}

\* What was returned.
Succeeded ==
  result = "ok" =>
    /\ final \in Docs /\ doc[final] \in Good
    /\ settled => /\ final = n
                  /\ doc[n] \in (IF docOnly THEN Alive ELSE {"loaded"})

Blocked == result = "blocked" /\ settled /\ ~framed => doc[n] \in Nav!ErrorStates

NavInv ==
  /\ Nav!TypeOK
  /\ Ordered /\ Asked /\ Showing /\ Settled
  /\ Stage /\ Queued /\ Located /\ Succeeded /\ Blocked

\* Every proof may use what is assumed of the constants.
USE VerificationTabAssumption

-----------------------------------------------------------------------------
(* What Chromium does to the documents *)

\* What a document that was started does next, by itself or as another one is
\* committed.
Steps ==
  {<<d, d>> : d \in Nav!DocStates} \cup
  {<<"loading", "responded">>, <<"loading", "failed">>, <<"loading", "aborted">>,
   <<"responded", "committed">>, <<"failed", "error page">>,
   <<"committed", "loaded">>, <<"error page", "error loaded">>}

\* An event is sent to the session's subscription, or none is.
Sent ==
  \/ queue' = queue
  \/ \E e \in Events :
       /\ queue' = Append(queue, e)
       /\ at \in {"calling", "waiting"}
       /\ Truthful(e)'

\* A document that got somewhere is not taken back: it may be aborted before it is
\* committed, when a later one is started, and is as it was when it is final.
\* Nothing moves that navigateOnce owns.
DocsMove ==
  /\ doc' \in [Docs -> Nav!DocStates]
  /\ \A d \in Docs :
       /\ \A S \in {Heard, Good, Shown, Nav!ErrorStates, Ended} :
             doc[d] \in S => doc'[d] \in S
       /\ doc[d] \in Nav!FinalStates => doc'[d] = doc[d]
       /\ doc[d] # "none" => doc'[d] # "none"
  /\ doc[n] \in Alive => doc'[n] \in Alive
  /\ Ordered' /\ Asked' /\ Showing'
  /\ shown' \in Docs
  /\ framed' \in BOOLEAN /\ (framed => framed')
  /\ Sent
  /\ UNCHANGED <<at, docOnly, attempt, n, final, result, settled>>

\* Whatever Chromium does, what navigateOnce holds of the documents stays true.
LEMMA MoveKeeps ==
  ASSUME NavInv, DocsMove
  PROVE  NavInv'
<1>0. /\ Nav!TypeOK /\ Ordered /\ Asked /\ Showing /\ Settled
      /\ Stage /\ Queued /\ Located /\ Succeeded /\ Blocked
  BY DEF NavInv
<1>1. /\ doc \in [Docs -> Nav!DocStates] /\ n \in Docs /\ shown \in Docs
      /\ queue \in Seq(Events) /\ final \in Docs \cup {Nav!NoURL}
      /\ framed \in BOOLEAN /\ settled \in BOOLEAN
  BY <1>0 DEF Nav!TypeOK, Docs, Events
<1>2. /\ doc' \in [Docs -> Nav!DocStates]
      /\ Ordered' /\ Asked' /\ Showing'
      /\ shown' \in Docs
      /\ framed' \in BOOLEAN /\ (framed => framed')
      /\ UNCHANGED <<at, docOnly, attempt, n, final, result, settled>>
  BY DEF DocsMove
<1>3. \A d \in Docs :
        /\ doc[d] \in Heard => doc'[d] \in Heard
        /\ doc[d] \in Good => doc'[d] \in Good
        /\ doc[d] \in Nav!ErrorStates => doc'[d] \in Nav!ErrorStates
        /\ doc[d] \in Ended => doc'[d] \in Ended
  BY DEF DocsMove
<1>4. \A d \in Docs :
        /\ doc[d] \in Nav!FinalStates => doc'[d] = doc[d]
        /\ doc[d] # "none" => doc'[d] # "none"
  BY DEF DocsMove
<1>5. doc[n] \in Alive => doc'[n] \in Alive
  BY DEF DocsMove
<1>6. Settled'
  BY <1>0, <1>1, <1>2, <1>4 DEF Settled
<1>7. Stage'
  BY <1>0, <1>1, <1>2, <1>4 DEF Stage
<1>8. \A e \in Events : Truthful(e) => Truthful(e)'
  <2> SUFFICES ASSUME NEW e \in Events, Truthful(e)
               PROVE  Truthful(e)'
    OBVIOUS
  <2>1. e.doc \in Docs
    BY DEF Events
  <2> QED
    BY <2>1, <1>1, <1>2, <1>3, <1>5 DEF Truthful, Ended
<1>9. queue' \in Seq(Events) /\ Queued'
  <2>1. CASE queue' = queue
    <3>1. ASSUME NEW i \in 1 .. Len(queue)
          PROVE  Truthful(queue[i])'
      <4>1. queue[i] \in Events /\ Truthful(queue[i])
        BY <1>0, <1>1 DEF Queued
      <4> QED
        BY <4>1, <2>1, <1>8 DEF Truthful
    <3> QED
      BY <3>1, <2>1, <1>1 DEF Queued
  <2>2. ASSUME NEW e \in Events, queue' = Append(queue, e), Truthful(e)'
        PROVE  queue' \in Seq(Events) /\ Queued'
    <3>1. /\ queue' \in Seq(Events)
          /\ Len(queue') = Len(queue) + 1
          /\ Len(queue) \in Nat
          /\ queue'[Len(queue) + 1] = e
          /\ \A i \in 1 .. Len(queue) : queue'[i] = queue[i]
      BY <2>2, <1>1
    <3>2. ASSUME NEW i \in 1 .. Len(queue')
          PROVE  Truthful(queue[i])'
      <4>1. CASE i = Len(queue) + 1
        BY <4>1, <3>1, <2>2 DEF Truthful
      <4>2. CASE i \in 1 .. Len(queue)
        <5>1. queue[i] \in Events /\ Truthful(queue[i])
          BY <4>2, <1>0, <1>1 DEF Queued
        <5> QED
          BY <5>1, <4>2, <3>1, <1>8 DEF Truthful
      <4> QED
        BY <4>1, <4>2, <3>1
    <3> QED
      BY <3>1, <3>2 DEF Queued
  <2> QED
    BY <2>1, <2>2 DEF DocsMove, Sent
<1>10. Located'
  BY <1>0, <1>1, <1>2, <1>3 DEF Located
<1>11. Succeeded'
  <2>1. doc[n] = "loaded" => doc'[n] = "loaded"
    BY <1>1, <1>4 DEF Nav!FinalStates
  <2> QED
    BY <2>1, <1>0, <1>1, <1>2, <1>3, <1>5 DEF Succeeded
<1>12. Blocked'
  BY <1>0, <1>1, <1>2, <1>3 DEF Blocked
<1>13. Nav!TypeOK'
  BY <1>0, <1>2, <1>9 DEF Nav!TypeOK, Events, Docs
<1> QED
  BY <1>2, <1>6, <1>7, <1>9, <1>10, <1>11, <1>12, <1>13 DEF NavInv

\* Chromium's steps move the documents that way, and say of them what is true.
LEMMA DocsMoveSo ==
  ASSUME NavInv, NEW d \in Docs,
         \/ Nav!Start(d) \/ Nav!Respond(d) \/ Nav!Commit(d)
         \/ Nav!Load(d) \/ Nav!Fail(d) \/ Nav!SubframeFails(d)
  PROVE  DocsMove
<1>0. Ordered /\ Asked /\ Showing /\ Settled
  BY DEF NavInv
<1>1. /\ doc \in [Docs -> Nav!DocStates] /\ n \in Docs /\ shown \in Docs
      /\ framed \in BOOLEAN /\ settled \in BOOLEAN
      /\ Docs \subseteq Nat /\ 0 \in Docs
  BY DEF NavInv, Nav!TypeOK, Docs, Nav!Docs
<1>2. doc[d] # "none" => d <= n
  BY <1>0, <1>1 DEF Asked
<1>3. settled /\ d <= n /\ doc[d] \notin Nav!FinalStates => d = n
  BY <1>0, <1>1 DEF Settled
<1>4. CASE Nav!Start(d)
  <2>0. /\ d \in 1 .. n /\ doc[d] = "none"
        /\ \A e \in 1 .. (d - 1) : doc[e] # "none"
        /\ UNCHANGED <<at, docOnly, attempt, n, shown, final, result, settled, framed>>
    BY <1>4 DEF Nav!Start, Nav!navVars, Nav!history
  <2> DEFINE stopped == {e \in Docs : doc[e] \in {"loading", "responded", "failed"}}
  <2>1. /\ doc' = [e \in Docs |-> IF e = d THEN "loading"
                                  ELSE IF e \in stopped THEN "aborted" ELSE doc[e]]
        /\ \/ stopped = {} /\ UNCHANGED queue
           \/ stopped # {} /\ Nav!Emit("canceled", CHOOSE e \in stopped : TRUE)
    BY <1>4 DEF Nav!Start, Docs
  <2>2. doc[n] = "none"
    BY <2>0, <1>0, <1>1 DEF Ordered
  <2>3. \A e \in Docs : doc'[e] = IF e = d THEN "loading"
                                  ELSE IF doc[e] \in {"loading", "responded", "failed"}
                                    THEN "aborted" ELSE doc[e]
    BY <2>1
  <2>4. doc' \in [Docs -> Nav!DocStates]
    BY <2>1, <1>1 DEF Nav!DocStates
  <2>5. doc[0] # "none"
    <3>1. doc[shown] # "none"
      BY <1>0 DEF Showing, Shown
    <3>2. shown = 0 \/ 0 < shown
      BY <1>1
    <3> QED
      BY <3>1, <3>2, <1>0, <1>1 DEF Ordered
  <2>6. Ordered'
    <3> SUFFICES ASSUME NEW a \in Docs, NEW b \in Docs, doc'[a] = "none", a < b
                 PROVE  doc'[b] = "none"
      BY DEF Ordered
    <3>1. doc[a] = "none" /\ a # d
      BY <2>3
    <3>2. doc[b] = "none"
      BY <3>1, <1>0 DEF Ordered
    <3>3. d <= a
      BY <3>1, <2>0, <2>5, <1>1
    <3> QED
      BY <3>1, <3>2, <3>3, <2>3, <1>1
  <2>7. Asked'
    BY <2>0, <2>3, <1>0, <1>1 DEF Asked
  <2>8. Showing'
    <3>1. doc'[shown] \in Shown
      BY <2>0, <2>3, <1>0, <1>1 DEF Showing, Shown
    <3>2. settled => doc'[n] \notin Shown
      BY <2>0, <2>2, <2>3, <1>1 DEF Shown
    <3> QED
      BY <3>1, <3>2, <2>0 DEF Showing
  <2>9. Sent
    <3>1. CASE queue' = queue
      BY <3>1 DEF Sent
    <3>2. CASE stopped # {} /\ Nav!Emit("canceled", CHOOSE e \in stopped : TRUE)
      <4>1. PICK e \in Docs : e = (CHOOSE x \in stopped : TRUE)
                              /\ doc[e] \in {"loading", "responded", "failed"}
        BY <3>2
      <4>2. doc[e] \in {"loading", "responded", "failed"}
        BY <4>1
      <4>3. ~settled
        <5>1. e < n
          <6>1. doc[e] # "none" /\ doc[e] \notin Nav!FinalStates
            BY <4>2 DEF Nav!FinalStates
          <6>2. ~(e > n) /\ e # n
            BY <6>1, <2>2, <1>0 DEF Asked
          <6> QED
            BY <6>2, <1>1
        <5> QED
          BY <5>1, <4>2, <1>0 DEF Settled, Nav!FinalStates
      <4>4. /\ [kind |-> "canceled", doc |-> e] \in Events
            /\ Truthful([kind |-> "canceled", doc |-> e])'
        BY <4>3, <2>0 DEF Events, Truthful
      <4>5. queue' = queue \/ /\ queue' = Append(queue, [kind |-> "canceled", doc |-> e])
                              /\ at \in {"calling", "waiting"}
        BY <4>1, <3>2 DEF Nav!Emit, Nav!Subscribed
      <4> QED
        BY <4>4, <4>5 DEF Sent
    <3> QED
      BY <3>1, <3>2, <2>1
  <2>10. \A e \in Docs :
           /\ \A S \in {Heard, Good, Shown, Nav!ErrorStates, Ended} :
                doc[e] \in S => doc'[e] \in S
           /\ doc[e] \in Nav!FinalStates => doc'[e] = doc[e]
           /\ doc[e] # "none" => doc'[e] # "none"
    BY <2>0, <2>3 DEF Heard, Good, Shown, Ended, Nav!ErrorStates, Nav!FinalStates
  <2> QED
    BY <2>0, <2>2, <2>4, <2>6, <2>7, <2>8, <2>9, <2>10, <1>1 DEF DocsMove, Alive
\* The steps of a document that has been started.
<1>5. ASSUME NEW kind \in {"response", "failed", "navigated", "load"},
             doc[d] \in {"loading", "responded", "committed", "failed", "error page"},
             doc' \in [Docs -> Nav!DocStates],
             \A e \in Docs : <<doc[e], doc'[e]>> \in Steps,
             \A e \in Docs : doc[e] = "none" => doc'[e] = "none",
             UNCHANGED <<at, docOnly, attempt, n, final, result, settled>>,
             framed' \in BOOLEAN, framed => framed', Showing', shown' \in Docs,
             queue' = queue \/ Nav!Emit(kind, d),
             kind \in {"response", "navigated"} => doc'[d] \in Heard,
             kind = "response" => doc'[d] = "responded",
             kind = "load" => doc'[d] \in Ended,
             kind = "failed" => framed' \/ doc'[d] \in Nav!ErrorStates
      PROVE  DocsMove
  <2>1. d <= n /\ (settled => d = n)
    BY <1>2, <1>3, <1>5 DEF Nav!FinalStates
  <2>2. \A e \in Docs :
           /\ \A S \in {Heard, Good, Shown, Nav!ErrorStates, Ended} :
                doc[e] \in S => doc'[e] \in S
           /\ doc[e] \in Nav!FinalStates => doc'[e] = doc[e]
           /\ doc[e] # "none" <=> doc'[e] # "none"
           /\ doc[e] \in Alive => doc'[e] \in Alive
    <3>1. ASSUME NEW e \in Docs
          PROVE  \/ doc'[e] = doc[e]
                 \/ doc[e] = "loading" /\ doc'[e] \in {"responded", "failed", "aborted"}
                 \/ doc[e] = "responded" /\ doc'[e] = "committed"
                 \/ doc[e] = "failed" /\ doc'[e] = "error page"
                 \/ doc[e] = "committed" /\ doc'[e] = "loaded"
                 \/ doc[e] = "error page" /\ doc'[e] = "error loaded"
      BY <1>5 DEF Steps
    <3>2. \A e \in Docs : /\ doc[e] \in Heard => doc'[e] \in Heard
                          /\ doc[e] \in Good => doc'[e] \in Good
                          /\ doc[e] \in Alive => doc'[e] \in Alive
      BY <3>1 DEF Heard, Good, Alive
    <3>3. \A e \in Docs : /\ doc[e] \in Shown => doc'[e] \in Shown
                          /\ doc[e] \in Nav!ErrorStates => doc'[e] \in Nav!ErrorStates
                          /\ doc[e] \in Ended => doc'[e] \in Ended
      BY <3>1 DEF Shown, Nav!ErrorStates, Ended
    <3>4. \A e \in Docs : /\ doc[e] \in Nav!FinalStates => doc'[e] = doc[e]
                          /\ doc[e] # "none" <=> doc'[e] # "none"
      BY <3>1, <1>5 DEF Nav!FinalStates
    <3> QED
      BY <3>2, <3>3, <3>4
  <2>3. Ordered' /\ Asked'
    BY <2>2, <1>0, <1>1, <1>5 DEF Ordered, Asked
  <2>4. Sent
    <3>1. /\ [kind |-> kind, doc |-> d] \in Events
          /\ Truthful([kind |-> kind, doc |-> d])'
      BY <2>1, <1>5 DEF Events, Truthful, Alive
    <3>2. queue' = queue \/ /\ queue' = Append(queue, [kind |-> kind, doc |-> d])
                            /\ at \in {"calling", "waiting"}
      BY <1>5 DEF Nav!Emit, Nav!Subscribed
    <3> QED
      BY <3>1, <3>2 DEF Sent
  <2> QED
    BY <2>2, <2>3, <2>4, <1>1, <1>5 DEF DocsMove
<1>6. \A e \in Docs : <<doc[e], doc[e]>> \in Steps
  BY <1>1 DEF Steps, Nav!DocStates
<1>7. ASSUME NEW to \in Nav!DocStates, doc' = [doc EXCEPT ![d] = to],
             <<doc[d], to>> \in Steps, doc[d] # "none", shown' = shown,
             UNCHANGED <<n, settled>>
      PROVE  /\ doc' \in [Docs -> Nav!DocStates]
             /\ doc'[d] = to
             /\ \A e \in Docs : <<doc[e], doc'[e]>> \in Steps
             /\ \A e \in Docs : doc[e] = "none" => doc'[e] = "none"
             /\ doc[d] \in Shown \/ to \notin Shown => Showing'
  <2>1. /\ doc' \in [Docs -> Nav!DocStates] /\ doc'[d] = to
        /\ \A e \in Docs \ {d} : doc'[e] = doc[e]
    BY <1>1, <1>7
  <2>2. /\ \A e \in Docs : <<doc[e], doc'[e]>> \in Steps
        /\ \A e \in Docs : doc[e] = "none" => doc'[e] = "none"
    BY <2>1, <1>6, <1>7
  <2>3. doc[d] \in Shown => to \in Shown
    BY <1>7 DEF Steps, Shown
  <2>4. doc[d] \in Shown \/ to \notin Shown => Showing'
    BY <2>1, <2>3, <1>0, <1>1, <1>7 DEF Showing
  <2> QED
    BY <2>1, <2>2, <2>4
<1>8. CASE Nav!Respond(d)
  <2>1. /\ doc[d] = "loading" /\ doc' = [doc EXCEPT ![d] = "responded"]
        /\ Nav!Emit("response", d)
        /\ UNCHANGED <<at, docOnly, attempt, n, shown, final, result, settled, framed>>
    BY <1>8 DEF Nav!Respond, Nav!Move, Nav!navVars, Nav!history
  <2>2. "responded" \in Nav!DocStates /\ <<"loading", "responded">> \in Steps
        /\ "responded" \notin Shown /\ "responded" \in Heard
    BY DEF Nav!DocStates, Steps, Shown, Heard
  <2> QED
    BY <2>1, <2>2, <1>1, <1>5, <1>7
<1>9. CASE Nav!Load(d)
  <2>1. PICK to \in Ended :
        /\ doc[d] \in {"committed", "error page"} /\ <<doc[d], to>> \in Steps
        /\ doc' = [doc EXCEPT ![d] = to]
        /\ Nav!Emit("load", d)
        /\ UNCHANGED <<at, docOnly, attempt, n, shown, final, result, settled, framed>>
    BY <1>9 DEF Nav!Load, Nav!Move, Nav!navVars, Nav!history, Ended, Steps
  <2>2. to \in Nav!DocStates /\ doc[d] \in Shown
    BY <2>1 DEF Nav!DocStates, Shown, Ended
  <2> QED
    BY <2>1, <2>2, <1>1, <1>5, <1>7
<1>10. CASE Nav!Fail(d)
  <2>1. PICK to \in {"failed", "aborted"} :
        /\ doc[d] = "loading"
        /\ doc' = [doc EXCEPT ![d] = to]
        /\ queue' = queue \/ Nav!Emit("failed", d)
        /\ UNCHANGED <<at, docOnly, attempt, n, shown, final, result, settled, framed>>
    BY <1>10 DEF Nav!Fail, Nav!Move, Nav!navVars, Nav!history
  <2>2. /\ to \in Nav!DocStates /\ to \notin Shown /\ <<doc[d], to>> \in Steps
        /\ to \in Nav!ErrorStates
    BY <2>1 DEF Nav!DocStates, Shown, Steps, Nav!ErrorStates
  <2> QED
    BY <2>1, <2>2, <1>1, <1>5, <1>7
<1>11. CASE Nav!SubframeFails(d)
  <2>1. /\ doc[d] = "committed" /\ Nav!Emit("failed", d) /\ framed' = TRUE
        /\ UNCHANGED <<at, docOnly, attempt, n, doc, shown, final, result, settled>>
    BY <1>11 DEF Nav!SubframeFails, Nav!navVars
  <2>2. Showing'
    BY <2>1, <1>0 DEF Showing
  <2> QED
    BY <2>1, <2>2, <1>1, <1>5, <1>6
<1>12. CASE Nav!Commit(d)
  <2>1. /\ doc[d] \in {"responded", "failed"}
        /\ doc' = [doc EXCEPT ![d] = IF @ = "failed" THEN "error page" ELSE "committed",
                              ![shown] = IF @ = "committed" THEN "loaded"
                                         ELSE IF @ = "error page" THEN "error loaded" ELSE @]
        /\ shown' = d /\ Nav!Emit("navigated", d)
        /\ UNCHANGED <<at, docOnly, attempt, n, final, result, settled, framed>>
    BY <1>12 DEF Nav!Commit, Nav!navVars, Nav!history
  <2>2. d # shown
    BY <2>1, <1>0 DEF Showing, Shown
  <2>3. /\ doc' \in [Docs -> Nav!DocStates]
        /\ doc'[d] = IF doc[d] = "failed" THEN "error page" ELSE "committed"
        /\ doc'[shown] = IF doc[shown] = "committed" THEN "loaded"
                         ELSE IF doc[shown] = "error page" THEN "error loaded" ELSE doc[shown]
        /\ \A e \in Docs \ {d, shown} : doc'[e] = doc[e]
    BY <2>1, <2>2, <1>1 DEF Nav!DocStates
  <2>4. /\ \A e \in Docs : <<doc[e], doc'[e]>> \in Steps
        /\ \A e \in Docs : doc[e] = "none" => doc'[e] = "none"
    <3>1. ASSUME NEW e \in Docs
          PROVE  <<doc[e], doc'[e]>> \in Steps /\ (doc[e] = "none" => doc'[e] = "none")
      <4>1. CASE e = d
        BY <4>1, <2>1, <2>3 DEF Steps
      <4>2. CASE e = shown
        BY <4>2, <2>3, <1>0, <1>1, <1>6 DEF Steps, Showing, Shown
      <4>3. CASE e \in Docs \ {d, shown}
        BY <4>3, <2>3, <1>6
      <4> QED
        BY <4>1, <4>2, <4>3
    <3> QED
      BY <3>1
  <2>5. doc'[d] \in Shown /\ doc'[d] \in Heard
    BY <2>1, <2>3 DEF Shown, Heard
  <2>6. settled => d = n
    BY <2>1, <1>2, <1>3 DEF Nav!FinalStates
  <2>7. Showing'
    BY <2>1, <2>5, <2>6 DEF Showing
  <2> QED
    BY <2>1, <2>3, <2>4, <2>5, <2>7, <1>1, <1>5
<1> QED
  BY <1>4, <1>8, <1>9, <1>10, <1>11, <1>12

-----------------------------------------------------------------------------
(* What navigateOnce does *)

\* A new attempt: of the documents so far nothing is known but what they are.
LEMMA AskKeeps ==
  ASSUME NavInv, Nav!Ask, UNCHANGED <<doc, shown>>, docOnly' \in BOOLEAN,
         attempt' \in 0 .. MaxAttempts
  PROVE  NavInv'
<1>0. Nav!TypeOK /\ Ordered /\ Asked /\ Showing /\ Settled
  BY DEF NavInv
<1>1. /\ n < MaxDocs /\ n' = n + 1 /\ at' = "calling" /\ queue' = <<>>
      /\ final' = Nav!NoURL /\ result' = "none" /\ framed' = FALSE
      /\ settled' = (\A d \in 0 .. n : doc[d] \in Nav!FinalStates)
      /\ UNCHANGED <<doc, shown>>
  BY DEF Nav!Ask
<1>2. /\ n \in Docs /\ n' \in Docs /\ n < n' /\ shown \in Docs /\ Docs \subseteq Nat
      /\ Nav!NoURL \notin Docs
      /\ \A d \in Docs : d < n' => d \in 0 .. n
  BY <1>0, <1>1 DEF Nav!TypeOK, Docs, Nav!Docs, Nav!NoURL
<1>3. Nav!TypeOK'
  <2>1. settled' \in BOOLEAN
    BY <1>1, Zenon
  <2>2. queue' \in Seq(Events)
    BY <1>1
  <2> QED
    BY <2>1, <2>2, <1>0, <1>1, <1>2 DEF Nav!TypeOK, Docs, Events
<1>4. doc[n'] = "none"
  BY <1>0, <1>2 DEF Asked
<1>5. Ordered' /\ Asked' /\ Showing'
  BY <1>0, <1>1, <1>2, <1>4 DEF Ordered, Asked, Showing, Shown
<1>6. Settled'
  BY <1>1, <1>2 DEF Settled
<1>7. Stage' /\ Queued' /\ Located' /\ Succeeded' /\ Blocked'
  BY <1>1, <1>2 DEF Stage, Queued, Located, Succeeded, Blocked
<1> QED
  BY <1>3, <1>5, <1>6, <1>7 DEF NavInv

\* A return with what is true of the documents.
LEMMA ReturnKeeps ==
  ASSUME NavInv, NEW r \in {"ok", "blocked", "error"},
         result' = r, queue' = <<>>,
         at' = "idle" \/ (at' = "retry" /\ attempt < MaxAttempts),
         UNCHANGED <<docOnly, attempt, n, doc, shown, settled, framed>>,
         final' \in Docs \cup {Nav!NoURL},
         r \in {"ok", "blocked"} => doc[n] # "none",
         Succeeded', Blocked'
  PROVE  NavInv'
<1>0. Nav!TypeOK /\ Ordered /\ Asked /\ Showing /\ Settled
  BY DEF NavInv
<1>1. Nav!TypeOK'
  BY <1>0 DEF Nav!TypeOK, Docs
<1>2. Ordered' /\ Asked' /\ Showing' /\ Settled'
  BY <1>0 DEF Ordered, Asked, Showing, Settled
<1>3. Stage' /\ Queued' /\ Located'
  BY DEF Stage, Queued, Located
<1> QED
  BY <1>1, <1>2, <1>3 DEF NavInv

\* finish, with a document that was heard of and, in a settled attempt, is its own
\* and has come as far as it has to.
LEMMA FinishKeeps ==
  ASSUME NavInv, NEW url, Nav!Finish(url), at = "waiting",
         NEW u \in Docs, u = (IF url = Nav!NoURL THEN shown ELSE url),
         doc[u] \in Heard,
         settled => u = n /\ doc[n] \in (IF docOnly THEN Alive \cup Ended ELSE Ended)
  PROVE  NavInv'
<1>0. /\ Nav!TypeOK /\ Stage
  BY DEF NavInv
<1>1. PICK r \in {"ok", "blocked"} :
        /\ r = (IF Nav!IsErrorPage(u) THEN "blocked" ELSE "ok")
        /\ Nav!Return(r) /\ final' = u
  BY DEF Nav!Finish
<1>2. /\ result' = r /\ queue' = <<>>
      /\ at' = "idle" \/ (at' = "retry" /\ attempt < MaxAttempts)
      /\ UNCHANGED <<docOnly, attempt, n, doc, shown, settled, framed>>
  BY <1>1 DEF Nav!Return, Nav!navVars, Nav!history
<1>3. doc[n] # "none"
  BY <1>0 DEF Stage
<1>4. r = "ok" => doc[u] \in Good /\ doc[u] # "error loaded"
  BY <1>1 DEF Nav!IsErrorPage, Docs, Heard, Good
<1>5. r = "blocked" => doc[u] \in Nav!ErrorStates
  BY <1>1 DEF Nav!IsErrorPage, Nav!ErrorStates
<1>6. Succeeded'
  BY <1>1, <1>2, <1>4 DEF Succeeded, Alive, Ended
<1>7. Blocked'
  BY <1>1, <1>2, <1>5 DEF Blocked
<1> QED
  BY <1>1, <1>2, <1>3, <1>6, <1>7, ReturnKeeps

\* navigateOnce reads on: the URL it has is of a document it has heard of.
LEMMA ReadOnKeeps ==
  ASSUME NavInv, at = "waiting", queue # <<>>, queue' = Tail(queue),
         UNCHANGED <<at, docOnly, attempt, n, doc, shown, result, settled, framed>>,
         final' \in Docs \cup {Nav!NoURL},
         Located'
  PROVE  NavInv'
<1>0. /\ Nav!TypeOK /\ Ordered /\ Asked /\ Showing /\ Settled
      /\ Stage /\ Queued /\ Succeeded /\ Blocked
  BY DEF NavInv
<1>1. queue \in Seq(Events)
  BY <1>0 DEF Nav!TypeOK, Events, Docs
<1>2. /\ queue' \in Seq(Events)
      /\ Len(queue') = Len(queue) - 1 /\ Len(queue) \in Nat
      /\ \A i \in 1 .. Len(queue') : i + 1 \in 1 .. Len(queue) /\ queue'[i] = queue[i + 1]
  BY <1>1
<1>3. Queued'
  <2>1. ASSUME NEW i \in 1 .. Len(queue')
        PROVE  Truthful(queue[i])'
    <3>1. Truthful(queue[i + 1]) /\ queue'[i] = queue[i + 1]
      BY <1>0, <1>2 DEF Queued
    <3> QED
      BY <3>1 DEF Truthful
  <2> QED
    BY <2>1 DEF Queued
<1>4. Nav!TypeOK'
  BY <1>0, <1>2 DEF Nav!TypeOK, Docs, Events
<1>5. Ordered' /\ Asked' /\ Showing' /\ Settled' /\ Stage'
  BY <1>0 DEF Ordered, Asked, Showing, Settled, Stage
<1>6. Succeeded' /\ Blocked'
  BY <1>0 DEF Stage, Succeeded, Blocked
<1> QED
  BY <1>3, <1>4, <1>5, <1>6 DEF NavInv

\* The events of the subscription, one after the other.
LEMMA ReadKeeps ==
  ASSUME NavInv, Nav!Read
  PROVE  NavInv'
<1>0. /\ Nav!TypeOK /\ Showing /\ Stage /\ Queued /\ Located
  BY DEF NavInv
<1> DEFINE e == Head(queue)
<1>1. /\ at = "waiting" /\ queue # <<>>
      /\ Nav!OnResponse(e) \/ Nav!OnFailed(e) \/ Nav!OnNavigated(e) \/ Nav!OnLoad(e)
  BY DEF Nav!Read
<1>2. /\ n \in Docs /\ shown \in Docs /\ final \in Docs \cup {Nav!NoURL}
      /\ Nav!NoURL \notin Docs /\ queue \in Seq(Events)
      /\ settled \in BOOLEAN /\ docOnly \in BOOLEAN
  BY <1>0 DEF Nav!TypeOK, Docs, Events, Nav!Docs, Nav!NoURL
<1>3. 1 \in 1 .. Len(queue) /\ e = queue[1]
  BY <1>1, <1>2
<1>4. e \in Events /\ Truthful(e)
  BY <1>0, <1>2, <1>3 DEF Queued
<1> HIDE DEF e
<1>5. /\ e.doc \in Docs
      /\ e.kind \in {"response", "navigated"} => doc[e.doc] \in Heard
      /\ e.kind = "response" /\ e.doc = n => doc[n] \in Alive
      /\ e.kind = "load" => doc[e.doc] \in Ended
      /\ e.kind = "failed" => framed \/ doc[e.doc] \in Nav!ErrorStates
      /\ settled => e.doc = n
  BY <1>4 DEF Truthful, Events
<1>6. /\ final \in Docs => doc[final] \in Heard
      /\ settled => final \in {Nav!NoURL, n}
  BY <1>0, <1>1 DEF Located
<1>7. doc[shown] \in Shown /\ (settled /\ doc[n] \in Shown => shown = n)
  BY <1>0 DEF Showing
<1>8. CASE Nav!OnResponse(e)
  <2>1. e.kind = "response"
    BY <1>8 DEF Nav!OnResponse
  <2>2. CASE e.doc = n /\ docOnly
    <3>1. Nav!Finish(n) /\ doc[n] \in Alive /\ n = (IF n = Nav!NoURL THEN shown ELSE n)
      BY <2>1, <2>2, <1>2, <1>5, <1>8 DEF Nav!OnResponse
    <3>2. doc[n] \in Heard
      BY <3>1 DEF Alive, Heard
    <3> QED
      BY <3>1, <3>2, <2>2, <1>1, <1>2, FinishKeeps
  <2>3. CASE ~(e.doc = n /\ docOnly)
    <3>1. /\ final' = IF e.doc = n THEN n ELSE final
          /\ queue' = Tail(queue)
          /\ UNCHANGED <<at, docOnly, attempt, n, doc, shown, result, settled, framed>>
      BY <2>3, <1>8 DEF Nav!OnResponse, Nav!navVars, Nav!history
    <3>2. Located'
      BY <3>1, <2>1, <1>2, <1>5, <1>6 DEF Located
    <3> QED
      BY <3>1, <3>2, <1>1, <1>2, ReadOnKeeps
  <2> QED
    BY <2>2, <2>3
<1>9. CASE Nav!OnNavigated(e)
  <2>1. /\ e.kind = "navigated" /\ final' = e.doc /\ queue' = Tail(queue)
        /\ UNCHANGED <<at, docOnly, attempt, n, doc, shown, result, settled, framed>>
    BY <1>9 DEF Nav!OnNavigated, Nav!navVars, Nav!history
  <2>2. Located'
    BY <2>1, <1>5 DEF Located
  <2> QED
    BY <2>1, <2>2, <1>1, <1>5, ReadOnKeeps
<1>10. CASE Nav!OnLoad(e)
  <2>1. e.kind = "load" /\ Nav!Finish(final)
    BY <1>10 DEF Nav!OnLoad
  <2> DEFINE u == IF final = Nav!NoURL THEN shown ELSE final
  <2>2. u \in Docs /\ doc[u] \in Heard
    BY <1>2, <1>6, <1>7 DEF Shown, Heard
  <2>3. settled => u = n /\ doc[n] \in Ended
    BY <2>1, <1>2, <1>5, <1>6, <1>7 DEF Ended, Shown
  <2> HIDE DEF u
  <2>4. u = (IF final = Nav!NoURL THEN shown ELSE final)
    BY DEF u
  <2> QED
    BY <2>1, <2>2, <2>3, <2>4, <1>1, FinishKeeps
<1>11. CASE Nav!OnFailed(e)
  <2>1. CASE e.kind = "failed" /\ Nav!Return("blocked")
             /\ final' = IF final = Nav!NoURL THEN shown ELSE final
    <3>1. /\ result' = "blocked" /\ queue' = <<>>
          /\ at' = "idle" \/ (at' = "retry" /\ attempt < MaxAttempts)
          /\ UNCHANGED <<docOnly, attempt, n, doc, shown, settled, framed>>
      BY <2>1 DEF Nav!Return, Nav!navVars, Nav!history
    <3>2. doc[n] # "none" /\ final' \in Docs \cup {Nav!NoURL}
      BY <2>1, <1>0, <1>1, <1>2 DEF Stage
    <3>3. Succeeded' /\ Blocked'
      BY <3>1, <2>1, <1>5 DEF Succeeded, Blocked
    <3> QED
      BY <3>1, <3>2, <3>3, ReturnKeeps
  <2>2. CASE /\ e.kind = "canceled" /\ queue' = Tail(queue)
             /\ UNCHANGED <<at, Nav!navVars, doc, shown, final, result, Nav!history>>
    <3>1. UNCHANGED <<at, docOnly, attempt, n, doc, shown, final, result, settled, framed>>
      BY <2>2 DEF Nav!navVars, Nav!history
    <3>2. Located'
      BY <3>1, <1>0 DEF Located
    <3> QED
      BY <3>1, <3>2, <2>2, <1>1, <1>2, ReadOnKeeps
  <2> QED
    BY <2>1, <2>2, <1>11 DEF Nav!OnFailed
<1> QED
  BY <1>1, <1>8, <1>9, <1>10, <1>11

\* Page.navigate is answered, or the context ends first.
LEMMA AnswerKeeps ==
  ASSUME NavInv, Nav!Answer \/ Nav!Timeout
  PROVE  NavInv'
<1>0. Nav!TypeOK /\ Ordered /\ Asked /\ Showing /\ Settled
      /\ Stage /\ Queued /\ Located /\ Succeeded /\ Blocked
  BY DEF NavInv
<1>1. final \in Docs \cup {Nav!NoURL}
  BY <1>0 DEF Nav!TypeOK, Docs
<1>2. CASE Nav!Timeout
  <2>1. /\ result' = "error" /\ queue' = <<>> /\ at' = "idle"
        /\ UNCHANGED <<docOnly, attempt, n, doc, shown, settled, framed, final>>
    BY <1>2 DEF Nav!Timeout, Nav!navVars, Nav!history
  <2>2. Succeeded' /\ Blocked'
    BY <2>1 DEF Succeeded, Blocked
  <2> QED
    BY <2>1, <2>2, <1>1, ReturnKeeps
<1>3. CASE at = "calling" /\ doc[n] \in Nav!ErrorStates /\ Nav!Return("blocked")
           /\ UNCHANGED final
  <2>1. /\ result' = "blocked" /\ queue' = <<>>
        /\ at' = "idle" \/ (at' = "retry" /\ attempt < MaxAttempts)
        /\ UNCHANGED <<docOnly, attempt, n, doc, shown, settled, framed, final>>
    BY <1>3 DEF Nav!Return, Nav!navVars, Nav!history
  <2>2. doc[n] # "none"
    BY <1>3 DEF Nav!ErrorStates
  <2>3. Succeeded' /\ Blocked'
    BY <2>1, <1>3 DEF Succeeded, Blocked
  <2> QED
    BY <2>1, <2>2, <2>3, <1>1, ReturnKeeps
<1>4. CASE at = "calling" /\ doc[n] # "none" /\ at' = "waiting"
           /\ UNCHANGED <<Nav!navVars, doc, shown, queue, final, result, Nav!history>>
  <2>1. UNCHANGED <<docOnly, attempt, n, doc, shown, queue, final, result, settled, framed>>
    BY <1>4 DEF Nav!navVars, Nav!history
  <2>2. Nav!TypeOK'
    BY <2>1, <1>0, <1>4 DEF Nav!TypeOK
  <2>3. Ordered' /\ Asked' /\ Showing' /\ Settled'
    BY <2>1, <1>0 DEF Ordered, Asked, Showing, Settled
  <2>4. Stage' /\ Located' /\ Succeeded' /\ Blocked'
    BY <2>1, <1>0, <1>4 DEF Stage, Located, Succeeded, Blocked
  <2>5. Queued'
    BY <2>1, <1>0 DEF Queued, Truthful
  <2> QED
    BY <2>2, <2>3, <2>4, <2>5 DEF NavInv
<1> QED
  BY <1>2, <1>3, <1>4 DEF Nav!Answer

\* The navigation side begins in NavInv, ...
LEMMA NavInit == Nav!Init => NavInv
<1> SUFFICES ASSUME Nav!Init
             PROVE  NavInv
  OBVIOUS
<1>1. /\ at = "idle" /\ docOnly = FALSE /\ attempt = 0 /\ n = 0
      /\ doc = [d \in Docs |-> IF d = 0 THEN "loaded" ELSE "none"]
      /\ shown = 0 /\ queue = <<>> /\ final = Nav!NoURL /\ result = "none"
      /\ settled = TRUE /\ framed = FALSE
  BY DEF Nav!Init, Docs
<1>2. 0 \in Docs /\ Docs \subseteq Nat /\ Nav!NoURL \notin Docs
  BY DEF Docs, Nav!Docs, Nav!NoURL
<1>3. Nav!TypeOK
  <2>1. doc \in [Docs -> Nav!DocStates]
    BY <1>1 DEF Nav!DocStates
  <2>2. queue \in Seq(Events) /\ attempt \in 0 .. MaxAttempts
    BY <1>1
  <2> QED
    BY <2>1, <2>2, <1>1, <1>2 DEF Nav!TypeOK, Docs, Events
<1>4. Ordered /\ Asked /\ Showing /\ Settled
  BY <1>1, <1>2 DEF Ordered, Asked, Showing, Settled, Shown
<1>5. Stage /\ Queued /\ Located /\ Succeeded /\ Blocked
  BY <1>1, <1>2 DEF Stage, Queued, Located, Succeeded, Blocked
<1> QED
  BY <1>3, <1>4, <1>5 DEF NavInv

\* ... and none of its steps leaves it.
LEMMA NavStep ==
  ASSUME NavInv, Nav!Next
  PROVE  NavInv'
<1>0. /\ docOnly \in BOOLEAN /\ attempt \in 0 .. MaxAttempts
      /\ at = "retry" => attempt < MaxAttempts
  BY DEF NavInv, Nav!TypeOK, Stage
<1>1. CASE Nav!Navigate
  <2>1. Nav!Ask /\ UNCHANGED <<doc, shown>> /\ docOnly' \in BOOLEAN /\ attempt' = 1
    BY <1>1 DEF Nav!Navigate
  <2>2. attempt' \in 0 .. MaxAttempts
    BY <2>1
  <2> QED
    BY <2>1, <2>2, AskKeeps
<1>2. CASE Nav!Retry /\ Nav!Ask
  <2>1. at = "retry" /\ UNCHANGED <<docOnly, doc, shown>> /\ attempt' = attempt + 1
    BY <1>2 DEF Nav!Retry, Nav!Ask
  <2>2. attempt' \in 0 .. MaxAttempts
    BY <2>1, <1>0
  <2> QED
    BY <2>1, <2>2, <1>0, <1>2, AskKeeps
<1>3. CASE at = "retry" /\ at' = "idle"
           /\ UNCHANGED <<Nav!navVars, doc, shown, queue, final, result, Nav!history>>
  <2>1. UNCHANGED <<docOnly, attempt, n, doc, shown, queue, final, result, settled, framed>>
    BY <1>3 DEF Nav!navVars, Nav!history
  <2>2. /\ Nav!TypeOK /\ Ordered /\ Asked /\ Showing /\ Settled
        /\ Stage /\ Queued /\ Located /\ Succeeded /\ Blocked
    BY DEF NavInv
  <2>3. Nav!TypeOK'
    BY <2>1, <2>2, <1>3 DEF Nav!TypeOK
  <2>4. Ordered' /\ Asked' /\ Showing' /\ Settled' /\ Queued'
    BY <2>1, <2>2 DEF Ordered, Asked, Showing, Settled, Queued, Truthful
  <2>5. Stage' /\ Located' /\ Succeeded' /\ Blocked'
    BY <2>1, <2>2, <1>3 DEF Stage, Located, Succeeded, Blocked
  <2> QED
    BY <2>3, <2>4, <2>5 DEF NavInv
<1>4. CASE Nav!Answer \/ Nav!Timeout
  BY <1>4, AnswerKeeps
<1>5. CASE Nav!Read
  BY <1>5, ReadKeeps
<1>6. CASE \E d \in Docs : \/ Nav!Start(d) \/ Nav!Respond(d) \/ Nav!Commit(d)
                          \/ Nav!Load(d) \/ Nav!Fail(d) \/ Nav!SubframeFails(d)
  <2>1. PICK d \in Docs : \/ Nav!Start(d) \/ Nav!Respond(d) \/ Nav!Commit(d)
                          \/ Nav!Load(d) \/ Nav!Fail(d) \/ Nav!SubframeFails(d)
    BY <1>6
  <2>2. DocsMove
    BY <2>1, DocsMoveSo
  <2> QED
    BY <2>2, MoveKeeps
<1>7. Nav!Retry => (Nav!Retry /\ Nav!Ask) \/ (at = "retry" /\ at' = "idle"
           /\ UNCHANGED <<Nav!navVars, doc, shown, queue, final, result, Nav!history>>)
  BY DEF Nav!Retry
<1> QED
  BY <1>1, <1>2, <1>3, <1>4, <1>5, <1>6, <1>7 DEF Nav!Next, Docs

-----------------------------------------------------------------------------
(* Diagnostics: the inductive invariant *)

Subjects == Diag!Subjects

\* The events that EventsSince gives to a V7 that has taken its cursor.
Since(c) == (cursor[c] + 1) .. Len(events[sub[c]])

\* Where V7 holds the gate closed, and where it has its cursor.
HoldingPlaces == {"V7block", "V7open"}
WaitingPlaces == {"V7open", "V7resume", "V7judge"}

\* A CONNECT that counts for c is one of these.
Counted(c) == c \in resumed \/ c \in late \/ c \in meddled

\* A V7 that has its cursor: it is in the log, what the log holds after it is
\* accounted for, and what was admitted since the reopening is there unless the log
\* was cut.  The history of the log speaks of nobody else.
Logged(c) ==
  IF pc[c] \in WaitingPlaces
    THEN /\ cursor[c] <= Len(events[sub[c]])
         /\ \A i \in Since(c) : events[sub[c]][i] = TRUE => Counted(c)
         /\ c \in resumed /\ c \notin cut => \E i \in Since(c) : events[sub[c]][i] = TRUE
    ELSE c \notin resumed /\ c \notin cut

\* The gate is open under a V7 that has closed it, and a CONNECT is admitted then,
\* only by another's doing.
Shut(c) == pc[c] \in HoldingPlaces /\ open[sub[c]] => c \in meddled
Traced(c) == \A k \in Diag!Conns : made[k][c] = "closed" => c \in meddled

AtGate(c) == Logged(c) /\ Shut(c) /\ Traced(c)

\* Calls that have been through Begin: each identity has had a sampler since, if
\* not always theirs, so that stop never meets a nil one.
Begun == {"V2", "V7close", "V7block", "V7open", "V7resume", "V7judge", "stop",
          "stopClose", "closePage"}

Sampled(c) ==
  /\ pc[c] = "idle" => sub[c] = 1
  /\ pc[c] \in {"begin", "sampler"} =>
       \A s \in Subjects : s < sub[c] => sampler[s] \in Calls
  /\ pc[c] \in Begun => \A s \in Subjects : sampler[s] \in Calls

\* What holds of calls at the same time, too.
LogInv ==
  /\ Diag!TypeOK
  /\ events \in [Subjects -> Seq(BOOLEAN)]
  /\ \A c \in Calls : AtGate(c) /\ Sampled(c)

\* An identity is the call's, with the page and the sampler Begin made; or it is
\* finished, and nothing of the call is left there.
Held(c, s) == Page[s] = c /\ sampler[s] = c /\ c \notin closed[s]
Clean(c, s) == c \notin tabs[s] /\ c \notin sampling[s]

\* Where a call does its checks.
Checking == {"V2", "V7close", "V7block", "V7open", "V7resume", "V7judge"}

\* How far each call is with the identities.
Placed(c) ==
  /\ pc[c] \in {"idle", "begin", "sampler"} =>
       \A s \in Subjects : s >= sub[c] => c \notin closed[s]
  /\ pc[c] \in {"begin", "sampler"} =>
       \A s \in Subjects : s < sub[c] => Held(c, s)
  /\ pc[c] \in {"sampler", "closePage"} => Page[sub[c]] = c
  /\ pc[c] \in Checking =>
       \A s \in Subjects : Held(c, s)
  /\ pc[c] \in {"stop", "stopClose", "closePage"} =>
       \A s \in Subjects : s < sub[c] => Clean(c, s)
  /\ pc[c] \in {"stop", "stopClose"} =>
       \A s \in Subjects : s >= sub[c] => Held(c, s)
  /\ pc[c] = "closePage" =>
       /\ c \notin sampling[sub[c]]
       /\ \A s \in Subjects : s > sub[c] => Held(c, s)
  /\ pc[c] = "done" => \A s \in Subjects : Clean(c, s)

\* As long as no call began during another, one runs at a time and each is placed.
CallInv ==
  ~overlap =>
    /\ ~panicked
    /\ \A c, d \in Calls : Diag!Running(c) /\ Diag!Running(d) => c = d
    /\ \A c \in Calls : Placed(c)

DiagInv == LogInv /\ CallInv

-----------------------------------------------------------------------------
(* Diagnostics: types and the log *)

Places == {"idle", "begin", "sampler", "V2", "V7close", "V7block", "V7open",
           "V7resume", "V7judge", "stop", "stopClose", "closePage", "done", "error"}

\* The types of the gates and of V7's histories.
GateTypes ==
  /\ open \in [Subjects -> BOOLEAN]
  /\ conn \in [Diag!Conns -> {"none", "dialing", "refused"}]
  /\ made \in [Diag!Conns -> [Calls -> {"before", "closed", "reopened"}]]
  /\ events \in [Subjects -> Seq(BOOLEAN)]
  /\ \A s \in Subjects : Len(events[s]) <= MaxEvents
  /\ cursor \in [Calls -> 0 .. MaxEvents]
  /\ resumed \subseteq Calls /\ late \subseteq Calls
  /\ meddled \subseteq Calls /\ cut \subseteq Calls

\* Only call c goes on.
Moved(c) ==
  /\ pc' \in [Calls -> Places] /\ sub' \in [Calls -> Subjects]
  /\ \A d \in Calls \ {c} : pc'[d] = pc[d] /\ sub'[d] = sub[d]

\* What Goto does to the calls.
LEMMA GotoMoves ==
  ASSUME Diag!TypeOK, NEW c \in Calls, NEW from, NEW to \in Places,
         Diag!Goto(c, from, to)
  PROVE  /\ pc' \in [Calls -> Places] /\ \A d \in Calls \ {c} : pc'[d] = pc[d]
         /\ pc[c] = from /\ pc'[c] = to /\ ~panicked
         /\ sub' = sub => Moved(c)
<1>1. pc \in [Calls -> Places] /\ sub \in [Calls -> Subjects]
  BY DEF Diag!TypeOK, Places, Subjects
<1>2. /\ pc' \in [Calls -> Places] /\ \A d \in Calls \ {c} : pc'[d] = pc[d]
      /\ pc[c] = from /\ pc'[c] = to /\ ~panicked
  BY <1>1 DEF Diag!Goto
<1> QED
  BY <1>1, <1>2 DEF Moved

\* What Loop does to them.
LEMMA LoopMoves ==
  ASSUME Diag!TypeOK, NEW c \in Calls, NEW from, NEW again \in Places,
         NEW to \in Places, Diag!Loop(c, from, again, to)
  PROVE  /\ Moved(c) /\ pc[c] = from /\ ~panicked
         /\ \/ sub[c] < M /\ pc'[c] = again /\ sub'[c] = sub[c] + 1
            \/ sub[c] = M /\ pc'[c] = to /\ sub'[c] = 1
<1>1. sub \in [Calls -> 1 .. M] /\ 1 \in 1 .. M /\ Subjects = 1 .. M
  BY DEF Diag!TypeOK, Diag!Subjects, Subjects
<1>2. /\ Diag!Goto(c, from, IF sub[c] < M THEN again ELSE to)
      /\ sub' = [sub EXCEPT ![c] = IF sub[c] < M THEN @ + 1 ELSE 1]
  BY DEF Diag!Loop
<1>3. (IF sub[c] < M THEN again ELSE to) \in Places
  OBVIOUS
<1>4. /\ pc' \in [Calls -> Places] /\ \A d \in Calls \ {c} : pc'[d] = pc[d]
      /\ pc[c] = from /\ pc'[c] = (IF sub[c] < M THEN again ELSE to) /\ ~panicked
  BY <1>2, <1>3, GotoMoves
<1>5. /\ sub[c] \in 1 .. M /\ (sub[c] < M \/ sub[c] = M)
      /\ (IF sub[c] < M THEN sub[c] + 1 ELSE 1) \in 1 .. M
  BY <1>1
<1>6. /\ sub' \in [Calls -> 1 .. M] /\ sub'[c] = (IF sub[c] < M THEN sub[c] + 1 ELSE 1)
      /\ \A d \in Calls \ {c} : sub'[d] = sub[d]
  BY <1>1, <1>2, <1>5
<1> QED
  BY <1>1, <1>4, <1>5, <1>6 DEF Moved

\* The log after one more event: it grows, or is full and its first event is gone.
LEMMA RecordedLog ==
  ASSUME NEW s, events[s] \in Seq(BOOLEAN), Len(events[s]) <= MaxEvents,
         NEW ok \in BOOLEAN
  PROVE  LET new == Diag!Recorded(s, ok) IN
         /\ new \in Seq(BOOLEAN) /\ Len(new) <= MaxEvents
         /\ Len(events[s]) < MaxEvents =>
              /\ Len(new) = Len(events[s]) + 1
              /\ new[Len(new)] = ok
              /\ \A i \in 1 .. Len(events[s]) : new[i] = events[s][i]
         /\ Len(events[s]) = MaxEvents =>
              /\ Len(new) = Len(events[s])
              /\ new[Len(new)] = ok
              /\ \A i \in 1 .. (Len(new) - 1) : new[i] = events[s][i + 1]
<1> DEFINE all == Append(events[s], ok)
<1>1. /\ all \in Seq(BOOLEAN) /\ Len(all) = Len(events[s]) + 1 /\ all # <<>>
      /\ Len(events[s]) \in Nat
      /\ all[Len(all)] = ok
      /\ \A i \in 1 .. Len(events[s]) : all[i] = events[s][i]
  OBVIOUS
<1> HIDE DEF all
<1>2. Diag!Recorded(s, ok) = IF Len(all) > MaxEvents THEN Tail(all) ELSE all
  BY DEF Diag!Recorded, all
<1>3. /\ Tail(all) \in Seq(BOOLEAN) /\ Len(Tail(all)) = Len(events[s])
      /\ \A i \in 1 .. Len(events[s]) : Tail(all)[i] = all[i + 1]
  BY <1>1
<1>4. CASE Len(events[s]) < MaxEvents
  <2>1. Diag!Recorded(s, ok) = all
    BY <1>1, <1>2, <1>4
  <2> QED
    BY <2>1, <1>1, <1>4
<1>5. CASE Len(events[s]) = MaxEvents
  <2>1. Diag!Recorded(s, ok) = Tail(all)
    BY <1>1, <1>2, <1>5
  <2> HIDE DEF all
  <2>2. Len(events[s]) \in 1 .. Len(events[s])
    BY <1>1, <1>5
  <2>3. Tail(all)[Len(events[s])] = ok
    BY <2>2, <1>1, <1>3
  <2>4. \A i \in 1 .. (Len(events[s]) - 1) :
          i \in 1 .. Len(events[s]) /\ i + 1 \in 1 .. Len(events[s])
    BY <1>1
  <2>5. \A i \in 1 .. (Len(events[s]) - 1) : Tail(all)[i] = events[s][i + 1]
    BY <2>4, <1>1, <1>3
  <2> QED
    BY <2>1, <2>3, <2>5, <1>1, <1>3, <1>5
<1> QED
  BY <1>1, <1>4, <1>5

\* The type of what the calls and the log are, for the steps below.
LEMMA DiagTypes ==
  ASSUME LogInv
  PROVE  /\ pc \in [Calls -> Places] /\ sub \in [Calls -> Subjects]
         /\ Page \in [Subjects -> Calls \cup {NoCall}]
         /\ sampler \in [Subjects -> Calls \cup {NoCall}]
         /\ tabs \in [Subjects -> SUBSET Calls]
         /\ sampling \in [Subjects -> SUBSET Calls]
         /\ closed \in [Subjects -> SUBSET Calls]
         /\ GateTypes
         /\ \A s \in Subjects : Len(events[s]) <= MaxEvents /\ Len(events[s]) \in Nat
         /\ panicked \in BOOLEAN /\ overlap \in BOOLEAN
BY DEF LogInv, Diag!TypeOK, Places, Subjects, GateTypes

\* A CONNECT is logged while V7s wait: they can tell it from the earlier ones.
LEMMA RecordKeeps ==
  ASSUME LogInv, NEW s \in Subjects, NEW ok \in BOOLEAN,
         NEW when \in [Calls -> {"before", "closed", "reopened"}],
         Diag!Record(s, ok, when),
         \A c \in Calls : when[c] = "closed" => c \in meddled,
         UNCHANGED <<pc, sub, cursor, meddled>>
  PROVE  /\ events' \in [Subjects -> Seq(BOOLEAN)]
         /\ \A t \in Subjects : Len(events'[t]) <= MaxEvents
         /\ resumed' \subseteq Calls /\ late' \subseteq Calls /\ cut' \subseteq Calls
         /\ \A c \in Calls : Logged(c)'
<1>1. /\ events \in [Subjects -> Seq(BOOLEAN)]
      /\ \A t \in Subjects : Len(events[t]) <= MaxEvents /\ Len(events[t]) \in Nat
      /\ resumed \subseteq Calls /\ late \subseteq Calls /\ cut \subseteq Calls
      /\ sub \in [Calls -> Subjects] /\ cursor \in [Calls -> 0 .. MaxEvents]
      /\ \A c \in Calls : Logged(c)
  BY DiagTypes DEF LogInv, AtGate, GateTypes
<1> DEFINE new == Diag!Recorded(s, ok)
           old == events[s]
           W == Diag!Waiting(s)
<1>2. /\ events' = [events EXCEPT ![s] = new]
      /\ resumed' = IF ok THEN resumed \cup {c \in W : when[c] = "reopened"} ELSE resumed
      /\ late' = IF ok THEN late \cup {c \in W : when[c] = "before"} ELSE late
      /\ cut' = IF Len(old) = MaxEvents THEN cut \cup W ELSE cut
  BY DEF Diag!Record
<1>3. /\ new \in Seq(BOOLEAN) /\ Len(new) <= MaxEvents
      /\ Len(old) < MaxEvents =>
           /\ Len(new) = Len(old) + 1
           /\ new[Len(new)] = ok
           /\ \A i \in 1 .. Len(old) : new[i] = old[i]
      /\ Len(old) = MaxEvents =>
           /\ Len(new) = Len(old)
           /\ new[Len(new)] = ok
           /\ \A i \in 1 .. (Len(new) - 1) : new[i] = old[i + 1]
  <2>1. events[s] \in Seq(BOOLEAN) /\ Len(events[s]) <= MaxEvents
    BY <1>1
  <2> QED
    BY <2>1, RecordedLog
<1>4. W = {c \in Calls : sub[c] = s /\ pc[c] \in WaitingPlaces}
  BY DEF Diag!Waiting, WaitingPlaces
<1>5. Len(old) \in Nat /\ Len(old) <= MaxEvents
  BY <1>1
<1> HIDE DEF new, old, W
<1>6. /\ events' \in [Subjects -> Seq(BOOLEAN)] /\ events'[s] = new
      /\ \A t \in Subjects \ {s} : events'[t] = events[t]
  BY <1>1, <1>2, <1>3
<1>7. \A t \in Subjects : Len(events'[t]) <= MaxEvents
  BY <1>1, <1>3, <1>6
<1>8. resumed' \subseteq Calls /\ late' \subseteq Calls /\ cut' \subseteq Calls
  BY <1>1, <1>2, <1>4
<1>9. ASSUME NEW c \in Calls
      PROVE  Logged(c)'
  <2>1. Logged(c)
    BY <1>1
  <2>2. CASE c \notin W
    <3>1. c \in resumed' <=> c \in resumed
      BY <2>2, <1>2
    <3>2. c \in cut' <=> c \in cut
      BY <2>2, <1>2
    <3>3. Counted(c)' <=> Counted(c)
      BY <2>2, <1>2 DEF Counted
    <3>4. CASE pc[c] \in WaitingPlaces
      <4>1. sub[c] # s
        BY <3>4, <2>2, <1>4
      <4>2. events'[sub'[c]] = events[sub[c]]
        BY <4>1, <1>1, <1>6
      <4> QED
        BY <4>2, <3>1, <3>2, <3>3, <3>4, <2>1 DEF Logged, Since
    <3>5. CASE pc[c] \notin WaitingPlaces
      BY <3>1, <3>2, <3>5, <2>1 DEF Logged
    <3> QED
      BY <3>4, <3>5
  <2>3. CASE c \in W
    <3>1. /\ sub[c] = s /\ sub'[c] = s
          /\ pc[c] \in WaitingPlaces /\ pc'[c] \in WaitingPlaces
      BY <2>3, <1>4
    <3> DEFINE k == cursor[c]
    <3>2. /\ k \in Nat /\ k <= Len(old) /\ cursor'[c] = k
          /\ \A i \in (k + 1) .. Len(old) : old[i] = TRUE => Counted(c)
          /\ c \in resumed /\ c \notin cut => \E i \in (k + 1) .. Len(old) : old[i] = TRUE
      BY <3>1, <2>1, <1>1 DEF Logged, Since, old
    <3> HIDE DEF k
    <3>3. /\ ok => Counted(c)'
          /\ Counted(c) => Counted(c)'
          /\ c \in resumed' => ok \/ c \in resumed
      <4>1. when[c] = "before" \/ when[c] = "closed" \/ when[c] = "reopened"
        OBVIOUS
      <4> QED
        BY <4>1, <2>3, <1>2 DEF Counted
    <3>4. (Len(old) = MaxEvents => c \in cut') /\ (Len(old) < MaxEvents => cut' = cut)
      BY <2>3, <1>2, <1>5
    <3>5. /\ k <= Len(new)
          /\ \A i \in (k + 1) .. Len(new) : new[i] = TRUE => Counted(c)'
          /\ c \in resumed' /\ c \notin cut' => \E i \in (k + 1) .. Len(new) : new[i] = TRUE
      <4>1. CASE Len(old) < MaxEvents
        <5>1. /\ Len(new) = Len(old) + 1 /\ new[Len(new)] = ok
              /\ \A i \in 1 .. Len(old) : new[i] = old[i]
          BY <4>1, <1>3
        <5>2. ASSUME NEW i \in (k + 1) .. Len(new), new[i] = TRUE
              PROVE  Counted(c)'
          <6>1. i = Len(new) \/ (i \in (k + 1) .. Len(old) /\ i \in 1 .. Len(old))
            BY <5>1, <3>2, <1>5
          <6> QED
            BY <6>1, <5>1, <5>2, <3>2, <3>3
        <5>3. ASSUME c \in resumed', c \notin cut'
              PROVE  \E i \in (k + 1) .. Len(new) : new[i] = TRUE
          <6>1. CASE ok = TRUE
            <7>1. Len(new) \in (k + 1) .. Len(new)
              BY <5>1, <3>2, <1>5
            <7> QED
              BY <7>1, <6>1, <5>1
          <6>2. CASE c \in resumed
            <7>1. PICK i \in (k + 1) .. Len(old) : old[i] = TRUE
              BY <6>2, <5>3, <4>1, <3>2, <3>4
            <7>2. i \in 1 .. Len(old) /\ i \in (k + 1) .. Len(new)
              BY <5>1, <3>2, <1>5
            <7> QED
              BY <7>1, <7>2, <5>1
          <6> QED
            BY <6>1, <6>2, <5>3, <3>3
        <5>4. k <= Len(new)
          BY <5>1, <3>2, <1>5
        <5> QED
          BY <5>2, <5>3, <5>4
      <4>2. CASE Len(old) = MaxEvents
        <5>1. /\ Len(new) = Len(old) /\ new[Len(new)] = ok
              /\ \A i \in 1 .. (Len(new) - 1) : new[i] = old[i + 1]
          BY <4>2, <1>3
        <5>2. ASSUME NEW i \in (k + 1) .. Len(new), new[i] = TRUE
              PROVE  Counted(c)'
          <6>1. \/ i = Len(new)
                \/ i \in 1 .. (Len(new) - 1) /\ i + 1 \in (k + 1) .. Len(old)
            BY <5>1, <3>2, <1>5
          <6> QED
            BY <6>1, <5>1, <5>2, <3>2, <3>3
        <5> QED
          BY <5>1, <5>2, <4>2, <3>2, <3>4, <1>5
      <4>3. Len(old) < MaxEvents \/ Len(old) = MaxEvents
        BY <1>5
      <4> QED
        BY <4>1, <4>2, <4>3
    <3> QED
      BY <3>1, <3>2, <3>5, <1>6 DEF Logged, Since
  <2> QED
    BY <2>2, <2>3
<1> QED
  BY <1>6, <1>7, <1>8, <1>9

\* Nothing is logged, and call c moves: of the others it may open the gate, which
\* they can tell, and forget nothing.
LEMMA QuietKeeps ==
  ASSUME LogInv, NEW c \in Calls, Moved(c), events' = events,
         \A d \in Calls \ {c} :
           /\ cursor'[d] = cursor[d]
           /\ d \in resumed' <=> d \in resumed
           /\ d \in cut' <=> d \in cut
           /\ d \in late => d \in late'
           /\ d \in meddled => d \in meddled'
           /\ pc[d] \in HoldingPlaces /\ open'[sub[d]] => open[sub[d]] \/ d \in meddled'
           /\ \A k \in Diag!Conns : made'[k][d] = made[k][d],
         AtGate(c)'
  PROVE  \A d \in Calls : AtGate(d)'
<1>1. \A d \in Calls : Logged(d) /\ Shut(d) /\ Traced(d)
  BY DEF LogInv, AtGate
<1>2. ASSUME NEW d \in Calls \ {c}
      PROVE  AtGate(d)'
  <2>1. /\ pc'[d] = pc[d] /\ sub'[d] = sub[d] /\ cursor'[d] = cursor[d]
        /\ d \in resumed' <=> d \in resumed
        /\ d \in cut' <=> d \in cut
        /\ Counted(d) => Counted(d)'
    BY DEF Moved, Counted
  <2>2. Logged(d)'
    BY <2>1, <1>1 DEF Logged, Since
  <2>3. Shut(d)' /\ Traced(d)'
    BY <2>1, <1>1 DEF Shut, Traced
  <2> QED
    BY <2>2, <2>3 DEF AtGate
<1> QED
  BY <1>2

\* The log's part of the invariant from what a step leaves.
LEMMA LogInvIf ==
  ASSUME pc' \in [Calls -> Places], sub' \in [Calls -> Subjects],
         Page' \in [Subjects -> Calls \cup {NoCall}],
         sampler' \in [Subjects -> Calls \cup {NoCall}],
         tabs' \in [Subjects -> SUBSET Calls],
         sampling' \in [Subjects -> SUBSET Calls],
         closed' \in [Subjects -> SUBSET Calls],
         GateTypes', panicked' \in BOOLEAN, overlap' \in BOOLEAN,
         \A c \in Calls : AtGate(c)', \A c \in Calls : Sampled(c)'
  PROVE  LogInv'
BY DEF LogInv, Diag!TypeOK, Places, Subjects, GateTypes

\* Samplers are replaced and never forgotten.
LEMMA SampledKeeps ==
  ASSUME LogInv, NEW c \in Calls, Moved(c),
         \A s \in Subjects : sampler[s] \in Calls => sampler'[s] \in Calls,
         Sampled(c)'
  PROVE  \A d \in Calls : Sampled(d)'
<1>1. ASSUME NEW d \in Calls \ {c}
      PROVE  Sampled(d)'
  <2>1. Sampled(d) /\ pc'[d] = pc[d] /\ sub'[d] = sub[d]
    BY DEF Moved, LogInv
  <2> QED
    BY <2>1 DEF Sampled
<1> QED
  BY <1>1

\* A call that goes on within the checks or within Finish.
LEMMA SampledOn ==
  ASSUME LogInv, NEW c \in Calls, pc[c] \in Begun, pc'[c] \in Begun \cup {"done"},
         \A s \in Subjects : sampler[s] \in Calls => sampler'[s] \in Calls
  PROVE  Sampled(c)'
<1>1. \A s \in Subjects : sampler'[s] \in Calls
  BY DEF LogInv, Sampled
<1> QED
  BY <1>1 DEF Sampled, Begun

\* A step of a call that is not at the gate, and goes to no place where it is.
LEMMA AwayFromLog ==
  ASSUME LogInv, NEW c \in Calls, Moved(c),
         pc[c] \notin HoldingPlaces \cup WaitingPlaces,
         pc'[c] \notin HoldingPlaces \cup WaitingPlaces,
         UNCHANGED <<open, conn, made, events, resumed, late, meddled, cut, cursor>>,
         Page' \in [Subjects -> Calls \cup {NoCall}],
         sampler' \in [Subjects -> Calls \cup {NoCall}],
         tabs' \in [Subjects -> SUBSET Calls],
         sampling' \in [Subjects -> SUBSET Calls],
         closed' \in [Subjects -> SUBSET Calls],
         panicked' \in BOOLEAN, overlap' \in BOOLEAN,
         \A s \in Subjects : sampler[s] \in Calls => sampler'[s] \in Calls,
         Sampled(c)'
  PROVE  LogInv'
<1>1. c \notin resumed' /\ c \notin cut' /\ Traced(c)'
  BY DEF LogInv, AtGate, Logged, Traced
<1>2. AtGate(c)'
  BY <1>1 DEF AtGate, Logged, Shut
<1>3. GateTypes'
  BY DiagTypes DEF GateTypes
<1>4. \A d \in Calls : AtGate(d)'
  BY <1>2, QuietKeeps
<1>5. \A d \in Calls : Sampled(d)'
  BY SampledKeeps
<1> QED
  BY <1>3, <1>4, <1>5, DiagTypes, LogInvIf DEF Moved

\* The check is over: its history is forgotten; it may open the gate.
LEMMA ForgetKeeps ==
  ASSUME LogInv, NEW c \in Calls, Moved(c),
         pc'[c] \notin HoldingPlaces \cup WaitingPlaces,
         Diag!Forget(c), open' \in [Subjects -> BOOLEAN],
         meddled' \subseteq Calls,
         \A d \in Calls \ {c} :
           /\ d \in meddled => d \in meddled'
           /\ pc[d] \in HoldingPlaces /\ open'[sub[d]] => open[sub[d]] \/ d \in meddled',
         UNCHANGED <<Page, sampler, tabs, sampling, closed, panicked, overlap>>,
         Sampled(c)'
  PROVE  LogInv'
<1>1. /\ cursor' = [cursor EXCEPT ![c] = 0]
      /\ resumed' = resumed \ {c} /\ late' = late \ {c} /\ cut' = cut \ {c}
      /\ made' = [k \in Diag!Conns |-> [made[k] EXCEPT ![c] = "before"]]
      /\ conn' = conn /\ events' = events
  BY DEF Diag!Forget
<1>2. cursor' \in [Calls -> 0 .. MaxEvents] /\ \A d \in Calls \ {c} : cursor'[d] = cursor[d]
  BY <1>1, DiagTypes DEF GateTypes
<1>3. /\ made' \in [Diag!Conns -> [Calls -> {"before", "closed", "reopened"}]]
      /\ \A k \in Diag!Conns : /\ made'[k][c] = "before"
                               /\ \A d \in Calls \ {c} : made'[k][d] = made[k][d]
  BY <1>1, DiagTypes DEF GateTypes
<1>4. AtGate(c)'
  BY <1>1, <1>3 DEF AtGate, Logged, Shut, Traced
<1>5. \A d \in Calls : AtGate(d)'
  BY <1>1, <1>2, <1>3, <1>4, QuietKeeps
<1>6. \A d \in Calls : Sampled(d)'
  BY SampledKeeps
<1>7. GateTypes'
  BY <1>1, <1>2, <1>3, DiagTypes DEF GateTypes
<1> QED
  BY <1>5, <1>6, <1>7, DiagTypes, LogInvIf DEF Moved

\* Every step keeps the log's part.
LEMMA LogStep ==
  ASSUME LogInv, Diag!Next
  PROVE  LogInv'
<1>0. /\ Diag!TypeOK /\ Subjects = Diag!Subjects
      /\ Busy \subseteq Subjects
  BY DEF LogInv, Subjects, Diag!Subjects
<1>1. ASSUME NEW c \in Calls, Diag!Call(c)
      PROVE  LogInv'
  <2>1. /\ Diag!Goto(c, "idle", "begin") /\ overlap' \in BOOLEAN
        /\ UNCHANGED <<sub, Page, sampler, tabs, sampling, closed, open, conn, made,
                       events, resumed, late, meddled, cut, cursor, panicked>>
    BY <1>1, DiagTypes DEF Diag!Call, Diag!subjectVars, Diag!gateVars,
       Diag!connVars, Diag!logVars
  <2>2. "begin" \in Places
    BY DEF Places
  <2>3. Moved(c) /\ pc[c] = "idle" /\ pc'[c] = "begin"
    BY <2>1, <2>2, <1>0, GotoMoves
  <2>4. sub'[c] = 1 /\ \A s \in Subjects : ~(s < 1)
    BY <2>1, <2>3 DEF LogInv, Sampled, Subjects, Diag!Subjects
  <2>5. Sampled(c)'
    BY <2>3, <2>4 DEF Sampled, Begun
  <2> QED
    BY <2>1, <2>3, <2>5, DiagTypes, AwayFromLog DEF HoldingPlaces, WaitingPlaces
<1>2. ASSUME NEW c \in Calls, Diag!BeginFails(c)
      PROVE  LogInv'
  <2>1. /\ Diag!Goto(c, "begin", "error")
        /\ UNCHANGED <<sub, Page, sampler, tabs, sampling, closed, open, conn, made,
                       events, resumed, late, meddled, cut, cursor, panicked, overlap>>
    BY <1>2 DEF Diag!BeginFails, Diag!subjectVars, Diag!gateVars,
       Diag!connVars, Diag!logVars
  <2>2. "error" \in Places
    BY DEF Places
  <2>3. Moved(c) /\ pc[c] = "begin" /\ pc'[c] = "error"
    BY <2>1, <2>2, <1>0, GotoMoves
  <2>4. Sampled(c)'
    BY <2>1, <2>3 DEF LogInv, Sampled, Begun
  <2> QED
    BY <2>1, <2>3, <2>4, DiagTypes, AwayFromLog DEF HoldingPlaces, WaitingPlaces
<1>3. ASSUME NEW c \in Calls, Diag!BeginPage(c)
      PROVE  LogInv'
  <2>1. /\ Diag!Goto(c, "begin", "sampler")
        /\ Page' = [Page EXCEPT ![sub[c]] = c]
        /\ tabs' = [tabs EXCEPT ![sub[c]] = @ \cup {c}]
        /\ UNCHANGED <<sub, sampler, sampling, closed, open, conn, made,
                       events, resumed, late, meddled, cut, cursor, panicked, overlap>>
    BY <1>3 DEF Diag!BeginPage, Diag!gateVars,
       Diag!connVars, Diag!logVars
  <2>2. "sampler" \in Places
    BY DEF Places
  <2>3. Moved(c) /\ pc[c] = "begin" /\ pc'[c] = "sampler"
    BY <2>1, <2>2, <1>0, GotoMoves
  <2>4. Page' \in [Subjects -> Calls \cup {NoCall}] /\ tabs' \in [Subjects -> SUBSET Calls]
    BY <2>1, DiagTypes
  <2>5. Sampled(c)'
    BY <2>1, <2>3 DEF LogInv, Sampled, Begun
  <2> QED
    BY <2>1, <2>3, <2>4, <2>5, DiagTypes, AwayFromLog DEF HoldingPlaces, WaitingPlaces
<1>4. ASSUME NEW c \in Calls, Diag!BeginSampler(c)
      PROVE  LogInv'
  <2>1. /\ Diag!Loop(c, "sampler", "begin", "V2")
        /\ sampler' = [sampler EXCEPT ![sub[c]] = c]
        /\ sampling' = [sampling EXCEPT ![sub[c]] = @ \cup {c}]
        /\ UNCHANGED <<Page, tabs, closed, open, conn, made,
                       events, resumed, late, meddled, cut, cursor, panicked, overlap>>
    BY <1>4 DEF Diag!BeginSampler, Diag!gateVars,
       Diag!connVars, Diag!logVars
  <2>2. "begin" \in Places /\ "V2" \in Places
    BY DEF Places
  <2>3. /\ Moved(c) /\ pc[c] = "sampler"
        /\ \/ sub[c] < M /\ pc'[c] = "begin" /\ sub'[c] = sub[c] + 1
           \/ sub[c] = M /\ pc'[c] = "V2"
    BY <2>1, <2>2, <1>0, LoopMoves
  <2>4. /\ sampler' \in [Subjects -> Calls \cup {NoCall}]
        /\ sampling' \in [Subjects -> SUBSET Calls]
    BY <2>1, DiagTypes
  <2>5. /\ \A s \in Subjects : sampler[s] \in Calls => sampler'[s] \in Calls
        /\ sampler'[sub[c]] \in Calls
    BY <2>1, DiagTypes
  <2>6. \A s \in Subjects : s < sub[c] => sampler'[s] \in Calls
    BY <2>3, <2>5 DEF LogInv, Sampled
  <2>7. \A s \in Subjects : s = sub[c] \/ s < sub[c] \/ ~(s < sub[c] + 1)
    BY DiagTypes DEF Subjects, Diag!Subjects
  <2>8. sub[c] = M => \A s \in Subjects : s = sub[c] \/ s < sub[c]
    BY DiagTypes DEF Subjects, Diag!Subjects
  <2>9. Sampled(c)'
    BY <2>3, <2>5, <2>6, <2>7, <2>8 DEF Sampled, Begun
  <2> QED
    BY <2>1, <2>3, <2>4, <2>5, <2>9, DiagTypes, AwayFromLog DEF HoldingPlaces, WaitingPlaces
<1>5. ASSUME NEW c \in Calls, Diag!NilPage(c)
      PROVE  LogInv'
  <2>1. /\ panicked' = TRUE
        /\ UNCHANGED <<pc, sub, Page, sampler, tabs, sampling, closed, open, conn, made,
                       events, resumed, late, meddled, cut, cursor, overlap>>
    BY <1>5 DEF Diag!NilPage, Diag!callVars, Diag!subjectVars, Diag!gateVars,
       Diag!connVars, Diag!logVars
  <2>2. \A d \in Calls : AtGate(d)'
    BY <2>1 DEF LogInv, AtGate, Logged, Since, Counted, Shut, Traced
  <2>3. \A d \in Calls : Sampled(d)'
    BY <2>1 DEF LogInv, Sampled
  <2>4. GateTypes'
    BY <2>1, DiagTypes DEF GateTypes
  <2> QED
    BY <2>1, <2>2, <2>3, <2>4, DiagTypes, LogInvIf
<1>6. ASSUME NEW c \in Calls, Diag!V2(c)
      PROVE  LogInv'
  <2>1. /\ Diag!Loop(c, "V2", "V2", "V7close")
        /\ UNCHANGED <<Page, sampler, tabs, sampling, closed, open, conn, made,
                       events, resumed, late, meddled, cut, cursor, panicked, overlap>>
    BY <1>6 DEF Diag!V2, Diag!subjectVars, Diag!gateVars,
       Diag!connVars, Diag!logVars
  <2>2. "V2" \in Places /\ "V7close" \in Places
    BY DEF Places
  <2>3. Moved(c) /\ pc[c] = "V2" /\ pc'[c] \in {"V2", "V7close"}
    BY <2>1, <2>2, <1>0, LoopMoves
  <2>4. Sampled(c)'
    BY <2>1, <2>3, SampledOn DEF Begun
  <2> QED
    BY <2>1, <2>3, <2>4, DiagTypes, AwayFromLog DEF HoldingPlaces, WaitingPlaces
<1>7. ASSUME NEW c \in Calls, Diag!V7Close(c)
      PROVE  LogInv'
  <2>1. /\ Diag!Goto(c, "V7close", "V7block")
        /\ open' = [open EXCEPT ![sub[c]] = FALSE]
        /\ UNCHANGED <<sub, Page, sampler, tabs, sampling, closed, conn, made,
                       events, resumed, late, meddled, cut, cursor, panicked, overlap>>
    BY <1>7 DEF Diag!V7Close, Diag!subjectVars, Diag!connVars, Diag!logVars
  <2>2. "V7block" \in Places
    BY DEF Places
  <2>3. Moved(c) /\ pc[c] = "V7close" /\ pc'[c] = "V7block"
    BY <2>1, <2>2, <1>0, GotoMoves
  <2>4. /\ open' \in [Subjects -> BOOLEAN] /\ open'[sub[c]] = FALSE
        /\ \A s \in Subjects : open'[s] => open[s]
        /\ sub \in [Calls -> Subjects]
    BY <2>1, DiagTypes DEF GateTypes
  <2>5. AtGate(c)'
    <3>1. c \notin resumed' /\ c \notin cut' /\ Traced(c)'
      BY <2>1, <2>3 DEF LogInv, AtGate, Logged, Traced, WaitingPlaces
    <3>2. Shut(c)'
      BY <2>1, <2>4 DEF Shut
    <3> QED
      BY <3>1, <3>2, <2>3 DEF AtGate, Logged, WaitingPlaces
  <2>6. \A d \in Calls : AtGate(d)'
    BY <2>1, <2>3, <2>4, <2>5, QuietKeeps
  <2>7. \A d \in Calls : Sampled(d)'
    <3>1. Sampled(c)'
      BY <2>1, <2>3, SampledOn DEF Begun
    <3> QED
      BY <3>1, <2>1, <2>3, SampledKeeps
  <2>8. GateTypes'
    BY <2>1, <2>4, DiagTypes DEF GateTypes
  <2> QED
    BY <2>1, <2>3, <2>6, <2>7, <2>8, DiagTypes, LogInvIf DEF Moved
\* What a step that opens the gate of c leaves of the others.
<1>8. ASSUME NEW c \in Calls, open' = [open EXCEPT ![sub[c]] = TRUE],
             \/ meddled' = (meddled \cup Diag!Holding(sub[c])) \ {c}
             \/ meddled' = meddled \cup (Diag!Holding(sub[c]) \ {c})
      PROVE  /\ open' \in [Subjects -> BOOLEAN] /\ meddled' \subseteq Calls
             /\ \A d \in Calls \ {c} :
                  /\ d \in meddled => d \in meddled'
                  /\ pc[d] \in HoldingPlaces /\ open'[sub[d]] =>
                       open[sub[d]] \/ d \in meddled'
  <2>1. /\ open \in [Subjects -> BOOLEAN] /\ meddled \subseteq Calls
        /\ sub \in [Calls -> Subjects]
    BY DiagTypes DEF GateTypes
  <2>2. Diag!Holding(sub[c]) = {d \in Calls : sub[d] = sub[c] /\ pc[d] \in HoldingPlaces}
    BY DEF Diag!Holding, HoldingPlaces
  <2>3. /\ open' \in [Subjects -> BOOLEAN]
        /\ \A s \in Subjects : s # sub[c] => open'[s] = open[s]
    BY <1>8, <2>1
  <2> QED
    BY <1>8, <2>1, <2>2, <2>3
<1>9. ASSUME NEW c \in Calls, Diag!V7Block(c)
      PROVE  LogInv'
  <2>1. UNCHANGED <<Page, sampler, tabs, sampling, closed, panicked, overlap>>
    BY <1>9 DEF Diag!V7Block, Diag!subjectVars
  <2>2. {"V7open", "V7close", "stop"} \subseteq Places
    BY DEF Places
  <2>3. CASE /\ Diag!Goto(c, "V7block", "V7open")
             /\ cursor' = [cursor EXCEPT ![c] = Len(events[sub[c]])]
             /\ UNCHANGED <<sub, open, meddled, conn, made, events, resumed, late, cut>>
    <3>1. Moved(c) /\ pc[c] = "V7block" /\ pc'[c] = "V7open"
      BY <2>2, <2>3, <1>0, GotoMoves
    <3>2. Len(events[sub[c]]) \in 0 .. MaxEvents
      BY DiagTypes
    <3>3. /\ cursor' \in [Calls -> 0 .. MaxEvents] /\ cursor'[c] = Len(events[sub[c]])
          /\ \A d \in Calls \ {c} : cursor'[d] = cursor[d]
      BY <2>3, <3>2, DiagTypes DEF GateTypes
    <3>4. /\ c \notin resumed' /\ Traced(c)' /\ Shut(c)'
      BY <2>3, <3>1 DEF LogInv, AtGate, Logged, Traced, Shut, HoldingPlaces, WaitingPlaces
    <3>5. Since(c)' = {}
      BY <2>3, <3>2, <3>3 DEF Since
    <3>6. AtGate(c)'
      BY <2>3, <3>1, <3>2, <3>3, <3>4, <3>5 DEF AtGate, Logged, WaitingPlaces
    <3>7. \A d \in Calls : AtGate(d)'
      BY <2>3, <3>1, <3>3, <3>6, QuietKeeps
    <3>8. \A d \in Calls : Sampled(d)'
      <4>1. Sampled(c)'
        BY <2>1, <3>1, SampledOn DEF Begun
      <4> QED
        BY <4>1, <2>1, <3>1, SampledKeeps
    <3>9. GateTypes'
      BY <2>3, <3>3, DiagTypes DEF GateTypes
    <3> QED
      BY <2>1, <3>1, <3>7, <3>8, <3>9, DiagTypes, LogInvIf DEF Moved
  <2>4. CASE /\ Diag!Loop(c, "V7block", "V7close", "stop")
             /\ open' = [open EXCEPT ![sub[c]] = TRUE]
             /\ meddled' = (meddled \cup Diag!Holding(sub[c])) \ {c}
             /\ Diag!Forget(c)
    <3>1. Moved(c) /\ pc[c] = "V7block" /\ pc'[c] \in {"V7close", "stop"}
      BY <2>2, <2>4, <1>0, LoopMoves
    <3>2. Sampled(c)'
      BY <3>1, <2>1, SampledOn DEF Begun
    <3>3. pc'[c] \notin HoldingPlaces \cup WaitingPlaces
      BY <3>1 DEF HoldingPlaces, WaitingPlaces
    <3> QED
      BY <3>1, <3>2, <3>3, <2>1, <2>4, <1>8, ForgetKeeps
  <2> QED
    BY <2>3, <2>4, <1>9 DEF Diag!V7Block, Diag!connVars, Diag!logVars
<1>10. ASSUME NEW c \in Calls, Diag!V7Open(c)
       PROVE  LogInv'
  <2>1. /\ Diag!Goto(c, "V7open", "V7resume")
        /\ open' = [open EXCEPT ![sub[c]] = TRUE]
        /\ meddled' = meddled \cup (Diag!Holding(sub[c]) \ {c})
        /\ UNCHANGED <<sub, Page, sampler, tabs, sampling, closed, conn, made,
                       events, resumed, late, cut, cursor, panicked, overlap>>
    BY <1>10 DEF Diag!V7Open, Diag!subjectVars, Diag!connVars, Diag!logVars
  <2>2. "V7resume" \in Places
    BY DEF Places
  <2>3. Moved(c) /\ pc[c] = "V7open" /\ pc'[c] = "V7resume"
    BY <2>1, <2>2, <1>0, GotoMoves
  <2>4. Counted(c) => Counted(c)'
    BY <2>1 DEF Counted
  <2>5. AtGate(c)'
    <3>1. Logged(c)'
      BY <2>1, <2>3, <2>4 DEF LogInv, AtGate, Logged, Since, WaitingPlaces
    <3>2. Shut(c)' /\ Traced(c)'
      BY <2>1, <2>3 DEF LogInv, AtGate, Shut, Traced, HoldingPlaces
    <3> QED
      BY <3>1, <3>2 DEF AtGate
  <2>6. \A d \in Calls : AtGate(d)'
    BY <2>1, <2>3, <2>5, <1>8, QuietKeeps
  <2>7. \A d \in Calls : Sampled(d)'
    <3>1. Sampled(c)'
      BY <2>1, <2>3, SampledOn DEF Begun
    <3> QED
      BY <3>1, <2>1, <2>3, SampledKeeps
  <2>8. GateTypes'
    BY <2>1, <1>8, DiagTypes DEF GateTypes
  <2> QED
    BY <2>1, <2>3, <2>6, <2>7, <2>8, DiagTypes, LogInvIf DEF Moved
<1>11. ASSUME NEW c \in Calls, Diag!V7Resume(c)
       PROVE  LogInv'
  <2>1. UNCHANGED <<Page, sampler, tabs, sampling, closed, open, panicked, overlap>>
    BY <1>11 DEF Diag!V7Resume, Diag!subjectVars
  <2>2. {"V7judge", "V7close", "stop"} \subseteq Places
    BY DEF Places
  <2>3. CASE /\ Diag!Goto(c, "V7resume", "V7judge")
             /\ UNCHANGED <<sub, cursor, meddled, conn, made, events, resumed, late, cut>>
    <3>1. Moved(c) /\ pc[c] = "V7resume" /\ pc'[c] = "V7judge"
      BY <2>2, <2>3, <1>0, GotoMoves
    <3>2. AtGate(c)'
      <4>1. Logged(c)' /\ Traced(c)'
        BY <2>3, <3>1 DEF LogInv, AtGate, Logged, Since, Counted, Traced, WaitingPlaces
      <4>2. Shut(c)'
        BY <3>1 DEF Shut, HoldingPlaces
      <4> QED
        BY <4>1, <4>2 DEF AtGate
    <3>3. \A d \in Calls : AtGate(d)'
      BY <3>1, <3>2, <2>1, <2>3, QuietKeeps
    <3>4. \A d \in Calls : Sampled(d)'
      <4>1. Sampled(c)'
        BY <3>1, <2>1, SampledOn DEF Begun
      <4> QED
        BY <4>1, <2>1, <3>1, SampledKeeps
    <3>5. GateTypes'
      BY <2>1, <2>3, DiagTypes DEF GateTypes
    <3> QED
      BY <2>1, <3>1, <3>3, <3>4, <3>5, DiagTypes, LogInvIf DEF Moved
  <2>4. CASE /\ Diag!Loop(c, "V7resume", "V7close", "stop")
             /\ meddled' = meddled \ {c} /\ Diag!Forget(c)
    <3>1. Moved(c) /\ pc[c] = "V7resume" /\ pc'[c] \in {"V7close", "stop"}
      BY <2>2, <2>4, <1>0, LoopMoves
    <3>2. Sampled(c)'
      BY <3>1, <2>1, SampledOn DEF Begun
    <3>3. pc'[c] \notin HoldingPlaces \cup WaitingPlaces
      BY <3>1 DEF HoldingPlaces, WaitingPlaces
    <3>4. open' \in [Subjects -> BOOLEAN] /\ meddled' \subseteq Calls
      BY <2>1, <2>4, DiagTypes DEF GateTypes
    <3> QED
      BY <3>1, <3>2, <3>3, <3>4, <2>1, <2>4, ForgetKeeps
  <2> QED
    BY <2>3, <2>4, <1>11 DEF Diag!V7Resume, Diag!connVars, Diag!logVars
<1>12. ASSUME NEW c \in Calls, Diag!V7Judge(c)
       PROVE  LogInv'
  <2>1. /\ Diag!Loop(c, "V7judge", "V7close", "stop")
        /\ meddled' = meddled \ {c} /\ Diag!Forget(c)
        /\ UNCHANGED <<Page, sampler, tabs, sampling, closed, open, panicked, overlap>>
    BY <1>12 DEF Diag!V7Judge, Diag!subjectVars
  <2>2. "V7close" \in Places /\ "stop" \in Places
    BY DEF Places
  <2>3. Moved(c) /\ pc[c] = "V7judge" /\ pc'[c] \in {"V7close", "stop"}
    BY <2>1, <2>2, <1>0, LoopMoves
  <2>4. Sampled(c)'
    BY <2>1, <2>3, SampledOn DEF Begun
  <2>5. pc'[c] \notin HoldingPlaces \cup WaitingPlaces
    BY <2>3 DEF HoldingPlaces, WaitingPlaces
  <2>6. open' \in [Subjects -> BOOLEAN] /\ meddled' \subseteq Calls
    BY <2>1, DiagTypes DEF GateTypes
  <2> QED
    BY <2>1, <2>3, <2>4, <2>5, <2>6, ForgetKeeps
<1>13. ASSUME NEW c \in Calls, Diag!StopLooks(c)
       PROVE  LogInv'
  <2>1. /\ Diag!Goto(c, "stop", IF sampler[sub[c]] \in closed[sub[c]]
                                  THEN "closePage" ELSE "stopClose")
        /\ UNCHANGED <<sub, Page, sampler, tabs, sampling, closed, open, conn, made,
                       events, resumed, late, meddled, cut, cursor, panicked, overlap>>
    BY <1>13 DEF Diag!StopLooks, Diag!subjectVars, Diag!gateVars,
       Diag!connVars, Diag!logVars
  <2>2. PICK to \in {"closePage", "stopClose"} : Diag!Goto(c, "stop", to)
    BY <2>1
  <2>3. to \in Places
    BY DEF Places
  <2>4. Moved(c) /\ pc[c] = "stop" /\ pc'[c] = to
    BY <2>1, <2>2, <2>3, <1>0, GotoMoves
  <2>5. Sampled(c)'
    BY <2>1, <2>4, SampledOn DEF Begun
  <2> QED
    BY <2>1, <2>4, <2>5, DiagTypes, AwayFromLog DEF HoldingPlaces, WaitingPlaces
<1>14. ASSUME NEW c \in Calls, Diag!StopCloses(c)
       PROVE  LogInv'
  <2>1. UNCHANGED <<sub, Page, sampler, tabs, open, conn, made,
                       events, resumed, late, meddled, cut, cursor, overlap>>
    BY <1>14 DEF Diag!StopCloses, Diag!gateVars,
       Diag!connVars, Diag!logVars
  <2>2. CASE panicked' = TRUE /\ UNCHANGED <<pc, closed, sampling>>
    <3>1. \A d \in Calls : AtGate(d)'
      BY <2>1, <2>2 DEF LogInv, AtGate, Logged, Since, Counted, Shut, Traced
    <3>2. \A d \in Calls : Sampled(d)'
      BY <2>1, <2>2 DEF LogInv, Sampled
    <3>3. GateTypes'
      BY <2>1, <2>2, DiagTypes DEF GateTypes
    <3> QED
      BY <3>1, <3>2, <3>3, <2>1, <2>2, DiagTypes, LogInvIf
  <2>3. CASE /\ Diag!Goto(c, "stopClose", "closePage")
             /\ sampler[sub[c]] \notin closed[sub[c]]
             /\ closed' = [closed EXCEPT ![sub[c]] = @ \cup {sampler[sub[c]]}]
             /\ sampling' = [sampling EXCEPT ![sub[c]] = @ \ {sampler[sub[c]]}]
             /\ UNCHANGED panicked
    <3>1. "closePage" \in Places
      BY DEF Places
    <3>2. Moved(c) /\ pc[c] = "stopClose" /\ pc'[c] = "closePage"
      BY <3>1, <2>1, <2>3, <1>0, GotoMoves
    <3>3. sampler[sub[c]] \in Calls
      BY <3>2, DiagTypes DEF LogInv, Sampled, Begun
    <3>4. sampling' \in [Subjects -> SUBSET Calls] /\ closed' \in [Subjects -> SUBSET Calls]
      BY <3>3, <2>3, DiagTypes
    <3>5. Sampled(c)'
      BY <3>2, <2>1, SampledOn DEF Begun
    <3> QED
      BY <3>2, <3>4, <3>5, <2>1, <2>3, DiagTypes, AwayFromLog DEF HoldingPlaces, WaitingPlaces
  <2> QED
    BY <2>2, <2>3, <1>14 DEF Diag!StopCloses
<1>15. ASSUME NEW c \in Calls, Diag!ClosePage(c)
       PROVE  LogInv'
  <2>1. /\ Diag!Loop(c, "closePage", "stop", "done")
        /\ tabs' = [tabs EXCEPT ![sub[c]] = @ \ {Page[sub[c]]}]
        /\ Page' = [Page EXCEPT ![sub[c]] = NoCall]
        /\ UNCHANGED <<sampler, sampling, closed, open, conn, made,
                       events, resumed, late, meddled, cut, cursor,
                       panicked, overlap>>
    BY <1>15 DEF Diag!ClosePage, Diag!gateVars,
       Diag!connVars, Diag!logVars
  <2>2. "stop" \in Places /\ "done" \in Places
    BY DEF Places
  <2>3. Moved(c) /\ pc[c] = "closePage" /\ pc'[c] \in {"stop", "done"}
    BY <2>1, <2>2, <1>0, LoopMoves
  <2>4. Page' \in [Subjects -> Calls \cup {NoCall}] /\ tabs' \in [Subjects -> SUBSET Calls]
    BY <2>1, DiagTypes
  <2>5. Sampled(c)'
    BY <2>1, <2>3, SampledOn DEF Begun
  <2> QED
    BY <2>1, <2>3, <2>4, <2>5, DiagTypes, AwayFromLog DEF HoldingPlaces, WaitingPlaces
<1>16. ASSUME NEW k \in Diag!Conns, Diag!Admit(k)
       PROVE  LogInv'
  <2>1. /\ conn' \in [Diag!Conns -> {"none", "dialing", "refused"}]
        /\ UNCHANGED <<pc, sub, Page, sampler, tabs, sampling, closed, open, meddled,
                       events, resumed, late, cut, cursor, panicked, overlap>>
    BY <1>16, DiagTypes DEF Diag!Admit, Diag!callVars, Diag!subjectVars, Diag!logVars,
       GateTypes
  <2> DEFINE new == [d \in Calls |-> Diag!Stage(d, k[1])]
  <2>2. made' = [made EXCEPT ![k] = IF open[k[1]] THEN new ELSE @]
    BY <1>16 DEF Diag!Admit
  <2>3. /\ new \in [Calls -> {"before", "closed", "reopened"}]
        /\ \A d \in Calls : new[d] = "closed" => sub[d] = k[1] /\ pc[d] \in HoldingPlaces
    BY DEF Diag!Stage, Diag!Holding, HoldingPlaces
  <2> HIDE DEF new
  <2>4. made \in [Diag!Conns -> [Calls -> {"before", "closed", "reopened"}]]
    BY DiagTypes DEF GateTypes
  <2>5. made' \in [Diag!Conns -> [Calls -> {"before", "closed", "reopened"}]]
    BY <2>2, <2>3, <2>4
  <2>6. \A l \in Diag!Conns : made'[l] = made[l] \/ (l = k /\ open[k[1]] /\ made'[l] = new)
    BY <2>2, <2>4
  <2>7. ASSUME NEW d \in Calls
        PROVE  AtGate(d)'
    <3>1. Logged(d) /\ Shut(d) /\ Traced(d)
      BY DEF LogInv, AtGate
    <3>2. Logged(d)' /\ Shut(d)'
      BY <2>1, <3>1 DEF Logged, Since, Counted, Shut
    <3>3. Traced(d)'
      BY <2>1, <2>3, <2>6, <3>1 DEF Traced, Shut
    <3> QED
      BY <3>2, <3>3 DEF AtGate
  <2>8. \A d \in Calls : Sampled(d)'
    BY <2>1 DEF LogInv, Sampled
  <2>9. GateTypes'
    BY <2>1, <2>5, DiagTypes DEF GateTypes
  <2> QED
    BY <2>1, <2>7, <2>8, <2>9, DiagTypes, LogInvIf
<1>17. ASSUME NEW k \in Diag!Conns, NEW ok \in BOOLEAN, Diag!Answer(k, ok)
       PROVE  LogInv'
  <2>1. /\ conn' = [conn EXCEPT ![k] = "none"]
        /\ made' = [made EXCEPT ![k] = [c \in Calls |-> "before"]]
        /\ Diag!Record(k[1], ok, made[k])
        /\ UNCHANGED <<pc, sub, Page, sampler, tabs, sampling, closed, open, meddled,
                       cursor, panicked, overlap>>
    BY <1>17 DEF Diag!Answer, Diag!callVars, Diag!subjectVars
  <2>2. /\ made \in [Diag!Conns -> [Calls -> {"before", "closed", "reopened"}]]
        /\ conn \in [Diag!Conns -> {"none", "dialing", "refused"}]
        /\ open \in [Subjects -> BOOLEAN]
    BY DiagTypes DEF GateTypes
  <2>3. k[1] \in Subjects /\ made[k] \in [Calls -> {"before", "closed", "reopened"}]
    BY <1>0, <2>2 DEF Diag!Conns
  <2>4. \A d \in Calls : made[k][d] = "closed" => d \in meddled
    BY DEF LogInv, AtGate, Traced
  <2>5. /\ events' \in [Subjects -> Seq(BOOLEAN)]
        /\ \A t \in Subjects : Len(events'[t]) <= MaxEvents
        /\ resumed' \subseteq Calls /\ late' \subseteq Calls /\ cut' \subseteq Calls
        /\ \A d \in Calls : Logged(d)'
    BY <2>1, <2>3, <2>4, RecordKeeps
  <2>6. /\ made' \in [Diag!Conns -> [Calls -> {"before", "closed", "reopened"}]]
        /\ conn' \in [Diag!Conns -> {"none", "dialing", "refused"}]
        /\ \A l \in Diag!Conns, d \in Calls :
             made'[l][d] = made[l][d] \/ made'[l][d] = "before"
    BY <2>1, <2>2
  <2>7. \A d \in Calls : AtGate(d)'
    BY <2>1, <2>5, <2>6 DEF LogInv, AtGate, Shut, Traced
  <2>8. \A d \in Calls : Sampled(d)'
    BY <2>1 DEF LogInv, Sampled
  <2>9. GateTypes'
    BY <2>1, <2>5, <2>6, DiagTypes DEF GateTypes
  <2> QED
    BY <2>1, <2>7, <2>8, <2>9, DiagTypes, LogInvIf
<1>18. ASSUME NEW s \in Busy, NEW on \in BOOLEAN, Diag!Supervise(s, on)
       PROVE  LogInv'
  <2>1. /\ open' = [open EXCEPT ![s] = on]
        /\ meddled' = IF on THEN meddled \cup Diag!Holding(s) ELSE meddled
        /\ UNCHANGED <<pc, sub, Page, sampler, tabs, sampling, closed, conn, made,
                       events, resumed, late, cut, cursor, panicked, overlap>>
    BY <1>18 DEF Diag!Supervise, Diag!callVars, Diag!subjectVars, Diag!connVars,
       Diag!logVars
  <2>2. /\ open \in [Subjects -> BOOLEAN] /\ meddled \subseteq Calls
        /\ sub \in [Calls -> Subjects] /\ s \in Subjects
    BY <1>0, DiagTypes DEF GateTypes
  <2>3. Diag!Holding(s) = {d \in Calls : sub[d] = s /\ pc[d] \in HoldingPlaces}
    BY DEF Diag!Holding, HoldingPlaces
  <2>4. open' \in [Subjects -> BOOLEAN] /\ meddled' \subseteq Calls
    BY <2>1, <2>2, <2>3
  <2>5. ASSUME NEW d \in Calls
        PROVE  AtGate(d)'
    <3>1. Logged(d) /\ Shut(d) /\ Traced(d)
      BY DEF LogInv, AtGate
    <3>2. d \in meddled => d \in meddled'
      BY <2>1
    <3>3. Counted(d) => Counted(d)'
      BY <2>1, <3>2 DEF Counted
    <3>4. Logged(d)' /\ Traced(d)'
      BY <2>1, <3>1, <3>2, <3>3 DEF Logged, Since, Traced
    <3>5. Shut(d)'
      BY <2>1, <2>2, <2>3, <3>1, <3>2 DEF Shut
    <3> QED
      BY <3>4, <3>5 DEF AtGate
  <2>6. \A d \in Calls : Sampled(d)'
    BY <2>1 DEF LogInv, Sampled
  <2>7. GateTypes'
    BY <2>1, <2>4, DiagTypes DEF GateTypes
  <2> QED
    BY <2>1, <2>5, <2>6, <2>7, DiagTypes, LogInvIf
<1> QED
  BY <1>1, <1>2, <1>3, <1>4, <1>5, <1>6, <1>7, <1>9, <1>10, <1>11, <1>12, <1>13,
     <1>14, <1>15, <1>16, <1>17, <1>18 DEF Diag!Next

-----------------------------------------------------------------------------
(* Diagnostics: calls one after another *)

\* No call but c is under way, and c does nothing to what is another's.
LEMMA AloneKeeps ==
  ASSUME LogInv, ~overlap, \A d \in Calls : Placed(d),
         NEW c \in Calls, Moved(c),
         \A d \in Calls \ {c} : ~Diag!Running(d),
         ~panicked',
         \A d \in Calls \ {c}, s \in Subjects :
           /\ d \in tabs'[s] => d \in tabs[s]
           /\ d \in sampling'[s] => d \in sampling[s]
           /\ d \in closed'[s] => d \in closed[s],
         Placed(c)'
  PROVE  CallInv'
<1>1. ASSUME NEW d \in Calls \ {c}
      PROVE  Placed(d)' /\ ~Diag!Running(d)'
  <2>1. /\ pc'[d] = pc[d] /\ sub'[d] = sub[d] /\ pc[d] \in {"idle", "done", "error"}
        /\ Placed(d)
    BY DEF Moved, Diag!Running
  <2>2. ~Diag!Running(d)'
    BY <2>1 DEF Diag!Running
  <2>3. Placed(d)'
    BY <2>1 DEF Placed, Clean, Checking
  <2> QED
    BY <2>2, <2>3
<1> QED
  BY <1>1 DEF CallInv

\* Every step keeps what holds of calls one after another.
LEMMA CallStep ==
  ASSUME LogInv, CallInv, Diag!Next
  PROVE  CallInv'
<1>0. /\ Diag!TypeOK
      /\ Subjects \subseteq Nat /\ Subjects = 1 .. M
      /\ \A c \in Calls : c # NoCall
  BY DEF LogInv, Subjects, Diag!Subjects
<1>1. overlap => overlap'
  BY DiagTypes DEF Diag!Next, Diag!Call, Diag!BeginFails, Diag!BeginPage,
     Diag!BeginSampler, Diag!NilPage, Diag!V2, Diag!V7Close, Diag!V7Block,
     Diag!V7Open, Diag!V7Resume, Diag!V7Judge, Diag!StopLooks, Diag!StopCloses,
     Diag!ClosePage, Diag!Admit, Diag!Answer, Diag!Supervise
<1> SUFFICES ASSUME ~overlap'
             PROVE  CallInv'
  BY DEF CallInv
<1>2. /\ ~overlap /\ ~panicked
      /\ \A c, d \in Calls : Diag!Running(c) /\ Diag!Running(d) => c = d
      /\ \A c \in Calls : Placed(c)
  BY <1>1 DEF CallInv
<1>3. ASSUME NEW c \in Calls, pc[c] \notin {"idle", "done", "error"}
      PROVE  \A d \in Calls \ {c} : ~Diag!Running(d)
  BY <1>2, <1>3 DEF Diag!Running
<1>4. ASSUME NEW c \in Calls, Diag!Call(c)
      PROVE  CallInv'
  <2>1. /\ Diag!Goto(c, "idle", "begin")
        /\ \A d \in Calls : ~Diag!Running(d)
        /\ UNCHANGED <<sub, Page, sampler, tabs, sampling, closed, panicked>>
    BY <1>4 DEF Diag!Call, Diag!subjectVars
  <2>2. Moved(c) /\ pc[c] = "idle" /\ pc'[c] = "begin"
    BY <2>1, <1>0, GotoMoves DEF Places
  <2>3. sub'[c] = 1 /\ \A s \in Subjects : ~(s < 1)
    BY <2>1, <2>2, <1>0 DEF LogInv, Sampled
  <2>4. Placed(c)'
    BY <2>1, <2>2, <2>3, <1>2 DEF Placed, Checking
  <2> QED
    BY <2>1, <2>2, <2>4, <1>2, AloneKeeps
<1>5. ASSUME NEW c \in Calls, Diag!BeginFails(c)
      PROVE  CallInv'
  <2>1. /\ Diag!Goto(c, "begin", "error")
        /\ UNCHANGED <<sub, Page, sampler, tabs, sampling, closed, panicked>>
    BY <1>5 DEF Diag!BeginFails, Diag!subjectVars
  <2>2. Moved(c) /\ pc[c] = "begin" /\ pc'[c] = "error"
    BY <2>1, <1>0, GotoMoves DEF Places
  <2>3. Placed(c)'
    BY <2>2 DEF Placed, Checking
  <2> QED
    BY <2>1, <2>2, <2>3, <1>2, <1>3, AloneKeeps
<1>6. ASSUME NEW c \in Calls, Diag!BeginPage(c)
      PROVE  CallInv'
  <2>1. /\ Diag!Goto(c, "begin", "sampler")
        /\ Page' = [Page EXCEPT ![sub[c]] = c]
        /\ tabs' = [tabs EXCEPT ![sub[c]] = @ \cup {c}]
        /\ UNCHANGED <<sub, sampler, sampling, closed, panicked>>
    BY <1>6 DEF Diag!BeginPage
  <2>2. Moved(c) /\ pc[c] = "begin" /\ pc'[c] = "sampler"
    BY <2>1, <1>0, GotoMoves DEF Places
  <2>3. /\ sub[c] \in Subjects /\ Page'[sub[c]] = c
        /\ \A s \in Subjects : s # sub[c] => Page'[s] = Page[s]
        /\ \A d \in Calls \ {c}, s \in Subjects : d \in tabs'[s] => d \in tabs[s]
    BY <2>1, DiagTypes
  <2>4. /\ \A s \in Subjects : s >= sub[c] => c \notin closed[s]
        /\ \A s \in Subjects : s < sub[c] => Held(c, s)
    BY <2>2, <1>2 DEF Placed, Checking
  <2>5. \A s \in Subjects : s < sub[c] => s # sub[c]
    BY <2>3, <1>0
  <2>6. Placed(c)'
    BY <2>1, <2>2, <2>3, <2>4, <2>5 DEF Placed, Held, Checking
  <2> QED
    BY <2>1, <2>2, <2>3, <2>6, <1>2, <1>3, AloneKeeps
<1>7. ASSUME NEW c \in Calls, Diag!BeginSampler(c)
      PROVE  CallInv'
  <2>1. /\ Diag!Loop(c, "sampler", "begin", "V2")
        /\ sampler' = [sampler EXCEPT ![sub[c]] = c]
        /\ sampling' = [sampling EXCEPT ![sub[c]] = @ \cup {c}]
        /\ UNCHANGED <<Page, tabs, closed, panicked>>
    BY <1>7 DEF Diag!BeginSampler
  <2>2. /\ Moved(c) /\ pc[c] = "sampler"
        /\ \/ sub[c] < M /\ pc'[c] = "begin" /\ sub'[c] = sub[c] + 1
           \/ sub[c] = M /\ pc'[c] = "V2" /\ sub'[c] = 1
    BY <2>1, <1>0, LoopMoves DEF Places
  <2>3. /\ sub[c] \in Subjects /\ sampler'[sub[c]] = c
        /\ \A s \in Subjects : s # sub[c] => sampler'[s] = sampler[s]
        /\ \A d \in Calls \ {c}, s \in Subjects : d \in sampling'[s] => d \in sampling[s]
    BY <2>1, DiagTypes
  <2>4. /\ \A s \in Subjects : s >= sub[c] => c \notin closed[s]
        /\ \A s \in Subjects : s < sub[c] => Held(c, s)
        /\ Page[sub[c]] = c
    BY <2>2, <1>2 DEF Placed, Checking
  <2>5. /\ sub[c] >= sub[c]
        /\ \A s \in Subjects :
             /\ s < sub[c] => s # sub[c]
             /\ s < sub[c] + 1 => s = sub[c] \/ s < sub[c]
             /\ s >= sub[c] + 1 => s >= sub[c]
             /\ sub[c] = M => s = sub[c] \/ s < sub[c]
    BY <2>3, <1>0
  <2>6. \A s \in Subjects : s = sub[c] \/ s < sub[c] => Held(c, s)'
    BY <2>1, <2>3, <2>4, <2>5 DEF Held
  <2>7. Placed(c)'
    BY <2>1, <2>2, <2>4, <2>5, <2>6 DEF Placed, Checking
  <2> QED
    BY <2>1, <2>2, <2>3, <2>7, <1>2, <1>3, AloneKeeps
<1>8. ASSUME NEW c \in Calls, Diag!NilPage(c)
      PROVE  FALSE
  <2>1. pc[c] \in {"V2", "V7block", "V7resume"} /\ Page[sub[c]] = NoCall
    BY <1>8 DEF Diag!NilPage
  <2>2. Page[sub[c]] = c
    BY <2>1, <1>2, DiagTypes DEF Placed, Held, Checking
  <2> QED
    BY <2>1, <2>2, <1>0
\* The checks: the page and the sampler stay as Begin left them.
<1>9. ASSUME NEW c \in Calls, Moved(c),
             pc[c] \in Checking,
             \/ pc'[c] \in Checking
             \/ pc'[c] = "stop" /\ sub'[c] = 1,
             UNCHANGED <<Page, sampler, tabs, sampling, closed, panicked>>
      PROVE  CallInv'
  <2>1. \A s \in Subjects : Held(c, s)' /\ ~(s < 1)
    BY <1>0, <1>2, <1>9 DEF Placed, Held, Checking
  <2>2. Placed(c)'
    BY <2>1, <1>9 DEF Placed, Checking
  <2> QED
    BY <2>2, <1>2, <1>3, <1>9, AloneKeeps DEF Checking
<1>10. ASSUME NEW c \in Calls, Diag!V2(c)
       PROVE  CallInv'
  <2>1. /\ Diag!Loop(c, "V2", "V2", "V7close")
        /\ UNCHANGED <<Page, sampler, tabs, sampling, closed, panicked>>
    BY <1>10 DEF Diag!V2, Diag!subjectVars
  <2>2. Moved(c) /\ pc[c] = "V2" /\ pc'[c] \in {"V2", "V7close"}
    BY <2>1, <1>0, LoopMoves DEF Places
  <2> QED
    BY <2>1, <2>2, <1>9 DEF Checking
<1>11. ASSUME NEW c \in Calls, Diag!V7Close(c) \/ Diag!V7Open(c)
       PROVE  CallInv'
  <2>1. /\ \/ Diag!Goto(c, "V7close", "V7block")
           \/ Diag!Goto(c, "V7open", "V7resume")
        /\ UNCHANGED <<sub, Page, sampler, tabs, sampling, closed, panicked>>
    BY <1>11 DEF Diag!V7Close, Diag!V7Open, Diag!subjectVars
  <2>2. /\ Moved(c) /\ pc[c] \in {"V7close", "V7open"}
        /\ pc'[c] \in {"V7block", "V7resume"}
    BY <2>1, <1>0, GotoMoves DEF Places
  <2> QED
    BY <2>1, <2>2, <1>9 DEF Checking
<1>12. ASSUME NEW c \in Calls, Diag!V7Block(c)
       PROVE  CallInv'
  <2>1. /\ \/ Diag!Goto(c, "V7block", "V7open") /\ sub' = sub
           \/ Diag!Loop(c, "V7block", "V7close", "stop")
        /\ UNCHANGED <<Page, sampler, tabs, sampling, closed, panicked>>
    BY <1>12 DEF Diag!V7Block, Diag!subjectVars
  <2>2. CASE Diag!Goto(c, "V7block", "V7open") /\ sub' = sub
    <3>1. Moved(c) /\ pc[c] = "V7block" /\ pc'[c] = "V7open"
      BY <2>2, <1>0, GotoMoves DEF Places
    <3> QED
      BY <3>1, <2>1, <1>9 DEF Checking
  <2>3. CASE Diag!Loop(c, "V7block", "V7close", "stop")
    <3>1. /\ Moved(c) /\ pc[c] = "V7block"
          /\ pc'[c] = "V7close" \/ (pc'[c] = "stop" /\ sub'[c] = 1)
      BY <2>3, <1>0, LoopMoves DEF Places
    <3> QED
      BY <3>1, <2>1, <1>9 DEF Checking
  <2> QED
    BY <2>1, <2>2, <2>3
<1>13. ASSUME NEW c \in Calls, Diag!V7Resume(c) \/ Diag!V7Judge(c)
       PROVE  CallInv'
  <2>1. /\ \/ Diag!Goto(c, "V7resume", "V7judge") /\ sub' = sub
           \/ \E from \in {"V7resume", "V7judge"} : Diag!Loop(c, from, "V7close", "stop")
        /\ UNCHANGED <<Page, sampler, tabs, sampling, closed, panicked>>
    BY <1>13 DEF Diag!V7Resume, Diag!V7Judge, Diag!subjectVars
  <2>2. CASE Diag!Goto(c, "V7resume", "V7judge") /\ sub' = sub
    <3>1. Moved(c) /\ pc[c] = "V7resume" /\ pc'[c] = "V7judge"
      BY <2>2, <1>0, GotoMoves DEF Places
    <3> QED
      BY <3>1, <2>1, <1>9 DEF Checking
  <2>3. ASSUME NEW from \in {"V7resume", "V7judge"}, Diag!Loop(c, from, "V7close", "stop")
        PROVE  CallInv'
    <3>1. /\ Moved(c) /\ pc[c] = from
          /\ pc'[c] = "V7close" \/ (pc'[c] = "stop" /\ sub'[c] = 1)
      BY <2>3, <1>0, LoopMoves DEF Places
    <3> QED
      BY <3>1, <2>1, <1>9 DEF Checking
  <2> QED
    BY <2>1, <2>2, <2>3
<1>14. ASSUME NEW c \in Calls, pc[c] \in {"stop", "stopClose"}
       PROVE  /\ \A s \in Subjects : s < sub[c] => Clean(c, s)
              /\ \A s \in Subjects : s >= sub[c] => Held(c, s)
              /\ sub[c] \in Subjects
              /\ Page[sub[c]] = c /\ sampler[sub[c]] = c /\ c \notin closed[sub[c]]
  <2>1. sub[c] \in Subjects /\ sub[c] >= sub[c]
    BY <1>0, DiagTypes
  <2> QED
    BY <2>1, <1>2, <1>14 DEF Placed, Held, Checking
<1>15. ASSUME NEW c \in Calls, Diag!StopLooks(c)
       PROVE  CallInv'
  <2>1. /\ Diag!Goto(c, "stop", IF sampler[sub[c]] \in closed[sub[c]]
                                  THEN "closePage" ELSE "stopClose")
        /\ UNCHANGED <<sub, Page, sampler, tabs, sampling, closed, panicked>>
    BY <1>15 DEF Diag!StopLooks, Diag!subjectVars
  <2>2. pc[c] = "stop"
    BY <2>1 DEF Diag!Goto
  <2>3. Diag!Goto(c, "stop", "stopClose")
    BY <2>1, <2>2, <1>14
  <2>4. Moved(c) /\ pc'[c] = "stopClose"
    BY <2>1, <2>3, <1>0, GotoMoves DEF Places
  <2>5. Placed(c)'
    BY <2>1, <2>2, <2>4, <1>14 DEF Placed, Held, Clean, Checking
  <2> QED
    BY <2>1, <2>2, <2>4, <2>5, <1>2, <1>3, AloneKeeps
<1>16. ASSUME NEW c \in Calls, Diag!StopCloses(c)
       PROVE  CallInv'
  <2>1. pc[c] = "stopClose"
    BY <1>16 DEF Diag!StopCloses, Diag!Goto
  <2>2. /\ Page[sub[c]] = c /\ sampler[sub[c]] = c /\ c \notin closed[sub[c]]
        /\ sub[c] \in Subjects
        /\ \A s \in Subjects : s < sub[c] => Clean(c, s)
        /\ \A s \in Subjects : s >= sub[c] => Held(c, s)
    BY <2>1, <1>14
  <2>3. /\ Diag!Goto(c, "stopClose", "closePage")
        /\ closed' = [closed EXCEPT ![sub[c]] = @ \cup {c}]
        /\ sampling' = [sampling EXCEPT ![sub[c]] = @ \ {c}]
        /\ UNCHANGED <<sub, Page, sampler, tabs, panicked>>
    BY <2>2, <1>16 DEF Diag!StopCloses
  <2>4. Moved(c) /\ pc'[c] = "closePage"
    BY <2>3, <1>0, GotoMoves DEF Places
  <2>5. /\ c \notin sampling'[sub[c]]
        /\ \A s \in Subjects : s # sub[c] => sampling'[s] = sampling[s] /\ closed'[s] = closed[s]
        /\ \A d \in Calls \ {c}, s \in Subjects :
             (d \in sampling'[s] => d \in sampling[s]) /\ (d \in closed'[s] => d \in closed[s])
    BY <2>2, <2>3, DiagTypes
  <2>6. \A s \in Subjects : /\ s < sub[c] => s # sub[c]
                            /\ s > sub[c] => s # sub[c] /\ s >= sub[c]
    BY <2>2, <1>0
  <2>7. Placed(c)'
    BY <2>2, <2>3, <2>4, <2>5, <2>6 DEF Placed, Held, Clean, Checking
  <2> QED
    BY <2>1, <2>3, <2>4, <2>5, <2>7, <1>2, <1>3, AloneKeeps
<1>17. ASSUME NEW c \in Calls, Diag!ClosePage(c)
       PROVE  CallInv'
  <2>1. /\ Diag!Loop(c, "closePage", "stop", "done")
        /\ tabs' = [tabs EXCEPT ![sub[c]] = @ \ {Page[sub[c]]}]
        /\ Page' = [Page EXCEPT ![sub[c]] = NoCall]
        /\ UNCHANGED <<sampler, sampling, closed, panicked>>
    BY <1>17 DEF Diag!ClosePage
  <2>2. /\ Moved(c) /\ pc[c] = "closePage"
        /\ \/ sub[c] < M /\ pc'[c] = "stop" /\ sub'[c] = sub[c] + 1
           \/ sub[c] = M /\ pc'[c] = "done" /\ sub'[c] = 1
    BY <2>1, <1>0, LoopMoves DEF Places
  <2>3. /\ Page[sub[c]] = c /\ c \notin sampling[sub[c]]
        /\ \A s \in Subjects : s < sub[c] => Clean(c, s)
        /\ \A s \in Subjects : s > sub[c] => Held(c, s)
    BY <2>2, <1>2 DEF Placed, Checking
  <2>4. /\ sub[c] \in Subjects /\ c \notin tabs'[sub[c]]
        /\ \A s \in Subjects : s # sub[c] => Page'[s] = Page[s] /\ tabs'[s] = tabs[s]
        /\ \A d \in Calls, s \in Subjects : d \in tabs'[s] => d \in tabs[s]
    BY <2>1, <2>3, DiagTypes
  <2>5. \A s \in Subjects :
          /\ s < sub[c] => s # sub[c]
          /\ s > sub[c] => s # sub[c]
          /\ s < sub[c] + 1 => s = sub[c] \/ s < sub[c]
          /\ s >= sub[c] + 1 => s > sub[c]
          /\ sub[c] = M => s = sub[c] \/ s < sub[c]
    BY <2>4, <1>0
  <2>6. /\ \A s \in Subjects : s = sub[c] \/ s < sub[c] => Clean(c, s)'
        /\ \A s \in Subjects : s > sub[c] => Held(c, s)'
    BY <2>1, <2>3, <2>4, <2>5 DEF Clean, Held
  <2>7. Placed(c)'
    BY <2>2, <2>5, <2>6 DEF Placed, Checking
  <2> QED
    BY <2>1, <2>2, <2>4, <2>7, <1>2, <1>3, AloneKeeps
<1>18. ASSUME \/ \E k \in Diag!Conns : Diag!Admit(k) \/ \E ok \in BOOLEAN : Diag!Answer(k, ok)
              \/ \E s \in Busy, on \in BOOLEAN : Diag!Supervise(s, on)
       PROVE  CallInv'
  <2>1. UNCHANGED <<pc, sub, Page, sampler, tabs, sampling, closed, panicked, overlap>>
    BY <1>18 DEF Diag!Admit, Diag!Answer, Diag!Supervise, Diag!callVars, Diag!subjectVars
  <2>2. \A c \in Calls : Placed(c)' /\ (Diag!Running(c)' <=> Diag!Running(c))
    BY <2>1, <1>2 DEF Placed, Held, Clean, Diag!Running, Checking
  <2> QED
    BY <2>1, <2>2, <1>2 DEF CallInv
<1> QED
  BY <1>4, <1>5, <1>6, <1>7, <1>8, <1>10, <1>11, <1>12, <1>13, <1>15, <1>16,
     <1>17, <1>18 DEF Diag!Next

\* The diagnostics begin in DiagInv.
LEMMA DiagInit == Diag!Init => DiagInv
<1> SUFFICES ASSUME Diag!Init
             PROVE  DiagInv
  OBVIOUS
<1>1. /\ pc = [c \in Calls |-> "idle"] /\ sub = [c \in Calls |-> 1]
      /\ Page = [s \in Subjects |-> NoCall] /\ sampler = [s \in Subjects |-> NoCall]
      /\ tabs = [s \in Subjects |-> {}] /\ sampling = [s \in Subjects |-> {}]
      /\ closed = [s \in Subjects |-> {}] /\ events = [s \in Subjects |-> <<>>]
      /\ cursor = [c \in Calls |-> 0] /\ resumed = {} /\ cut = {}
      /\ late = {} /\ meddled = {}
      /\ open = [s \in Subjects |-> TRUE] /\ conn = [k \in Diag!Conns |-> "none"]
      /\ made = [k \in Diag!Conns |-> [c \in Calls |-> "before"]]
      /\ panicked = FALSE /\ overlap = FALSE
  BY DEF Diag!Init, Subjects
<1>2. 1 \in Subjects /\ 0 \in 0 .. MaxEvents
  BY DEF Subjects, Diag!Subjects
<1>3. Diag!TypeOK /\ events \in [Subjects -> Seq(BOOLEAN)]
  <2>1. events \in [Subjects -> Seq(BOOLEAN)] /\ \A s \in Subjects : Len(events[s]) = 0
    BY <1>1
  <2>2. /\ pc \in [Calls -> Places] /\ sub \in [Calls -> Subjects]
        /\ cursor \in [Calls -> 0 .. MaxEvents]
    BY <1>1, <1>2 DEF Places
  <2>3. /\ Page \in [Subjects -> Calls \cup {NoCall}]
        /\ sampler \in [Subjects -> Calls \cup {NoCall}]
        /\ tabs \in [Subjects -> SUBSET Calls] /\ sampling \in [Subjects -> SUBSET Calls]
        /\ closed \in [Subjects -> SUBSET Calls]
        /\ \A s \in Subjects : Len(events[s]) <= MaxEvents /\ events[s] \in Seq(BOOLEAN)
    BY <2>1, <1>1
  <2>4. /\ resumed \subseteq Calls /\ late \subseteq Calls
        /\ meddled \subseteq Calls /\ cut \subseteq Calls
        /\ panicked \in BOOLEAN /\ overlap \in BOOLEAN
        /\ open \in [Subjects -> BOOLEAN]
        /\ conn \in [Diag!Conns -> {"none", "dialing", "refused"}]
        /\ made \in [Diag!Conns -> [Calls -> {"before", "closed", "reopened"}]]
    BY <1>1
  <2> QED
    BY <2>1, <2>2, <2>3, <2>4 DEF Diag!TypeOK, Places, Subjects
<1>4. \A c \in Calls : AtGate(c) /\ Sampled(c)
  BY <1>1 DEF AtGate, Logged, Shut, Traced, Sampled, Begun, HoldingPlaces, WaitingPlaces
<1>5. \A c \in Calls : Placed(c) /\ ~Diag!Running(c)
  BY <1>1 DEF Placed, Diag!Running, Checking
<1> QED
  BY <1>1, <1>3, <1>4, <1>5 DEF DiagInv, LogInv, CallInv

-----------------------------------------------------------------------------
(* The theorems *)

IInv == NavInv /\ DiagInv

\* The invariant holds at the start: the tab at about:blank and no call made, ...
LEMMA InitInv == Init => IInv
BY NavInit, DiagInit DEF Init, IInv

\* ... and a step of either side keeps it, with the other one at rest.
LEMMA StepInv == IInv /\ [Next]_vars => IInv'
<1> SUFFICES ASSUME IInv, [Next]_vars
             PROVE  IInv'
  OBVIOUS
<1>0. NavInv /\ LogInv /\ CallInv
  BY DEF IInv, DiagInv
<1>1. ASSUME UNCHANGED navVars
      PROVE  NavInv'
  <2>1. UNCHANGED <<at, docOnly, attempt, n, doc, shown, queue, final, result, settled,
                    framed>>
    BY <1>1 DEF navVars
  <2>2. /\ Nav!TypeOK /\ Ordered /\ Asked /\ Showing /\ Settled
        /\ Stage /\ Queued /\ Located /\ Succeeded /\ Blocked
    BY <1>0 DEF NavInv
  <2>3. Nav!TypeOK' /\ Ordered' /\ Asked' /\ Showing' /\ Settled'
    BY <2>1, <2>2 DEF Nav!TypeOK, Ordered, Asked, Showing, Settled
  <2>4. Stage' /\ Queued' /\ Located' /\ Succeeded' /\ Blocked'
    BY <2>1, <2>2 DEF Stage, Queued, Truthful, Located, Succeeded, Blocked
  <2> QED
    BY <2>3, <2>4 DEF NavInv
<1>2. ASSUME UNCHANGED diagVars
      PROVE  LogInv' /\ CallInv'
  <2>1. UNCHANGED <<pc, sub, Page, sampler, tabs, sampling, closed, open, conn, made,
                    events, cursor, resumed, late, meddled, cut, panicked, overlap>>
    BY <1>2 DEF diagVars
  <2>2. \A c \in Calls : AtGate(c)' /\ Sampled(c)'
    BY <2>1, <1>0 DEF LogInv, AtGate, Logged, Since, Counted, Shut, Traced, Sampled
  <2>3. GateTypes'
    BY <2>1, <1>0, DiagTypes DEF GateTypes
  <2>4. LogInv'
    BY <2>1, <2>2, <2>3, <1>0, DiagTypes, LogInvIf
  <2>5. \A c \in Calls : /\ Placed(c) => Placed(c)'
                         /\ Diag!Running(c)' <=> Diag!Running(c)
    BY <2>1 DEF Placed, Held, Clean, Diag!Running
  <2>6. CallInv'
    BY <2>1, <2>5, <1>0 DEF CallInv
  <2> QED
    BY <2>4, <2>6
<1>3. CASE Navigations
  <2>1. Nav!Next /\ UNCHANGED diagVars
    BY <1>3 DEF Navigations
  <2> QED
    BY <2>1, <1>0, <1>2, NavStep DEF IInv, DiagInv
<1>4. CASE DiagnosticsRuns
  <2>1. Diag!Next /\ UNCHANGED navVars
    BY <1>4 DEF DiagnosticsRuns
  <2> QED
    BY <2>1, <1>0, <1>1, LogStep, CallStep DEF IInv, DiagInv
<1>5. CASE UNCHANGED vars
  <2>1. UNCHANGED navVars /\ UNCHANGED diagVars
    BY <1>5 DEF vars
  <2> QED
    BY <2>1, <1>1, <1>2 DEF IInv, DiagInv
<1> QED
  BY <1>3, <1>4, <1>5 DEF Next

\* The inductive invariant holds in every state of the verification tab, for any
\* number of attempts, identities and calls and any length of the log.
THEOREM Invariance == Spec => []IInv
BY InitInv, StepInv, PTL DEF Spec

\* Types: the locals of navigateOnce, the Subjects and the gates' logs.
THEOREM TypeCorrect == Spec => [](Nav!TypeOK /\ Diag!TypeOK)
<1>1. IInv => Nav!TypeOK /\ Diag!TypeOK
  BY DEF IInv, NavInv, DiagInv, LogInv
<1> QED
  BY <1>1, Invariance, PTL

\* page.go navigateOnce: a success is the document that was asked for, over any
\* number of timeouts, retries and late events, and never an error page; and
\* Blocked, V7's proof that the gate is closed, is about its own document.
THEOREM ResultHolds == Spec => []ResultIsItsOwn
<1>1. IInv => Nav!SuccessIsItsOwn
  BY DEF IInv, NavInv, Succeeded, Good, Alive, Nav!SuccessIsItsOwn, Nav!IsErrorPage
<1>2. IInv => Nav!BlockedIsItsOwn
  BY DEF IInv, NavInv, Blocked, Nav!BlockedIsItsOwn
<1>3. IInv => ResultIsItsOwn
  BY <1>1, <1>2 DEF ResultIsItsOwn
<1> QED
  BY <1>3, Invariance, PTL

\* verify.go Finish: diagnostics one after another leave nothing and never panic.
THEOREM FinishIsComplete == Spec => []DiagnosticsCleansUp
<1>1. IInv => DiagnosticsCleansUp
  BY DEF IInv, DiagInv, CallInv, Placed, Clean, DiagnosticsCleansUp,
     Diag!DiagnosticsCleansUp, Subjects
<1> QED
  BY <1>1, Invariance, PTL

\* verify.go V7: it passes for a CONNECT admitted after the reopening, but for one
\* that was dialing since before the gate was closed and for another that opened the
\* gate, and misses one only in a log that was cut; for calls at the same time too.
THEOREM ResumptionIsSeen == Spec => []ResumeIsSeen
<1>1. ASSUME IInv, NEW c \in Calls, pc[c] = "V7judge"
      PROVE  /\ Diag!Passes(c) => c \in resumed \cup late \cup meddled
             /\ (c \in resumed /\ ~Diag!Passes(c)) => c \in cut
  <2>1. LogInv
    BY <1>1 DEF IInv, DiagInv
  <2> DEFINE ev == events[sub[c]]
             k == cursor[c]
  <2>2. ev \in Seq(BOOLEAN) /\ Len(ev) \in Nat /\ k \in Nat
    BY <2>1, DiagTypes DEF GateTypes
  <2>3. /\ k <= Len(ev)
        /\ \A i \in (k + 1) .. Len(ev) : ev[i] = TRUE => Counted(c)
        /\ c \in resumed /\ c \notin cut => \E i \in (k + 1) .. Len(ev) : ev[i] = TRUE
    BY <2>1, <1>1 DEF LogInv, AtGate, Logged, Since, WaitingPlaces
  <2>4. Diag!EventsSince(sub[c], cursor[c]) = SubSeq(ev, k + 1, Len(ev))
    <3>1. (IF k > Len(ev) THEN 0 ELSE k) = k
      BY <2>2, <2>3
    <3> QED
      BY <3>1, Zenon DEF Diag!EventsSince
  <2> HIDE DEF ev, k
  <2>5. /\ Len(SubSeq(ev, k + 1, Len(ev))) = Len(ev) - k
        /\ \A j \in 1 .. (Len(ev) - k) : SubSeq(ev, k + 1, Len(ev))[j] = ev[k + j]
    BY <2>2, <2>3
  <2>6. Diag!Passes(c) <=> \E i \in (k + 1) .. Len(ev) : ev[i] = TRUE
    <3>1. Diag!Passes(c) <=> \E j \in 1 .. (Len(ev) - k) : ev[k + j] = TRUE
      BY <2>4, <2>5 DEF Diag!Passes, Diag!Contains
    <3>2. ASSUME NEW j \in 1 .. (Len(ev) - k)
          PROVE  k + j \in (k + 1) .. Len(ev)
      BY <2>2, <2>3
    <3>3. ASSUME NEW i \in (k + 1) .. Len(ev)
          PROVE  i - k \in 1 .. (Len(ev) - k) /\ k + (i - k) = i
      BY <2>2, <2>3
    <3> QED
      BY <3>1, <3>2, <3>3
  <2> QED
    BY <2>3, <2>6 DEF Counted
<1>2. IInv => ResumeIsSeen
  BY <1>1 DEF ResumeIsSeen, Diag!ResumeIsSeen
<1> QED
  BY <1>2, Invariance, PTL
=============================================================================
