----------------------------- MODULE Navigation ------------------------------
(***************************************************************************)
(* Page.navigate: load a URL in a tab and report what happened             *)
(* (controller/browser/page.go:118-260).                                   *)
(*                                                                         *)
(* Each attempt makes one document (a loader id of Chromium).  Chromium    *)
(* sends its events to the session; navigateOnce reads them from a         *)
(* subscription that it opens before it asks for the document and cancels  *)
(* when it returns, so events of an earlier document can be read by a      *)
(* later attempt.  Document 0 is the about:blank the tab starts with.      *)
(***************************************************************************)
EXTENDS Naturals, Sequences

CONSTANTS
  MaxDocs,     \* attempts that are made (a bound)
  MaxAttempts  \* attempts of one Navigate (3 in page.go:133)

Docs == 0..MaxDocs

VARIABLES
  at,      \* "idle", "calling", "waiting" or "retry"
  docOnly, \* NavigateDocument: return at the document's response
  attempt, \* attempts of this Navigate so far
  n,       \* the document of the last attempt; 0 before the first
  doc,     \* Chromium's side of each document
  shown,   \* the document that is committed in the tab
  queue,   \* events of the subscription that were not read
  final,   \* res.FinalURL: a document, or NoURL
  result,  \* what navigateOnce returned last: "none", "ok", "blocked", "error"
  settled, \* history: the earlier documents were final when this attempt began
  framed   \* history: a frame's document failed during this attempt

history == <<settled, framed>>
navVars == <<docOnly, attempt, n>>
vars == <<at, navVars, doc, shown, queue, final, result, history>>

NoURL == MaxDocs + 1

\* An aborted document leaves the tab as it was; for any other net error
\* Chromium commits an error page.
DocStates == {"none", "loading", "responded", "committed", "loaded",
              "aborted", "failed", "error page", "error loaded"}
FinalStates == {"loaded", "aborted", "error loaded"}
ErrorStates == {"aborted", "failed", "error page", "error loaded"}

IsErrorPage(d) == d \in Docs /\ doc[d] \in {"error page", "error loaded"}

Init ==
  /\ at = "idle"
  /\ docOnly = FALSE
  /\ attempt = 0
  /\ n = 0
  /\ doc = [d \in Docs |-> IF d = 0 THEN "loaded" ELSE "none"]
  /\ shown = 0
  /\ queue = <<>>
  /\ final = NoURL
  /\ result = "none"
  /\ settled = TRUE
  /\ framed = FALSE

Subscribed == at \in {"calling", "waiting"}

Emit(kind, d) ==
  queue' = IF Subscribed THEN Append(queue, [kind |-> kind, doc |-> d]) ELSE queue

-----------------------------------------------------------------------------
(* navigate and navigateOnce *)

\* Subscribe, then Page.navigate is sent, whatever earlier documents are doing.
Ask ==
  /\ n < MaxDocs
  /\ settled' = (\A d \in 0..n : doc[d] \in FinalStates)
  /\ framed' = FALSE
  /\ at' = "calling"
  /\ n' = n + 1
  /\ queue' = <<>>
  /\ final' = NoURL
  /\ result' = "none"

Navigate ==
  /\ at = "idle"
  /\ Ask
  /\ docOnly' \in BOOLEAN
  /\ attempt' = 1
  /\ UNCHANGED <<doc, shown>>

\* The next attempt, 200 ms after a transient error.
Retry ==
  /\ at = "retry"
  /\ \/ /\ Ask
        /\ attempt' = attempt + 1
        /\ UNCHANGED <<docOnly, doc, shown>>
     \/ /\ at' = "idle"       \* the context ended
        /\ UNCHANGED <<navVars, doc, shown, queue, final, result, history>>

\* navigateOnce returns and cancels the subscription; navigate tries again when
\* the error is a transient one.
Return(r) ==
  /\ result' = r
  /\ queue' = <<>>
  /\ IF r = "blocked" /\ attempt < MaxAttempts
       THEN at' \in {"idle", "retry"}
       ELSE at' = "idle"
  /\ UNCHANGED <<navVars, doc, shown, history>>

\* Page.navigate is answered, with an error text for a document that failed.
Answer ==
  /\ at = "calling" /\ doc[n] # "none"
  /\ \/ at' = "waiting" /\ UNCHANGED <<navVars, doc, shown, queue, final, result, history>>
     \/ /\ doc[n] \in ErrorStates
        /\ Return("blocked")
        /\ UNCHANGED final

\* Mutant of Finish: an error page is not looked for.
FinishAnyway(url) == Return("ok") /\ final' = IF url = NoURL THEN shown ELSE url

\* finish: the URL is asked for if no event gave it; an error page is an error.
Finish(url) ==
  LET u == IF url = NoURL THEN shown ELSE url IN
  /\ Return(IF IsErrorPage(u) THEN "blocked" ELSE "ok")
  /\ final' = u

\* Mutant of OnResponse: Navigate returns at the response too.
OnResponseReturns(e) == e.kind = "response" /\ e.doc = n /\ Finish(n)

\* Network.responseReceived counts for the loader that was asked for.
OnResponse(e) ==
  /\ e.kind = "response"
  /\ IF e.doc = n /\ docOnly
       THEN Finish(n)
       ELSE /\ final' = IF e.doc = n THEN n ELSE final
            /\ queue' = Tail(queue)
            /\ UNCHANGED <<at, navVars, doc, shown, result, history>>

\* Network.loadingFailed of any document: a cancelled one is skipped.
OnFailed(e) ==
  \/ /\ e.kind = "failed"
     /\ Return("blocked")
     /\ final' = IF final = NoURL THEN shown ELSE final
  \/ /\ e.kind = "canceled"
     /\ queue' = Tail(queue)
     /\ UNCHANGED <<at, navVars, doc, shown, final, result, history>>

\* Page.frameNavigated of the main frame gives the URL of what was committed.
OnNavigated(e) ==
  /\ e.kind = "navigated"
  /\ final' = e.doc
  /\ queue' = Tail(queue)
  /\ UNCHANGED <<at, navVars, doc, shown, result, history>>

\* Page.loadEventFired of any document.
OnLoad(e) == e.kind = "load" /\ Finish(final)

Read ==
  /\ at = "waiting" /\ queue # <<>>
  /\ LET e == Head(queue) IN
     OnResponse(e) \/ OnFailed(e) \/ OnNavigated(e) \/ OnLoad(e)

\* Mutant of Timeout: no answer in time is taken for a network error.
TimeoutBlocks ==
  /\ at \in {"calling", "waiting"}
  /\ at' = "idle"
  /\ result' = "blocked"
  /\ queue' = <<>>
  /\ UNCHANGED <<navVars, doc, shown, final, history>>

\* The context ends during the call or the wait: the document goes on loading.
Timeout ==
  /\ at \in {"calling", "waiting"}
  /\ at' = "idle"
  /\ result' = "error"
  /\ queue' = <<>>
  /\ UNCHANGED <<navVars, doc, shown, final, history>>

-----------------------------------------------------------------------------
(* Chromium *)

\* It starts the documents in the order it was asked for them; one that is
\* not committed yet is cancelled.
Start(d) ==
  /\ d \in 1..n /\ doc[d] = "none"
  /\ \A e \in 1..(d - 1) : doc[e] # "none"
  /\ LET stopped == {e \in Docs : doc[e] \in {"loading", "responded", "failed"}} IN
     /\ doc' = [e \in Docs |-> IF e = d THEN "loading"
                               ELSE IF e \in stopped THEN "aborted" ELSE doc[e]]
     /\ IF stopped = {} THEN UNCHANGED queue
                        ELSE Emit("canceled", CHOOSE e \in stopped : TRUE)
  /\ UNCHANGED <<at, navVars, shown, final, result, history>>

Move(d, from, to) == doc[d] = from /\ doc' = [doc EXCEPT ![d] = to]

Respond(d) ==
  /\ Move(d, "loading", "responded")
  /\ Emit("response", d)
  /\ UNCHANGED <<at, navVars, shown, final, result, history>>

\* A committed document takes the place of the one that was shown, whose load
\* event does not come any more.
Commit(d) ==
  /\ doc[d] \in {"responded", "failed"}
  /\ doc' = [doc EXCEPT ![d] = IF @ = "failed" THEN "error page" ELSE "committed",
                        ![shown] = IF @ = "committed" THEN "loaded"
                                   ELSE IF @ = "error page" THEN "error loaded" ELSE @]
  /\ shown' = d
  /\ Emit("navigated", d)
  /\ UNCHANGED <<at, navVars, final, result, history>>

Load(d) ==
  /\ Move(d, "committed", "loaded") \/ Move(d, "error page", "error loaded")
  /\ Emit("load", d)
  /\ UNCHANGED <<at, navVars, shown, final, result, history>>

\* A net error: the proxy refused, or the connection was cut.  The event may
\* be missing, and then only the error page tells.
Fail(d) ==
  /\ Move(d, "loading", "failed") \/ Move(d, "loading", "aborted")
  /\ Emit("failed", d) \/ UNCHANGED queue
  /\ UNCHANGED <<at, navVars, shown, final, result, history>>

\* The document of a frame of the page fails: its type is Document too.  Once
\* an attempt, a bound.
SubframeFails(d) ==
  /\ Subscribed /\ ~framed
  /\ doc[d] = "committed"
  /\ Emit("failed", d)
  /\ framed' = TRUE
  /\ UNCHANGED <<at, navVars, doc, shown, final, result, settled>>

Next ==
  \/ Navigate \/ Retry \/ Answer \/ Read \/ Timeout
  \/ \E d \in Docs :
       Start(d) \/ Respond(d) \/ Commit(d) \/ Load(d) \/ Fail(d) \/ SubframeFails(d)

Spec == Init /\ [][Next]_vars

-----------------------------------------------------------------------------
(* Properties *)

\* Types of navigateOnce's locals and of the documents; no Navigate makes more
\* attempts than it may.
TypeOK ==
  /\ at \in {"idle", "calling", "waiting", "retry"}
  /\ docOnly \in BOOLEAN
  /\ attempt \in 0..MaxAttempts
  /\ n \in Docs
  /\ doc \in [Docs -> DocStates]
  /\ shown \in Docs
  /\ queue \in Seq([kind : {"response", "failed", "canceled", "navigated", "load"},
                    doc : Docs])
  /\ final \in Docs \cup {NoURL}
  /\ result \in {"none", "ok", "blocked", "error"}
  /\ settled \in BOOLEAN /\ framed \in BOOLEAN

\* page.go:118-128: a navigation that succeeded has the response of the URL it
\* asked for (NavigateDocument) or has loaded it (Navigate), over timeouts and
\* retries, as long as the attempt began when the earlier documents were final.
\* (The load event of one that was not would end this attempt as a success.)
\* And however late, lost or foreign the events are, a page that Chromium shows
\* for a net error is never reported as loaded (page.go:176-185).
SuccessIsItsOwn ==
  /\ (at = "idle" /\ result = "ok" /\ settled) =>
       /\ final = n
       /\ doc[n] \in (IF docOnly THEN {"responded", "committed", "loaded"} ELSE {"loaded"})
  /\ result = "ok" => ~IsErrorPage(final)

\* page.go:115, "Blocked reports whether the navigation failed at the network
\* layer": V7 takes a blocked navigation as the proof that the gate is closed.
\* It is one, unless a document of another frame, or of an earlier navigation
\* that was still going on, failed meanwhile.
BlockedIsItsOwn ==
  (at \in {"idle", "retry"} /\ result = "blocked" /\ settled /\ ~framed) =>
     doc[n] \in ErrorStates
=============================================================================
