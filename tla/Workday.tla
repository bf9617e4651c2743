------------------------------- MODULE Workday -------------------------------
(***************************************************************************)
(* The workday panel of the dashboard: the pages on which one worker       *)
(* starts and stops the workday (app/(dashboard)/workday), the proxy that  *)
(* forwards their calls (app/api/proxy), and the handlers of the API       *)
(* behind it (routes/me).  The pages may be tabs of one browser or of      *)
(* several; the agent and the extension start and end sessions as well.    *)
(*                                                                         *)
(* A request has two ends.  The page may stop waiting at any moment,       *)
(* because it is left, its connection breaks, or the proxy's own fetch     *)
(* fails; whatever has been sent by then may still be served.              *)
(*                                                                         *)
(* Cookies and tokens are in WebSession: to the panel, a cookie that is    *)
(* missing and a token that is refused are calls answered with an error.   *)
(***************************************************************************)
CONSTANTS
  Panel,      \* pages with a workday panel
  Session,    \* bound: work sessions ever started
  Slot,       \* bound: requests under way at once
  Nobody,     \* no page waits for the request
  NoSession   \* the request has found no session

ASSUME WorkdayAssumption == Nobody \notin Panel /\ NoSession \notin Session

VARIABLES
  sessions,   \* the worker's rows of WorkSession
  reqs,       \* requests to start or end the workday
  view,       \* a page: asked for, rendered by the server, shown in the browser
  status,     \* WorkdayPanel: status.active, at first the prop `initial'
  error,      \* WorkdayPanel: error is not null
  sure        \* history: see Told

workdayVars == <<sessions, reqs, view, status, error, sure>>

panels == <<view, status, error>>

NoRequest ==
  [kind |-> "none", by |-> Nobody, pc |-> "sent", sid |-> NoSession, ok |-> FALSE]

WorkdayRequest ==
  [kind : {"none", "start", "end"}, by : Panel \cup {Nobody},
   pc : {"sent", "create", "close", "done"}, sid : Session \cup {NoSession}, ok : BOOLEAN]

WorkdayTypeOK ==
  /\ sessions \in [Session -> {"none", "active", "ended"}]
  /\ reqs \in [Slot -> WorkdayRequest]
  /\ \A r \in Slot : reqs[r].pc = "close" => reqs[r].sid \in Session
  /\ view \in [Panel -> {"asked", "rendered", "shown"}]
  /\ status \in [Panel -> BOOLEAN]
  /\ error \in [Panel -> BOOLEAN]
  /\ sure \in [Panel -> BOOLEAN]

WorkdayInit ==
  /\ sessions = [s \in Session |-> "none"]
  /\ reqs = [r \in Slot |-> NoRequest]
  /\ view = [p \in Panel |-> "asked"]
  /\ status = [p \in Panel |-> FALSE]
  /\ error = [p \in Panel |-> FALSE]
  /\ sure = [p \in Panel |-> FALSE]

Active == \E s \in Session : sessions[s] = "active"

Busy(p) == \E r \in Slot : reqs[r].by = p

\* A page knows whether a session is open when the server has told it, or is about to by the
\* answer to the call it waits for: that a session was ended tells it so only if no other one is
\* open.  It is not sure any more when somebody else opens the first session or ends the last
\* one; a request that it has given up is somebody else's.
Told(r, knows) ==
  sure' = [p \in Panel |->
    IF p = reqs[r].by THEN knows ELSE sure[p] /\ (Active' <=> Active)]
-----------------------------------------------------------------------------
(* The page.                                                               *)

\* The panel of the page is gone, and so is whoever waited for its call.
Unmount(p) ==
  /\ view[p] = "shown"
  /\ error' = [error EXCEPT ![p] = FALSE]
  /\ sure' = [sure EXCEPT ![p] = FALSE]
  /\ reqs' = [r \in Slot |-> IF reqs[r].by = p THEN [reqs[r] EXCEPT !.by = Nobody] ELSE reqs[r]]
  /\ UNCHANGED sessions

\* The page is asked for anew.
Reload(p) ==
  /\ Unmount(p)
  /\ view' = [view EXCEPT ![p] = "asked"]
  /\ status' = [status EXCEPT ![p] = FALSE]

\* Links lead away from the page and back, soon enough for Next.js to show what it keeps of an
\* earlier load: the new panel starts from what was so then.
Revisit(p) ==
  /\ Unmount(p)
  /\ \E earlier \in BOOLEAN : status' = [status EXCEPT ![p] = earlier]
  /\ UNCHANGED view

\* WorkdayPage: GET /me/workday; a refusal or a failure counts as no workday.
RenderPage(p) ==
  /\ view[p] = "asked"
  /\ \E ok \in BOOLEAN :
       /\ status' = [status EXCEPT ![p] = ok /\ Active]
       /\ sure' = [sure EXCEPT ![p] = ok]
  /\ view' = [view EXCEPT ![p] = "rendered"]
  /\ UNCHANGED <<sessions, reqs, error>>

ShowPage(p) ==
  /\ view[p] = "rendered"
  /\ view' = [view EXCEPT ![p] = "shown"]
  /\ UNCHANGED <<sessions, reqs, status, error, sure>>

\* The panel's one button starts or stops the workday, by what the panel shows; until the
\* answer it is disabled.
Press(p) ==
  /\ view[p] = "shown"
  /\ ~Busy(p)
  /\ \E r \in Slot :
       /\ reqs[r].kind = "none"
       /\ reqs' = [reqs EXCEPT ![r] =
            [NoRequest EXCEPT !.kind = IF status[p] THEN "end" ELSE "start", !.by = p]]
  /\ error' = [error EXCEPT ![p] = FALSE]
  /\ UNCHANGED <<sessions, view, status, sure>>

\* Mutant: the panel does not look at the status of the answer.
ReceiveUnchecked(r) ==
  LET p == reqs[r].by
  IN /\ p \in Panel
     /\ reqs[r].pc = "done"
     /\ status' = [status EXCEPT ![p] = reqs[r].kind = "start"]
     /\ error' = error
     /\ reqs' = [reqs EXCEPT ![r] = NoRequest]
     /\ UNCHANGED <<sessions, view, sure>>

\* start and stop: the answer is an error, or the panel shows what was asked for.
Receive(r) ==
  LET p == reqs[r].by
  IN /\ p \in Panel
     /\ reqs[r].pc = "done"
     /\ status' = [status EXCEPT ![p] = IF reqs[r].ok THEN reqs[r].kind = "start" ELSE @]
     /\ error' = [error EXCEPT ![p] = ~reqs[r].ok]
     /\ reqs' = [reqs EXCEPT ![r] = NoRequest]
     /\ UNCHANGED <<sessions, view, sure>>

\* start and stop: the call throws, or is answered by the proxy with an error although the API
\* may serve it or has done so.
CallFails(r) ==
  /\ reqs[r].by \in Panel
  /\ error' = [error EXCEPT ![reqs[r].by] = TRUE]
  /\ reqs' = [reqs EXCEPT ![r].by = Nobody]
  /\ UNCHANGED <<sessions, view, status, sure>>
-----------------------------------------------------------------------------
(* The proxy and the API.                                                  *)

Answer(r, ok) == reqs' = [reqs EXCEPT ![r].pc = "done", ![r].ok = ok]

At(r, kind, pc) == reqs[r].kind = kind /\ reqs[r].pc = pc

\* The proxy has no cookie, the API refuses the token, or a statement fails.
Refuse(r) ==
  /\ reqs[r].kind # "none" /\ reqs[r].pc # "done"
  /\ Answer(r, FALSE)
  /\ UNCHANGED <<sessions, panels, sure>>

\* POST /me/workday/start: an open session is resumed ...
FindExisting(r) ==
  /\ At(r, "start", "sent")
  /\ UNCHANGED <<sessions, panels>>
  /\ IF Active THEN Answer(r, TRUE) /\ Told(r, TRUE)
               ELSE reqs' = [reqs EXCEPT ![r].pc = "create"] /\ UNCHANGED sure

\* ... and otherwise, two or three statements later, one is created.
CreateSession(r) ==
  /\ At(r, "start", "create")
  /\ \E s \in Session :
       /\ sessions[s] = "none"
       /\ sessions' = [sessions EXCEPT ![s] = "active"]
  /\ Answer(r, TRUE)
  /\ Told(r, TRUE)
  /\ UNCHANGED panels

\* POST /me/workday/end: the open session that began last, by the clocks of those who began
\* them, so any of them; there may be none.
FindToEnd(r) ==
  /\ At(r, "end", "sent")
  /\ UNCHANGED <<sessions, panels>>
  /\ \/ /\ ~Active
        /\ Answer(r, TRUE)
        /\ Told(r, TRUE)
     \/ \E s \in Session :
          /\ sessions[s] = "active"
          /\ reqs' = [reqs EXCEPT ![r].pc = "close", ![r].sid = s]
          /\ UNCHANGED sure

\* endSession; one that has ended meanwhile is left as it is.
CloseFound(r) ==
  /\ At(r, "end", "close")
  /\ sessions' = [sessions EXCEPT ![reqs[r].sid] = "ended"]
  /\ Answer(r, TRUE)
  /\ Told(r, ~Active')
  /\ UNCHANGED panels

\* A request nobody waits for never arrives, dies with the process that serves it, or is done.
Vanish(r) ==
  /\ reqs[r].kind # "none" /\ reqs[r].by = Nobody
  /\ reqs' = [reqs EXCEPT ![r] = NoRequest]
  /\ UNCHANGED <<sessions, panels, sure>>

\* The agent starts a session, the extension starts or ends one, the agent ends its own.
Elsewhere ==
  /\ \E s \in Session :
       \/ sessions[s] = "none" /\ sessions' = [sessions EXCEPT ![s] = "active"]
       \/ sessions[s] = "active" /\ sessions' = [sessions EXCEPT ![s] = "ended"]
  /\ sure' = [p \in Panel |-> sure[p] /\ (Active' <=> Active)]
  /\ UNCHANGED <<reqs, panels>>
-----------------------------------------------------------------------------
Browser ==
  \/ \E p \in Panel : Reload(p) \/ Revisit(p) \/ RenderPage(p) \/ ShowPage(p) \/ Press(p)
  \/ \E r \in Slot : Receive(r) \/ CallFails(r)

Backend ==
  \E r \in Slot :
    Refuse(r) \/ FindExisting(r) \/ CreateSession(r) \/ FindToEnd(r) \/ CloseFound(r) \/ Vanish(r)

WorkdayNext == Browser \/ Backend \/ Elsewhere

WorkdaySpec == WorkdayInit /\ [][WorkdayNext]_workdayVars
-----------------------------------------------------------------------------
(* Properties.                                                             *)

\* A panel at rest without an error message shows whether the worker has an open session, if
\* its load or its last call was told so and nobody else, nor a call it has given up, has opened
\* the first or ended the last session since.  Calls that are refused, that fail on their way
\* back after they were done, or that overlap leave the truth or an error message.
PanelAgrees ==
  \A p \in Panel :
    view[p] = "shown" /\ ~Busy(p) /\ ~error[p] /\ sure[p] => (status[p] <=> Active)
=============================================================================
