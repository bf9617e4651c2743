------------------------------ MODULE Extension ------------------------------
(***************************************************************************)
(* The browser extension together with the backend it reports to.          *)
(*                                                                         *)
(* The service worker (apps/extension/src/background.ts) runs a handler    *)
(* per focused tab and per flush alarm.  Handlers are asynchronous: they   *)
(* interleave at every await, and every read or write of                   *)
(* chrome.storage.local is one.  Handlers that are under way are records   *)
(* in `tasks', the rest of the extension's state is what is in the         *)
(* storage.  The popup works on the same storage.                          *)
(*                                                                         *)
(* A handler waits for the reply of its own request, so the clients of     *)
(* Ingest are the handlers.  How a token is renewed is in Accounts; here   *)
(* a renewal may be refused, which signs the worker out.                   *)
(***************************************************************************)
EXTENDS Ingest, SequencesExt

CONSTANTS
  Task,        \* handlers that may be under way at once
  QueueLimit,  \* QUEUE_LIMIT
  MaxBatch,    \* LIMITS.MAX_EVENTS_PER_BATCH
  MaxEvents    \* bound: tab events ever observed

ASSUME ExtensionAssumption ==
  /\ Client = Task
  /\ QueueLimit \in Nat \ {0}
  /\ MaxBatch \in Nat \ {0}
  /\ MaxEvents \in Nat
  /\ Event = 1..MaxEvents

VARIABLES
  auth,     \* the worker whose tokens are in the storage, or NoUser
  paused,   \* settings.paused
  queue,    \* the buffered events
  tasks,    \* the handlers under way
  seen      \* number of events observed so far

storage == <<auth, paused, queue>>
vars == <<ingestVars, storage, tasks, seen>>

Observed == 1..seen

IdleTask == [pc |-> "idle", kind |-> "tab", user |-> NoUser, batch |-> << >>, read |-> << >>]

TaskState ==
  [pc : {"idle", "auth", "beat", "length", "status", "asking", "push", "pushing", "get", "set",
         "drainGet", "drainSet"},
   kind : {"tab", "flush"}, user : User \cup {NoUser},
   batch : BoundedSeq(Event, QueueLimit), read : BoundedSeq(Event, QueueLimit)]

TypeOK ==
  /\ IngestTypeOK
  /\ auth \in User \cup {NoUser}
  /\ paused \in BOOLEAN
  /\ queue \in BoundedSeq(Event, QueueLimit)
  /\ tasks \in [Task -> TaskState]
  /\ seen \in 0..MaxEvents

Init ==
  /\ IngestInit
  /\ auth = NoUser
  /\ paused = FALSE
  /\ queue = << >>
  /\ tasks = [t \in Task |-> IdleTask]
  /\ seen = 0
-----------------------------------------------------------------------------
(* A handler's course.                                                     *)

At(t, pc) == tasks[t].pc = pc

Goto(t, pc) == tasks' = [tasks EXCEPT ![t].pc = pc]

Return(t) == tasks' = [tasks EXCEPT ![t] = IdleTask]

\* chrome.tabs and chrome.windows listeners: a tab is in front.  Nothing while paused.
TabFocused(t) ==
  /\ At(t, "idle")
  /\ ~paused
  /\ seen < MaxEvents
  /\ tasks' = [tasks EXCEPT ![t].pc = "auth"]
  /\ UNCHANGED <<ingestVars, storage, seen>>

\* chrome.alarms listener.
Alarm(t) ==
  /\ At(t, "idle")
  /\ tasks' = [tasks EXCEPT ![t].pc = "auth", ![t].kind = "flush"]
  /\ UNCHANGED <<ingestVars, storage, seen>>

\* Signed out, the handler returns.  Otherwise a tab becomes an event, and an alarm a
\* heartbeat.
ReadAuth(t) ==
  /\ At(t, "auth")
  /\ \/ auth = NoUser /\ Return(t) /\ UNCHANGED seen
     \/ /\ auth # NoUser
        /\ tasks[t].kind = "flush"
        /\ Goto(t, "beat")
        /\ UNCHANGED seen
     \/ /\ auth # NoUser
        /\ tasks[t].kind = "tab"
        /\ seen < MaxEvents
        /\ seen' = seen + 1
        /\ tasks' = [tasks EXCEPT ![t].pc = "status", ![t].batch = <<seen'>>]
  /\ UNCHANGED <<ingestVars, storage>>

\* getValidToken: a refused renewal clears the storage.
TokenRefused == auth # NoUser /\ auth' = NoUser

\* The heartbeat, whose failure is ignored.
Beat(t) ==
  /\ At(t, "beat")
  /\ Goto(t, "length")
  /\ UNCHANGED auth \/ TokenRefused
  /\ UNCHANGED <<ingestVars, paused, queue, seen>>

QueueLength(t) ==
  /\ At(t, "length")
  /\ IF queue = << >> THEN Return(t) ELSE Goto(t, "status")
  /\ UNCHANGED <<ingestVars, storage, seen>>

\* No open workday, no token or no answer: a tab event is queued, a flush given up.
NotActive(t) == IF tasks[t].kind = "tab" THEN Goto(t, "get") ELSE Return(t)

\* getWorkdayStatus: the token first ...
AskStatus(t) ==
  /\ At(t, "status")
  /\ \/ /\ auth # NoUser
        /\ tasks' = [tasks EXCEPT ![t].pc = "asking", ![t].user = auth]
        /\ UNCHANGED auth
     \/ auth = NoUser /\ NotActive(t) /\ UNCHANGED auth
     \/ TokenRefused /\ NotActive(t)
  /\ UNCHANGED <<ingestVars, paused, queue, seen>>

\* ... then GET /me/workday, which may also fail.
StatusAnswered(t) ==
  /\ At(t, "asking")
  /\ \/ /\ ActiveSessions(tasks[t].user) # {}
        /\ Goto(t, IF tasks[t].kind = "tab" THEN "push" ELSE "drainGet")
     \/ NotActive(t)
  /\ UNCHANGED <<ingestVars, storage, seen>>

DrainRead(t) ==
  /\ At(t, "drainGet")
  /\ tasks' = [tasks EXCEPT ![t].pc = "drainSet", ![t].read = queue]
  /\ UNCHANGED <<ingestVars, storage, seen>>

DrainWrite(t) ==
  /\ At(t, "drainSet")
  /\ queue' = << >>
  /\ tasks' = [tasks EXCEPT ![t].pc = "push", ![t].batch = tasks[t].read, ![t].read = << >>]
  /\ UNCHANGED <<ingestVars, auth, paused, seen>>

\* pushEvents: an empty batch is not posted; the schema refuses one that is too long.
Push(t) ==
  LET batch == tasks[t].batch IN
  /\ At(t, "push")
  /\ \/ batch = << >> /\ Return(t) /\ UNCHANGED <<ingestVars, auth>>
     \/ /\ batch # << >>
        /\ auth # NoUser
        /\ \E r \in Request : Send(r, MeEvents(t, auth, ToSet(batch), Len(batch) > MaxBatch))
        /\ Goto(t, "pushing")
        /\ UNCHANGED auth
     \/ /\ batch # << >>
        /\ (auth = NoUser /\ UNCHANGED auth) \/ TokenRefused
        /\ Goto(t, "get")
        /\ UNCHANGED ingestVars
  /\ UNCHANGED <<paused, queue, seen>>

\* Mutant: a failed push is not queued again.
PushedOnce(t) ==
  /\ At(t, "pushing")
  /\ \E r \in Request : reqs[r].client = t /\ Receive(r)
  /\ Return(t)
  /\ UNCHANGED <<storage, seen>>

Pushed(t) ==
  /\ At(t, "pushing")
  /\ \E r \in Request :
       /\ reqs[r].client = t
       /\ Receive(r)
       /\ \/ reqs[r].pc = "ok" /\ Return(t)
          \/ reqs[r].pc = "failed" /\ Goto(t, "get")
  /\ UNCHANGED <<storage, seen>>

\* enqueue: the queue is read, ...
EnqueueRead(t) ==
  /\ At(t, "get")
  /\ tasks' = [tasks EXCEPT ![t].pc = "set", ![t].read = queue]
  /\ UNCHANGED <<ingestVars, storage, seen>>

\* Mutant: the limit is forgotten.
Unlimited(q) == q

\* splice: the oldest events are cut.
Limited(q) ==
  IF Len(q) > QueueLimit THEN SubSeq(q, Len(q) - QueueLimit + 1, Len(q)) ELSE q

\* ... and written back behind the events the handler brings.
EnqueueWrite(t) ==
  /\ At(t, "set")
  /\ queue' = Limited(tasks[t].read \o tasks[t].batch)
  /\ Return(t)
  /\ UNCHANGED <<ingestVars, auth, paused, seen>>

\* The browser stops the service worker: what its handlers hold is gone.
Kill ==
  /\ \E t \in Task : ~At(t, "idle")
  /\ tasks' = [t \in Task |-> IdleTask]
  /\ reqs' = [r \in Request |-> IF reqs[r].client \in Task THEN Abandon(r)[r] ELSE reqs[r]]
  /\ UNCHANGED <<issued, browsers, sessions, rows, storage, seen>>
-----------------------------------------------------------------------------
(* The popup.                                                              *)

SignIn ==
  /\ auth = NoUser
  /\ auth' \in User
  /\ UNCHANGED <<ingestVars, paused, queue, tasks, seen>>

\* logout: only the tokens are removed.
SignOut ==
  /\ auth # NoUser
  /\ auth' = NoUser
  /\ UNCHANGED <<ingestVars, paused, queue, tasks, seen>>

TogglePause ==
  /\ paused' = ~paused
  /\ UNCHANGED <<ingestVars, auth, queue, tasks, seen>>

\* Start and Stop Workday, in the popup or in the dashboard: nobody waits in the model.
Workday ==
  /\ \E r \in Request, u \in User :
       \/ Send(r, MeStart(NoClient, u))
       \/ \E at \in EndTime : Send(r, MeEnd(NoClient, u, at))
  /\ UNCHANGED <<storage, tasks, seen>>

Served(A) == A /\ UNCHANGED <<storage, tasks, seen>>

Handler(t) ==
  ReadAuth(t) \/ Beat(t) \/ QueueLength(t) \/ AskStatus(t) \/ StatusAnswered(t)
    \/ DrainRead(t) \/ DrainWrite(t) \/ Push(t) \/ Pushed(t) \/ EnqueueRead(t)
    \/ EnqueueWrite(t)

Next ==
  \/ \E t \in Task : TabFocused(t) \/ Alarm(t) \/ Handler(t)
  \/ Kill \/ SignIn \/ SignOut \/ TogglePause \/ Workday
  \/ \E r \in Request : Served(Serve(r)) \/ Served(Lose(r))

Spec == Init /\ [][Next]_vars
-----------------------------------------------------------------------------
(* Properties.                                                             *)

\* Where an event may be: in the queue, in a handler's hands, or on the server.
Kept ==
  ToSet(queue) \cup {row[2] : row \in rows}
    \cup UNION {ToSet(tasks[t].batch) \cup ToSet(tasks[t].read) : t \in Task}

\* What handler t may lose by writing the queue: what another handler put there after t
\* read it, and the oldest of what it writes when that exceeds the limit.
Forfeited(t) ==
  LET q == tasks[t].read \o tasks[t].batch IN
  (ToSet(queue) \ ToSet(tasks[t].read)) \cup {q[i] : i \in 1..(Len(q) - QueueLimit)}

\* background.ts, recordTab and the alarm: on any failure (offline, workday closed, signed
\* out) the event is buffered.  An observed event is never lost except when the browser
\* kills the worker, at the limit of the queue, or to an overlapping write of it.
NothingElseLost ==
  [][\/ Kept \subseteq Kept'
     \/ Kill
     \/ \E t \in Task : (EnqueueWrite(t) \/ DrainWrite(t)) /\ Kept \ Kept' \subseteq Forfeited(t)]_vars
=============================================================================
