----------------------------- MODULE AgentSync -----------------------------
(***************************************************************************)
(* The desktop agent together with the backend it reports to.              *)
(*                                                                         *)
(* The agent (apps/agent/src-tauri/src) is one process with four threads   *)
(* of control over one mutex-protected `Inner' record and one SQLite       *)
(* buffer: the main thread (tray menu and the UI's synchronous commands),  *)
(* the asynchronous commands, the monitor loop and the sync loop.  Every   *)
(* lock is held for one statement group only, so each of those is an       *)
(* action.  The backend side and the network are those of Ingest.          *)
(*                                                                         *)
(* Event i is the i-th row of the buffer table; its number stands for both *)
(* the AUTOINCREMENT id and the client event id.                           *)
(***************************************************************************)
EXTENDS Ingest, Sequences

CONSTANTS
  SyncLoop,    \* the client name of the sync loop
  BatchSize,   \* BATCH_SIZE
  MaxEvents    \* bound: events ever recorded

ASSUME AgentAssumption ==
  /\ Client = {SyncLoop}
  /\ BatchSize \in Nat \ {0}
  /\ MaxEvents \in Nat
  /\ Event = 1..MaxEvents

VARIABLES
  \* Inner (state.rs); a session id of 0 is None.
  identity,  \* the enrolled device, or NoDevice
  workday,   \* workday_active
  private,   \* in_private_session
  pending,   \* pending_client_session_id
  sid,       \* session_id
  \* What survives a restart.
  keychain,  \* the identity saved in the OS keychain
  buffer,    \* the events table of buffer.sqlite
  enrolled,  \* devices the backend has enrolled so far
  \* Where the threads of control are, and what they have read.
  main, monitor, ender, sync

inner == <<identity, workday, private, pending, sid>>
disk == <<keychain, buffer>>
threads == <<main, monitor, ender, sync>>
server == <<issued, browsers, sessions, rows>>
vars == <<ingestVars, inner, disk, enrolled, threads>>

EventKind == {"focus", "idle", "private_start", "private_end"}

\* Of an event's payload only this matters here: whether the shared schema refuses it.
BufferedEvent == [session : Csid \cup {0}, malformed : BOOLEAN, synced : BOOLEAN]

Recorded == 1..Len(buffer)

\* What each thread of control is about to do, and what it has read so far.
MainState ==
  [pc : {"idle", "stamp", "append", "forget"}, sid : Csid \cup {0}, kind : EventKind]

MonitorState ==
  [pc : {"idle", "read", "append"}, sid : Csid \cup {0}, kind : EventKind]

EnderState ==
  [pc : {"idle", "clear"}, device : AgentDevice \cup {NoDevice}, sid : Csid \cup {0}]

SyncState ==
  [pc : {"idle", "gate", "ensure", "pending", "starting", "session", "take", "posting"},
   device : AgentDevice \cup {NoDevice}, sid : Csid \cup {0}, batch : SUBSET Event]

TypeOK ==
  /\ IngestTypeOK
  /\ identity \in AgentDevice \cup {NoDevice}
  /\ workday \in BOOLEAN
  /\ private \in BOOLEAN
  /\ pending \in Csid \cup {0}
  /\ sid \in Csid \cup {0}
  /\ keychain \in AgentDevice \cup {NoDevice}
  /\ buffer \in Seq(BufferedEvent)
  /\ Len(buffer) <= MaxEvents
  /\ enrolled \subseteq AgentDevice
  /\ main \in MainState
  /\ monitor \in MonitorState
  /\ ender \in EnderState
  /\ sync \in SyncState

IdleMain == [pc |-> "idle", sid |-> 0, kind |-> "focus"]
IdleMonitor == [pc |-> "idle", sid |-> 0, kind |-> "focus"]
IdleEnder == [pc |-> "idle", device |-> NoDevice, sid |-> 0]
IdleSync == [pc |-> "idle", device |-> NoDevice, sid |-> 0, batch |-> {}]

Init ==
  /\ IngestInit
  /\ identity = NoDevice
  /\ workday = FALSE
  /\ private = FALSE
  /\ pending = 0
  /\ sid = 0
  /\ keychain = NoDevice
  /\ buffer = << >>
  /\ enrolled = {}
  /\ main = IdleMain
  /\ monitor = IdleMonitor
  /\ ender = IdleEnder
  /\ sync = IdleSync
-----------------------------------------------------------------------------
(* Recording events (state.rs append_event, buffer/mod.rs append).         *)

\* The schema asks a private_end for a duration, which toggle_private never sends.
Malformed(k) == k = "private_end"

\* Mutant: the buffer is not bounded.
RecordAlways(s, k) ==
  buffer' = Append(buffer, [session |-> s, malformed |-> Malformed(k), synced |-> FALSE])

\* The insert may fail with an I/O error, and the event is then dropped with a warning.
Record(s, k) ==
  \/ /\ Len(buffer) < MaxEvents
     /\ buffer' = Append(buffer, [session |-> s, malformed |-> Malformed(k),
                                  synced |-> FALSE])
  \/ UNCHANGED buffer

\* is_collecting: enrolled, inside the workday and outside a private session.
IsCollecting == identity # NoDevice /\ workday /\ ~private

\* monitor::spawn, one tick: the gate is read first, the OS afterwards.  A tick that
\* finds a new window records a focus event, and may record an idle boundary after it.
MonitorPoll ==
  /\ monitor.pc = "idle"
  /\ IsCollecting
  /\ Len(buffer) < MaxEvents
  /\ \E k \in {"focus", "idle"} : monitor' = [monitor EXCEPT !.pc = "read", !.kind = k]
  /\ UNCHANGED <<ingestVars, inner, disk, enrolled, main, ender, sync>>

\* append_event reads the session id under the state lock ...
MonitorReadSession ==
  /\ monitor.pc = "read"
  /\ monitor' = [monitor EXCEPT !.pc = "append", !.sid = sid]
  /\ UNCHANGED <<ingestVars, inner, disk, enrolled, main, ender, sync>>

\* ... and inserts the row under the lock of the database.
MonitorAppend ==
  /\ monitor.pc = "append"
  /\ Record(monitor.sid, monitor.kind)
  /\ \/ monitor' = IdleMonitor
     \/ /\ monitor.kind = "focus"
        /\ monitor' = [IdleMonitor EXCEPT !.pc = "read", !.kind = "idle"]
  /\ UNCHANGED <<ingestVars, inner, keychain, enrolled, main, ender, sync>>
-----------------------------------------------------------------------------
(* The main thread: tray menu and synchronous commands.                    *)

\* Mutant: the client session id is taken for the session id.
StartWorkdayOptimistic ==
  /\ main.pc = "idle"
  /\ ~workday
  /\ issued < MaxSessions
  /\ issued' = issued + 1
  /\ workday' = TRUE
  /\ private' = FALSE
  /\ pending' = issued + 1
  /\ sid' = issued + 1
  /\ UNCHANGED <<browsers, sessions, rows, reqs, identity, disk, enrolled, threads>>

\* start_workday, from the tray (which asks nothing) or the UI (which asks for an identity).
StartWorkday ==
  /\ main.pc = "idle"
  /\ ~workday
  /\ issued < MaxSessions
  /\ issued' = issued + 1
  /\ workday' = TRUE
  /\ private' = FALSE
  /\ pending' = issued + 1
  /\ sid' = 0
  /\ UNCHANGED <<browsers, sessions, rows, reqs, identity, disk, enrolled, threads>>

\* end_workday.
ClearWorkday ==
  /\ workday' = FALSE
  /\ private' = FALSE
  /\ sid' = 0
  /\ pending' = 0

\* The tray's End: local only, the backend is not told.
TrayEnd ==
  /\ main.pc = "idle"
  /\ ClearWorkday
  /\ UNCHANGED <<ingestVars, identity, disk, enrolled, threads>>

\* toggle_private flips the flag under the lock, whatever the rest of the state is ...
TogglePrivate ==
  /\ main.pc = "idle"
  /\ private' = ~private
  /\ main' = [main EXCEPT !.pc = "stamp",
                          !.kind = IF private THEN "private_end" ELSE "private_start"]
  /\ UNCHANGED <<ingestVars, identity, workday, pending, sid, disk, enrolled, monitor,
                 ender, sync>>

\* ... and then records the boundary like any other event.
StampReadSession ==
  /\ main.pc = "stamp"
  /\ main' = [main EXCEPT !.pc = "append", !.sid = sid]
  /\ UNCHANGED <<ingestVars, inner, disk, enrolled, monitor, ender, sync>>

StampAppend ==
  /\ main.pc = "append"
  /\ Record(main.sid, main.kind)
  /\ main' = IdleMain
  /\ UNCHANGED <<ingestVars, inner, keychain, enrolled, monitor, ender, sync>>

\* agent_logout: end_workday, then set_identity(None).
Logout ==
  /\ main.pc = "idle"
  /\ ClearWorkday
  /\ main' = [main EXCEPT !.pc = "forget"]
  /\ UNCHANGED <<ingestVars, identity, disk, enrolled, monitor, ender, sync>>

\* The keychain is cleared first; when that fails the identity is kept.
ForgetIdentity ==
  /\ main.pc = "forget"
  /\ main' = IdleMain
  /\ \/ identity' = NoDevice /\ keychain' = NoDevice
     \/ UNCHANGED <<identity, keychain>>
  /\ UNCHANGED <<ingestVars, workday, private, pending, sid, buffer, enrolled, monitor,
                 ender, sync>>
-----------------------------------------------------------------------------
(* Asynchronous commands.                                                  *)

\* agent_enroll: the backend creates a device on every enrolment; saving it may fail.
Enroll ==
  /\ identity = NoDevice
  /\ \E d \in AgentDevice \ enrolled :
       /\ enrolled' = enrolled \cup {d}
       /\ \/ identity' = d /\ keychain' = d
          \/ UNCHANGED <<identity, keychain>>
  /\ UNCHANGED <<ingestVars, workday, private, pending, sid, buffer, threads>>

\* agent_end_workday reads the identity and the session id ...  (Bound: without an end time
\* there is no such command.)
EndCommand ==
  /\ EndTime # {}
  /\ ender.pc = "idle"
  /\ identity # NoDevice
  /\ ender' = [pc |-> "clear", device |-> identity, sid |-> sid]
  /\ UNCHANGED <<ingestVars, inner, disk, enrolled, main, monitor, sync>>

\* ... ends the workday locally, and tells the backend once; the answer is ignored.
EndClear ==
  /\ ender.pc = "clear"
  /\ ClearWorkday
  /\ ender' = IdleEnder
  /\ \/ /\ ender.sid # 0
        /\ \E r \in Request, t \in EndTime :
             Send(r, AgentEnd(NoClient, ender.device, ender.sid, t))
     \/ /\ ender.sid = 0
        /\ UNCHANGED ingestVars
  /\ UNCHANGED <<identity, disk, enrolled, main, monitor, sync>>
-----------------------------------------------------------------------------
(* The sync loop (sync/mod.rs).                                            *)

\* sync_once reads the identity once and uses it to the end of the pass.
SyncTick ==
  /\ sync.pc = "idle"
  /\ identity # NoDevice
  /\ sync' = [sync EXCEPT !.pc = "gate", !.device = identity]
  /\ UNCHANGED <<ingestVars, inner, disk, enrolled, main, monitor, ender>>

SyncGate ==
  /\ sync.pc = "gate"
  /\ sync' = [sync EXCEPT !.pc = IF workday THEN "ensure" ELSE "session"]
  /\ UNCHANGED <<ingestVars, inner, disk, enrolled, main, monitor, ender>>

\* ensure_session_started: nothing to do when a session id is known.
SyncEnsure ==
  /\ sync.pc = "ensure"
  /\ sync' = [sync EXCEPT !.pc = IF sid # 0 THEN "session" ELSE "pending"]
  /\ UNCHANGED <<ingestVars, inner, disk, enrolled, main, monitor, ender>>

\* Without a pending client session id (the workday ended meanwhile) the pass fails.
SyncPending ==
  /\ sync.pc = "pending"
  /\ \/ /\ pending = 0
        /\ sync' = IdleSync
        /\ UNCHANGED ingestVars
     \/ /\ pending # 0
        /\ \E r \in Request : Send(r, AgentStart(SyncLoop, sync.device, pending))
        /\ sync' = [sync EXCEPT !.pc = "starting"]
  /\ UNCHANGED <<inner, disk, enrolled, main, monitor, ender>>

\* The reply of session/start is stored whatever happened to the workday since.
SyncStarted ==
  /\ sync.pc = "starting"
  /\ \E r \in Request :
       /\ reqs[r].client = SyncLoop
       /\ Receive(r)
       /\ \/ /\ reqs[r].pc = "ok"
             /\ sid' = reqs[r].csid
             /\ sync' = [sync EXCEPT !.pc = "session"]
          \/ /\ reqs[r].pc = "failed"
             /\ sync' = IdleSync
             /\ UNCHANGED sid
  /\ UNCHANGED <<identity, workday, private, pending, disk, enrolled, main, monitor, ender>>

SyncSession ==
  /\ sync.pc = "session"
  /\ sync' = IF sid = 0 THEN IdleSync ELSE [sync EXCEPT !.pc = "take", !.sid = sid]
  /\ UNCHANGED <<ingestVars, inner, disk, enrolled, main, monitor, ender>>

\* Mutants: the session filter is dropped, the newest events are taken first, and the
\* limit is off by one.
UnsyncedOfAny(c) == {i \in Recorded : ~buffer[i].synced}

NewestBatch(c) ==
  LET U == {i \in Recorded : ~buffer[i].synced /\ buffer[i].session = c}
  IN {i \in U : Cardinality({j \in U : j > i}) < BatchSize}

ShortBatch(c) ==
  LET U == {i \in Recorded : ~buffer[i].synced /\ buffer[i].session = c}
  IN {i \in U : Cardinality({j \in U : j <= i}) < BatchSize}

\* take_batch: the oldest unsynced events of one session, at most BatchSize of them.
Unsynced(c) == {i \in Recorded : ~buffer[i].synced /\ buffer[i].session = c}

TakeBatch(c) == {i \in Unsynced(c) : Cardinality({j \in Unsynced(c) : j < i}) < BatchSize}

SyncTake ==
  /\ sync.pc = "take"
  /\ LET B == TakeBatch(sync.sid) IN
     \/ /\ B = {}
        /\ sync' = IdleSync
        /\ UNCHANGED ingestVars
     \/ /\ B # {}
        /\ \E r \in Request :
             Send(r, AgentEvents(SyncLoop, sync.device, sync.sid, B,
                                  \E i \in B : buffer[i].malformed))
        /\ sync' = [sync EXCEPT !.pc = "posting", !.batch = B]
  /\ UNCHANGED <<inner, disk, enrolled, main, monitor, ender>>

\* mark_synced: the rows of the batch that was posted, by id.
MarkSynced(B) ==
  buffer' = [i \in Recorded |-> [buffer[i] EXCEPT !.synced = @ \/ i \in B]]

\* Mutant: the status of the reply is not looked at.
SyncPostedUnchecked ==
  /\ sync.pc = "posting"
  /\ \E r \in Request : reqs[r].client = SyncLoop /\ Receive(r)
  /\ MarkSynced(sync.batch)
  /\ sync' = IdleSync
  /\ UNCHANGED <<inner, keychain, enrolled, main, monitor, ender>>

SyncPosted ==
  /\ sync.pc = "posting"
  /\ \E r \in Request :
       /\ reqs[r].client = SyncLoop
       /\ Receive(r)
       /\ \/ reqs[r].pc = "ok" /\ MarkSynced(sync.batch)
          \/ reqs[r].pc = "failed" /\ UNCHANGED buffer
  /\ sync' = IdleSync
  /\ UNCHANGED <<inner, keychain, enrolled, main, monitor, ender>>

\* The 15 s client timeout; the backend may still be working on the request.
SyncTimeout ==
  /\ sync.pc \in {"starting", "posting"}
  /\ \E r \in Request : reqs[r].client = SyncLoop /\ GiveUp(r)
  /\ sync' = IdleSync
  /\ UNCHANGED <<inner, disk, enrolled, main, monitor, ender>>
-----------------------------------------------------------------------------
(* The rest of the world.                                                  *)

\* The process stops and starts again (AppState::initialize): the workday is forgotten,
\* the buffer and the keychain are not; an unreadable keychain counts as an empty one.
Restart ==
  /\ workday' = FALSE
  /\ private' = FALSE
  /\ pending' = 0
  /\ sid' = 0
  /\ identity' \in {keychain, NoDevice}
  /\ main' = IdleMain
  /\ monitor' = IdleMonitor
  /\ ender' = IdleEnder
  /\ sync' = IdleSync
  /\ IF Waiting(SyncLoop)
       THEN \E r \in Request : reqs[r].client = SyncLoop /\ GiveUp(r)
       ELSE UNCHANGED ingestVars
  /\ UNCHANGED <<disk, enrolled>>

\* The worker stops the workday in the dashboard: routes/me closes the worker's latest
\* session, the agent's included.
StopInBrowser ==
  /\ \E r \in Request, u \in User, t \in EndTime : Send(r, MeEnd(NoClient, u, t))
  /\ UNCHANGED <<inner, disk, enrolled, threads>>

Served(A) == A /\ UNCHANGED <<inner, disk, enrolled, threads>>

Backend == \E r \in Request : Served(Serve(r)) \/ Served(Lose(r))

Monitor == MonitorPoll \/ MonitorReadSession \/ MonitorAppend

MainThread ==
  StartWorkday \/ TrayEnd \/ TogglePrivate \/ StampReadSession \/ StampAppend \/ Logout
    \/ ForgetIdentity

Commands == Enroll \/ EndCommand \/ EndClear

Sync ==
  SyncTick \/ SyncGate \/ SyncEnsure \/ SyncPending \/ SyncStarted \/ SyncSession
    \/ SyncTake \/ SyncPosted \/ SyncTimeout

Next == Monitor \/ MainThread \/ Commands \/ Sync \/ Restart \/ StopInBrowser \/ Backend

Spec == Init /\ [][Next]_vars

\* The sync loop keeps taking its steps, timeouts apart.
SyncStep ==
  SyncTick \/ SyncGate \/ SyncEnsure \/ SyncPending \/ SyncStarted \/ SyncSession
    \/ SyncTake \/ SyncPosted

\* The backend keeps answering: a query that is asked again and again while the agent
\* waits is not lost, or answered after the timeout, every time.
InTime(r, A) == reqs[r].client # NoClient /\ Served(A)

Fairness ==
  /\ WF_vars(SyncStep)
  /\ SF_vars(SyncPosted /\ buffer' # buffer)
  /\ \A r \in Request :
       /\ WF_vars(Served(Serve(r)))
       /\ SF_vars(InTime(r, ParseBody(r)))
       /\ SF_vars(InTime(r, FindOwned(r)))
       /\ SF_vars(InTime(r, InsertRows(r)))

FairSpec == Spec /\ Fairness
-----------------------------------------------------------------------------
(* Properties.                                                             *)

\* The server holds an event at most once, under the session it was recorded in, however
\* often its batch was posted.
StoredOnce ==
  \A c \in Csid, i \in Event : <<c, i>> \in rows => i \in Recorded /\ buffer[i].session = c

\* Every session id the agent holds anywhere is one the backend has handed out.
KnownSessions ==
  \A c \in {sid, main.sid, monitor.sid, ender.sid, sync.sid}
            \cup {buffer[i].session : i \in Recorded} :
    c # 0 => sessions[c].state # "none"

\* Within a session the server receives the events in the order they were recorded:
\* there is never a gap before a stored event.
StoredInOrder ==
  \A i, j \in Recorded :
    /\ i < j
    /\ buffer[i].session = buffer[j].session
    /\ <<buffer[j].session, j>> \in rows
    => <<buffer[i].session, i>> \in rows

\* The promise of EventLog: recorded, then stored, and acknowledged only once stored.
Log == INSTANCE EventLog WITH
  recorded <- Recorded,
  stored <- {row[2] : row \in rows},
  acked <- {i \in Recorded : buffer[i].synced}

\* The agent and the backend together implement the event log: nothing is stored that was
\* not recorded, nothing is acknowledged that is not stored, and nothing is undone.
ImplementsLog == Log!LogSpec

\* A session that stays open, known to the agent, and whose buffer holds no event the
\* schema refuses.
Open(c) ==
  /\ sid = c
  /\ sessions[c].state = "active"
  /\ sessions[c].device = identity

Synced(i) == i \in Recorded /\ buffer[i].synced

Flushed(c) ==
  \A i \in Event : i \in Recorded /\ buffer[i].session = c ~> Synced(i)

\* As long as the session stays open, every well-formed event recorded in it reaches the
\* server and is marked, whatever is lost, delayed or repeated on the way.
FlushedWhileOpen ==
  \A c \in Csid :
    <>[](Open(c) /\ \A i \in Unsynced(c) : ~buffer[i].malformed) => Flushed(c)
=============================================================================
